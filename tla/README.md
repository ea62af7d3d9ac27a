# SetuHaul in TLA+

SetuHaul books warehouse docks for trucks. Drivers ask an assistant for a slot,
planners decide the requests, a sweep ends what nobody decided, coordinators take
over when a driver is stuck, gate officers let the trucks in, and PostgreSQL's
constraints have the last word on who gets an interval of a dock. This directory
models the booking core, the services beside it and the browser application on
top of them, checks the models with TLC and proves their main safety properties
with TLAPS. Backend paths are relative to `src/backend/app/`, browser paths to
`src/frontend/src/`, unless they start with `src/`.

## Inventory

| Component | State | Operations | Hard part | What makes it correct |
|---|---|---|---|---|
| Booking core: `scheduling/allocation.py`, `holds.py`, `expiry.py`, `occupancy.py` | `appointments`, `dock_occupancy` | request, hold, confirm a hold, cancel, confirm, bulk confirm, reject, expire, hold for information, counter-offer, reschedule, sweep | many transactions on the same rows and intervals; a rollback inside a handler; a scan without locks; deadlines | one truck per dock interval; claims and active appointments match; a decision is final; nothing waits for ever |
| Snapshot: `scheduling/snapshot.py` | none (but its read expires dead holds) | displacement conflicts, snapshot hash | a read of state that moves | a planner confirms nothing over another truck's claim |
| Stage-1 feasibility: `scheduling/feasibility.py`, `urgency.py` | none | find and explain slots | its idea of "free" against the constraint's | an interval offered as free can be claimed |
| Sequencer: `scheduling/sequencer.py`, `repositories/scheduling_runs.py` | `scheduling_runs` | propose, apply, supersede | a proposal applied long after it was computed; swaps of slots | all or nothing, on the state it was computed for; one active run per facility |
| Notification outbox: `services/notification_outbox.py`, `notification_service.py` | `notification_outbox`, `notifications` | enqueue, drain, deliver, retry | duplicates, lost enqueues, concurrent drains | each event told once, none lost |
| Idempotency: `services/idempotency.py` | `idempotency_requests` | look up, store, delete | retries that race | one effect per key |
| Escalations: `services/escalation_service.py`, `thread_message_service.py` | `escalation_queue`, `chat_threads`, messages | raise, acknowledge, start, reassign, resolve, cancel, take over, hand back, post | coordinators side by side, reads without locks, lost answers | one live case per reason; a closed case stays closed; a message once |
| Operations console: `features/ops` | the queue, a selected case, a composer, a card of advice, rows of incidents | the same, by hand | calls that fail after they took effect; polls that land in between | what the coordinator is told is so; nothing he typed is lost; no advice that cannot be followed |
| Gate and yard: `services/gate_yard_service.py`, `features/gate` | `facility_checkins`, a kiosk's screen and keys | gate in, queue, dock in, unload, gate out; search, pick, tap | stale cards on several kiosks, retries, two trucks sent to one dock | a visit's steps once and in order; one truck in a dock; the outcome shown is the one recorded |
| Planner queue: `features/planner`, `shared/lib/live-poll.ts` | rows, staged rows, selection, open dialogs, writes under way | poll, merge, confirm, reject, hold, counter-offer | a read older than a decision; rows that move under a click | confirmed is what was shown; a decided row leaves |
| Planner board: `features/planner`, `services/planner_service.py` | `dock_status_events`, board reads, the review of a run | block, unblock, propose, review, apply, pick an interval | reads that overtake one another; a run that has drifted | the board shows one's own decisions; the review says what became of the run |
| Driver conversation: `assistant/`, `features/driver` | messages, streams, the turn history, the hold on screen | send, retry, turn, remember, leave, come back | a stream broken at any step, turns that overlap, a clock that runs fast | one hold per message; what the page says is so |
| Administration: `services/admin_user_service.py`, `admin_governance_service.py`, `features/admin` | `users`, scopes, identities at the auth provider, policy versions, audit rows | invite, edit, switch, remove; edit, simulate, publish; list, export | two systems without a transaction; admins side by side; late answers | a removed user stays out; role and scopes of one edit; published is what was decided |
| Carrier portal: `features/carrier` | sections of a dashboard | load, filter, retry, open | answers of older requests | a list is of the filter above it |
| Session: `core/auth`, `App.tsx` | the stored session, the identity, the route | sign in, out, refresh, guard | other tabs, late 401s, failed reads | nobody sees another's identity or page |
| ETA, role-scoped reads, API and settings, infrastructure | `eta_updates` | single-row writes, queries | little | scope and role checks |

How they interact: every handler works in a PostgreSQL transaction; server
components share state only through tables. A router calls a service;
`request_slot` calls `create_hold` or writes the appointment and its claim; the
confirmations call the snapshot, whose read expires dead holds before it judges;
every decision enqueues an outbox row in its own transaction; the sweep and a
blocked dock open escalations; the sequencer's apply releases and takes claims.
The browser calls the server and polls it; a call or its answer may be lost, and
nothing on the screen is newer than the last answer. `PROJECT.json` lists every
component with its status, and every hazard with its line.

## Modules

Server and core:

- `Allocation.tla`: the booking core. Variables: `appt` (appointments), `claims`
  (`dock_occupancy` rows that consume capacity; a row that turns EXPIRED or is
  deleted leaves the set), `todo` (what each sweep's scan has found and not yet
  visited), `resched` (a reschedule between two of its transactions), `outbox`,
  `escalations`, the clock `now`, and `reopened`, a history variable that only
  the properties read.
- `DockCalendar.tla`: what the core promises of a dock. Reservations that live
  until a deadline, bookings with an owner, and one rule: two live entries never
  clash. A reservation is not displaced before its deadline, and a booking ends
  or moves only by its owner's leave.
- `AllocationRefinement.tla`: the mapping. A HELD row is a hold of the calendar
  until the last instant at which a handler with an old reading of the clock may
  still confirm it (`MaxLag`); a row with an appointment is its booking.
- `EscalationService.tla`: escalations, taken-over threads and messages. A call
  is one step where the code locks, and two (`Check...`, then the write) where it
  reads, decides and writes without a lock.

The browser application:

- `LivePoll.tla`: the loop that re-reads a list. `PlannerQueue.tla` and
  `OpsConsole.tla` run it.
- `Sublists.tla`: what JavaScript's `filter` keeps of an array (`Keep`), written as
  a recursive function so that the proofs can speak of it. The queue, the console
  and their reads are built with it.
- `PlannerQueue.tla`: the planner's queue, with as much of the server as decides
  its requests. `PlannerBoard.tla` (over `BoardLayout.tla`, where the board draws
  things): blocks, proposals and the interval picker.
- `OpsConsole.tla` extends `EscalationService` with one coordinator's console, and
  `OpsCopilot.tla` extends that with the card of advice and the incident rows.
- `DriverChat.tla`, `GateKiosk.tla`, `UserAdmin.tla`, `PolicyEditor.tla`,
  `FleetDashboard.tla`, `AuditLog.tla`, `Session.tla`: one screen each, with its
  side of the server.
- `Consoles.tla` composes these seven: a browser mounts one of them (`surface`),
  and the state of the others is None.

`MC*.tla` and the `.cfg` files are the instances for TLC. The theorems are in
`AllocationProofs` and `RefinementProofs` (the core), `QueueProofs` (the planner's
queue), `BoardProofs` (the board), `TakeOverProofs` (cases, the console and its
card), `ConsolesProofs` (conversation and gate), `ScreenProofs` (users, policies,
lists, session), and `SublistProofs` (what `Keep` returns). `PROJECT.json` maps every definition to the lines it translates.

### Code and model

| Code | Action |
|---|---|
| `request_slot` (two-phase on: `create_hold`) | `RequestHold` |
| `request_slot` (two-phase off) | `RequestDirect` |
| `confirm_held_slot` | `ConfirmHeld`, `ConfirmHeldInfeasible` |
| `cancel_appointment` | `Cancel` |
| `confirm_appointment`, `bulk_confirm` | `Confirm`, `BulkConfirm` |
| `reject_appointment`, `expire_appointment` | `Reject`, `ManualExpire` |
| `hold_for_information`, `counter_offer` | `HoldForInformation`, `CounterOffer` |
| `reschedule_appointment` | `ReschedulePrecheck`, then `RescheduleMove`, `RescheduleToHold` or `RescheduleCollide`, then `RescheduleRestore`; `RescheduleDrop` at any refusal or crash |
| `sweep_expired_appointments` | `SweepScan`, then `SweepExpire` or `SweepSkip` for each row; `SweepHolds` (`sweep_held_holds`); `SweepAbort` when the process dies |
| a tool of `gate_yard_service` | the action of its name; `record_dock_in` in two, `LockForDockIn` and `CommitDockIn` |
| a turn of the assistant | `PrepareTurn`, the tool, `PersistTurn`, `CommitDone`, each of which the stream may not live to see |
| a call of `escalation_service` | the action of its name, after `Check...` where the read takes no lock |
| a call of the browser | the call leaves, the server answers it or not, the answer lands or the call fails; the two ends need not agree |

**What is one step.** A handler that takes the row locks of what it reads, reads
it under them and commits once is one action: at READ COMMITTED its statements
see what is committed and the locks keep the rows as read, and the constraints
are judged when it writes. Handlers of the same slot or shipment meet on
`FOR UPDATE` of those rows, so a unique index of `appointments` is never what
stops an insert; for two slots of one dock nothing but the exclusion constraint
does, hence `RescheduleCollide` is a step for exactly that violation. Where the
code gives its locks back and goes on, or never takes them, the model has a step
for each part: the scan and the visit of a sweep; the pre-check, the move and,
after the rollback, the restore of a reschedule; the look at a dock and the
dock-in; the read and the write of a takeover. A handler reads the clock before
it waits for its lock, so it may act on a reading up to `MaxLag` old
(`ReadClock`). In the browser a step is what runs without an `await`.

**What is left out, and why.** Stage 1's verdicts (ETA, opening hours, dock type
and weight, dock events) can only refuse, and a refusal changes no row: the model
takes them as a free choice not to step. Audit rows, request texts and answers
carry no state unless a property is about them. `is_current` is 1 exactly when
the status is active in every write of the code and is dropped. The safe-batch
predicates of `bulk_confirm` other than displacement choose the set `E`.
`enqueue_notification` is taken to succeed. Whether the planner's queue
or the calls of a screen are delayed by a timer is left out: a timer that is
armed may fire at any moment. What the language model decides to call is taken
from what the driver asked for. Names, wording, formatting and layout are left
out, the board's geometry excepted.

## Runs

The core's instance is one dock, slots starting at 0 and 2 (and 4 in `seeds`), a
short truck whose window is `[start, start+2)` and a long one with
`[start, start+3)`. A short truck in the first slot just touches the second one;
a long one spills into it. That gives windows that meet without overlapping,
windows that overlap though their slots differ, and equal slots.

| Run | Question | Properties | Instance |
|---|---|---|---|
| `holds` | With holds on, do requests, confirmations, decisions and sweeps in any order keep the dock exclusive and the calendar's promises? | `TypeOK`, `DockExclusive`, `ReadWriteAgreement`, `OutcomeIsTold`, `ClockNeverRestarts`, `LapsedHoldNeverBooks`, `ImplementsCalendar` | 2 trucks, 2 appointments, 2 slots, 3 instants |
| `direct` | With holds off, started on old overlapping appointments, do claims and appointments stay together? | `ClaimsHaveOwners`, `ActiveIsProtected`, `SweptHadFullTTL` | 2 old appointments and a new one, 2 sweepers, 2 reschedules at once, 4 instants |
| `seeds` | What may the restore after a collision put back? | `ReopenedOnlyByRestore`, `NoInventedClaim`, `ImplementsCalendar` | holds on, 2 old appointments, 3 slots, a reschedule |
| `settle` | Does every request and every hold end? | `RequestSettles`, `HoldEnds` | fair sweeper, clock readings one tick late, a reschedule |
| `queue` | Does the planner confirm what he was shown, and do decided rows leave his screen? | `ToldIsTrue`, `ConfirmedAsShown`, `DecidedRowReturnsOnlyByALateRead`, `RowsStayPut`, `DecidedRowLeaves` | 2 requests, 2 snapshots, one press, one move by others, one tool |
| `board` | Does the board show the planner's own decisions and say what became of a proposal? | `BoardTellsOwnDecisions`, `EveryOptionDrawnOrCounted`, `OutcomeIsTrue`, `AppliedAsReviewed` | 2 blocks, 2 runs, 2 digests, 3 hours, 2 presses, 2 moves by others |
| `takeover` | Is a coordinator told the truth about cases, threads and messages? | `AcknowledgedAsTold`, `OneCasePerReason`, `PostedOnce`, `AdviceIsTrue`, `Steps`, `NothingTypedIsLost` | 4 cases, 2 threads, 2 coordinators, 5 errands of one to three presses |
| `consoles` | Whichever screen is mounted, is what it shows and causes true? | `OneHoldPerMessage`, `ConversationIsTrue`, `StepsOnceInOrder`, `DockSharedOnlyInARace`, `KioskIsTrue`, `PublishedAsDecided`, `RemovedForGood`, `AccessOfOneEdit`, `ListsAreCurrent`, `SessionIsTrue` | each screen with two of each actor, two messages, taps, lookups, edits, publications |
| `one_decision` | violated, see Findings | `OneDecisionWins` | 1 appointment, a reschedule |
| `failed_reschedule` | violated | `FailedRescheduleRestores` | 1 appointment, a reschedule, holds on |
| `extension` | violated | `ExtendedDeadlineHonoured` | 1 appointment, no reschedule |
| `sign_in` | violated | `PendingFormIsWaiting` | 2 people, one press of Sign in |

**Bounds.** In the core, `MaxTime` stops the clock after both TTLs (1 each) have
run out at least once for anything requested up to `LastRequest`; new requests
stop there so that the end of the clock does not hide a deadline. `HeldTTL` and
`PendingTTL` are one tick, so live, at its deadline and past it all occur.
`BatchLimit` is 1 so that two overdue requests are already a full batch and a
rest. `MaxReschedules` and the one reschedule per shipment bound what is between
transactions; two at once suffice for one restore to meet the other's effect. A
property about two claims needs two trucks, a property about a claim and its
appointment needs one and a rival. Two new appointments, two sweeps and a
reschedule with holds on are beyond TLC: the theorems cover them.

In the browser, presses, taps, calls, retries and what others do are counted and
bounded (`MaxPresses`, `MaxTaps`, `MaxLookups`, `MaxCalls`, `MaxMoves`,
`MaxEvents`, ...), since each is otherwise free at every moment. Two of each is
where a first call's late answer meets a second one. `consoles` composes seven
screens of which one is mounted, so its states are the sum of theirs. Two of its
bounds are tighter than the questions would like: one dock at the gate (so that
an outcome of the wrong dock never comes), and a clock of one tick in the
conversation and at the carrier. The theorems
hold without any of these bounds.

**Fairness.** In `settle`, the sweeper is scheduled every minute and runs to its
end: weak fairness of each sweep and of the clock. (The repository's issue #20
still has the schedule's wiring open; until it is deployed, the run describes the
intended operation.) A row locked by someone is skipped, so a single sweep may
miss it; strong fairness of the expiry of a request's row and of a hold says that no row
is locked each time a sweep comes by, which the handlers' short transactions justify. In `queue`, the
poll's timer is armed again after every answer, so a tick that is possible again
and again, with no write under way (a write pauses the loop), is taken; a read
that is asked is answered now and then (strong) and its answer or its failure
reaches the browser (weak), as a request does that has a timeout; a hidden tab is
shown again; a write ends. Nothing is assumed of drivers, planners,
coordinators, officers and admins, and the other runs assume no fairness at all.

**Deadlock** is checked in the core's runs. The browser's runs switch it off: a
screen whose user has spent his presses really stops.

Each property has a mutant in `PROJECT.json`: a small change of the code's model
that TLC shows to break it.

## Findings

1. **A reschedule can undo a decision** (`one_decision`,
   `allocation.py:2251`). When the nested request collides, `request_slot` rolls
   back, and the lock on the old appointment goes with it. The restore then
   writes the old status unconditionally, though a planner may have rejected, or
   the sweep expired, the appointment meanwhile. `ReopenedOnlyByRestore`, a
   theorem, says this is the only way a decision is undone.
2. **With two-phase holds on, every reschedule fails and leaves a hold**
   (`failed_reschedule`). The nested request answers SLOT_HELD, which is not
   SLOT_REQUESTED. Proving the refinement showed more: after an earlier restore
   the row's slot and its claim's slot may differ, and then the put-back moves the
   claim to the row's slot in the same transaction that keeps the new hold. The
   calendar has an action for it, `ReserveMoving`; without it the core did not
   implement the calendar.
3. **An extension can come too late for a sweep that has begun** (`extension`,
   `expiry.py:258`). The sweep re-checks the status under the lock, not the
   deadline.
4. **The sign-in form can stay pending for ever** (`sign_in`, `App.tsx:329`).
   Nothing clears `submitting` when the password is right and the read of the
   account fails.

### Other places where code and words differ

Met while modelling, each in the model as the code does it; no run is spent on
them.

- Escalations: Escalate pressed again after midnight UTC opens a second live case
  of one thread and reason, since `dedupe_key` carries the day (found while
  proving `CasesAreOne`, whose property says "and day"). A thread whose case is
  closed while taken over cannot be handed back (`escalation_service.py:884-890`,
  `1032-1035`; `takeover-control.tsx:206-211`). A message can be posted after the
  hand-back, and "no case was opened" is said after a lost answer.
- Operations console: a transcript may be of the thread selected before
  (`ops-console.tsx:265-279`); the composer is not keyed by case; the dialog
  escalates something other than its preview after a change
  (`escalate-dialog.tsx:95-97`, `109-135`). The incident row of a case that
  cannot be selected answers NOT_ACKNOWLEDGED (`copilot-pane.tsx:184-188`), and
  `load()` unmounts incident rows with what was typed in them
  (`capacity-incident-row.tsx:80-88`).
- Driver: a stream that ends without `done` is marked delivered
  (`use-driver-turn.ts:386-387`), and a message stays "sending" after an unmount
  (389). A queued message is never flushed, though `copy.ts:82` says it is sent
  when back online; the lapse notice (`copy.ts:64-65`) may be of a hold that was
  booked; the state line says HELD after a confirmation
  (`conversation.tsx:74-76`); an older set of options stays tappable.
- Gate: a kiosk at INVALID_TRANSITION has no way on but ending the shift
  (`gate-kiosk.tsx:131-140`, `outcome-screen.tsx:321-339`); two trucks may be let
  into one dock (`gate_yard_service.py:700-725`), which
  `DocksAreSharedOnlyInARace` confines to the window between look and commit;
  "nothing has changed" (`truck-action.tsx:137`) is false after a lost answer.
- Planner: "nothing was applied" (`proposal-overlay.tsx:204-216`, 651) and
  "nothing has changed" (`refusals.ts:142-149`) may follow a write whose answer
  was lost; "checked" times of `block-dock-dialog.tsx:57-59` may be stale; two
  planners can block one interval twice (`planner_service.py:1057`); a poll begun
  before a write may land during it (`live-poll.ts:159-164`); "connected" is
  shown before any read (`live-poll.ts:294`); a bulk confirmation includes
  selected rows that a filter hides (`queue-tab.tsx:456-458`).
- Administration: a conflict of publications is told in words of another case
  (`policy-simulation-panel.tsx:455-461`); Retry can publish what was never
  simulated as shown (`policy-tab.tsx:346`); `users-tab.tsx:277` promises a new
  invitation that `users.email` UNIQUE (`baseline.sql:309`) refuses; a process
  that dies between the auth provider and the commit leaves an identity
  (`admin_user_service.py:1165-1169`); lists and audit pages may load out of
  order (`audit-tab.tsx:87-96`).
- Carrier and session: a section may show rows of the filter before
  (`use-fleet-dashboard.ts:219-224`), Retry never reads again
  (`shipment-detail.tsx:117`); a late 401 signs out a newer session
  (`unauthorized.ts:38-52`); signing out over a dead network leaves the stored
  session; the old identity is shown until the new one is read
  (`auth-provider.tsx:131`).

## Proofs

Every theorem holds for any sets of actors and things and any bounds; sets are
asked to be finite only where the program counts or sorts them. The assumptions,
by component:

- the core: `DataAssumption` (ids, times and durations are of their types, the
  changeover buffer is positive, NULL is no id), `SettingsAssumption` (settings and
  bounds are numbers), `SeedAssumption` (the unique indexes stood when the old
  appointments were made);
- the queue: `QueueAssumption` (finitely many requests, so that a ranking of them
  exists; a hash that clashes is a hash; NULL is no id and no hash);
- the board: `BoardAssumption` and `NullAssumption` (a window ends after it starts,
  lengths are positive, the options of one offer are finitely many, NULL is no id,
  row or answer);
- the console: `EscalationAssumption` (cases are numbered from 1 in the order they
  are made, as `created_at` orders them), `RaisedAssumption` (the rows there are at
  first stand under the unique index, and what nobody acknowledged has no owner),
  `CodeAssumption` (NULL is no code and no control) and the bounds;
- the screens: `ConsolesAssumption` (bounds are numbers; NULL is none of the ids,
  roles or identities; weights that need the fairness lock are not routine ones;
  the model's words for kinds are no ids).

None bounds how many of anything there are. TLC evaluates each of them in the
runs of its component.

| Module | Theorem | What holds always |
|---|---|---|
| `AllocationProofs` | `TypeCorrect` | `TypeOK` |
| | `DockIsExclusive` | `DockExclusive` |
| | `ClaimsAreOwned` | `ClaimsHaveOwners` |
| | `ActiveAreProtected` | `ActiveIsProtected` |
| | `DecisionsStand` | `ReopenedOnlyByRestore` |
| | `ClocksNeverRestart` | `ClockNeverRestarts` |
| | `HoldsBookAlive` | `LapsedHoldNeverBooks` |
| | `OutcomesAreTold` | `OutcomeIsTold` |
| | `SweptAfterFullTTL` | `SweptHadFullTTL` |
| | `ClaimsAreNotInvented` | `NoInventedClaim` |
| | `ReadsAgreeWithWrites` | `ReadWriteAgreement` |
| `RefinementProofs` | `CoreKeepsCalendar` | `ImplementsCalendar`: `Spec` implements `DockCalendar` |
| `QueueProofs` | `QueueIsTyped` | `QueueTyped`, the types of the queue's state |
| | `ToldIsTrueAlways` | `ToldIsTrue` |
| | `ConfirmedAsShownAlways` | `ConfirmedAsShown` |
| | `ReturnsOnlyByALateRead` | `DecidedRowReturnsOnlyByALateRead` |
| | `RowsStayPutAlways` | `RowsStayPut` |
| `TakeOverProofs` | `CasesAreOne` | `OneCasePerReason` |
| | `CasesOnlyClimb` | `Steps` |
| | `MessagesAreOne` | `PostedOnce` |
| | `ToldHeAcknowledged` | `AcknowledgedAsTold` |
| | `NothingTypedIsLostAlways` | `NothingTypedIsLost` |
| | `AdviceIsTrueAlways` | `AdviceIsTrue` |
| `ScreenProofs` | `RemovalIsForGood` | `RemovedForGood` |
| | `ScopesAreOfOneEdit` | `AccessOfOneEdit` |
| | `PublishedAsDecidedAlways` | `PublishedAsDecided` |
| | `ListsAreCurrentAlways` | `ListsAreCurrent` |
| | `SessionIsTrueAlways` | `SessionIsTrue` |
| `ConsolesProofs` | `MessagesCostOneHold` | `OneHoldPerMessage` |
| | `ConversationsAreTrue` | `ConversationIsTrue` |
| | `VisitsAreOnceInOrder` | `StepsOnceInOrder` |
| | `DocksAreSharedOnlyInARace` | `DockSharedOnlyInARace` |
| | `KiosksTellWhatIsOnRecord` | `KioskIsTrue` |
| `BoardProofs` | `OwnDecisionsAreShown` | `BoardTellsOwnDecisions` |
| | `OptionsAreAccountedFor` | `EveryOptionDrawnOrCounted` |
| | `OutcomesAreTrue` | `OutcomeIsTrue` |
| | `AppliedOnceAsReviewed` | `AppliedAsReviewed` |

With these, every invariant and every safety property of steps that a passing
run checks is also a theorem.

**The core.** The types alone are not inductive: the restore sets a status on a
row it does not read, and were that row absent, it would be no appointment.
`InFlight` says a reschedule between transactions is of an appointment that
exists and belongs to its shipment. `DockExclusive` follows step by step from
what an insert is admitted to (`Admits`), since every other step only takes rows
away; the lemmas on `Release`, `FlipOnInterval` and `FlipForAppointments` say just
that. `OwnerInv` adds nothing but the types: the restore of a released claim
looks at what the appointment has now, so it never makes a second one.
`ActiveIsProtected` needs `CollidedHadClaim`: an appointment that was not of the
backfill and whose reschedule collided had a claim to release, so that a restore
that reopens it also takes a claim back.

The properties of a decision are action properties about one row, and
`AllocationProofs` reduces every step to what it does to a row: leaves it, makes
it (`Made`), decides it, cancels it, extends it, moves it or restores it. Each
property is then a case split over these seven and not over the handlers.
`OutcomesAreTold` needs `OutcomeInv`: what a restore reopens was told before.
`SweptAfterFullTTL` needs `SweepInv`: a candidate of a scan had its full window
at the scan, and neither its booking time nor the clock goes back.

**The refinement.** The calendar's entries are read off the claims: `HoldOf` for a
row without an appointment, `BookingOf` for one with. `StateInv`, the four
invariants above, is what makes the mapping an entry per claim. Each handler is
one lemma: its step is a calendar step on the mapped entries or leaves them
alone. That two places differ when their windows are apart (`PlacesDiffer`) is
where the buffer must be positive.

**Filtered lists.** What `Keep` returns is an induction over a sequence, and the
library's induction theorems take an operator, which the provers cannot
instantiate. `SublistProofs` goes round that: the finite subsets of a set are
well-founded, so a set of numbers has a least one (`LeastOf`), so a set that has 0
and successors has every number (`AllNat`); that the recursion defines a function
(`RecursionEnds`) and what the function returns (`KeepProperties`: a sequence of
the same type whose members are those of the sequence that are in the set) are
instances of it.

**The planner's queue.** `QueueInv` adds two facts to the types and `ToldIsTrue`. An
answer under way, or stored under its key, that says "done" of a row is given of a
decided row (`AnswersAreTrue`), and nothing takes a decision back, so a replay is
as true as the first answer. A re-sort brings nothing that is not on the screen
or staged (`NothingHidden`), so it returns no decided row. `ConfirmedAsShown`
follows from what the server does under its lock with the snapshot the press
sent, whatever the row has become. For `RowsStayPut` and the return of a decided
row every step is first shown to change the list in one of a few ways
(`HowTheListChanges`): not at all, by a read, by a re-sort, or by taking away the
rows of an answer.

**Cases and messages.** Rows of the queue only open and climb (`RowsStep`), which
is `Steps`, and with the server's check of live rows and keys gives
`OneCasePerReason`. `PostedOnce` follows because presses number calls, handlers
and keys, and the id under which a message is stored is its press's.
`AcknowledgedAsTold` needs `AnswerInv`, which follows a key: all calls and stored
answers under it are of one case, a stored ACKNOWLEDGED is of a case its caller
acknowledged, and an OPEN case is nobody's, so a replayed answer is as true as
the first.

**The console.** Every step is quiet, or it is one press (`EveryStep`): what it does
to calls, handlers and keys; `PaneStep` says the same of the queue, the pane and
its messages. A lemma per action shows both, and the invariants are then kept by
kinds of step instead of actions. `ConsoleInv` is their conjunction with
`AnswerInv`. A case keeps its thread and only climbs, what is
open is nobody's, and whatever calls, handlers and the dialog name exists
(`CasesInv`). What a read of the queue says of a case, landed or under way, is no
further on the stepper than the case is by now (`QueuesAreTrue`). `TalkInv` and
`PostInv` are about what he typed: it stands in the pane of a case, its key is no
action's key, and what is stored or answered under it says that it was posted, so
that a message goes from the pane as sent only when it is there. `CardInv` relates two
reads without an order between them: a suggestion was fit for the case as the
server found it (`IsFit`), and the card's read, asked again whenever the row's
status changes and ignored otherwise, is no older than the row beside it
(`NoOlder`); this is why the effect is keyed on the status too. `IncidentsInv`
follows an incident's row to its own call, and the call to the run that was made.

**Users.** `UsersInv`: a call that holds a row's lock has seen the row's own
scopes, and one call at a time does; a removal between the deletion at the auth
provider and its commit holds the identity it read off the row, and after the
deletion that identity exists no more; identities are numbered and never made
again.

**Policies.** `PolicyInv`: a key belongs to one admin's attempts; a tab shows only
versions there are, and fairness weights only once unlocked; a publish that has
looked its key up missed no version of before its baseline (`CallKnows`), so when it
finds its baseline the newest, there is none of its key either: that is what makes
one version per key, though the look-up takes no lock; and each version comes of a
publish upon the one before it (`ComesOf`).

**Lists.** `AuditInv`: only the newest load is of the toolbar's setting for sure, and
entries never go away, so a file that is asked for now has at least what is there
now. `FleetInv`: the newest load that asks for the shipments is of the filter that
is set, and they have come, failed or are awaited (`ShipmentsAsked`); no section
shows something newer than the answer it waits for (`NeverOlder`); and every time
that a load counts is that of some section (`Accounted`).

**The session.** `SessionInv`: only a token is answered with an identity; without a
session there is none, and none to come; who is shown a page is of a role that may
open it (`PageAllowed`, from `HomeIsAllowed` and `GuardedIsAllowed`: where the guards
lead is itself allowed); and as long as no other tab interferes the session
is the stored one, what is read is its subject's, and a session that is being
checked is checked by something (`Alone`). `Mounted` says that each screen's
invariant holds when that screen is mounted, which the surface's never changing
makes inductive.

**The conversation.** `ChatInv`: a hold is of a message that asked for its slot;
an answer on its way carries holds there are and times that were; a turn is of a
message already written; and a clock that shows a deadline was set by a time of
the server, so offset and skew together never run behind it.

**The gate.** `GateInv`: a truck's row and its log are the first steps of a visit,
the same number of them; a card that offers GATE_OUT is of an unloaded truck,
since what was unloaded stays so; one call at a time holds a truck's row; a dock
seen free under it is still free or its truck is among the raced; calls under one
key are of one truck and action; and what a call was answered is on record.

**The board.** `BoardInv`: a run that was applied or retired never changes again,
and one that is applied was active on its own digest (`RunsStep`); a stored or
travelling answer of an apply is true of the run it names (`AnswersTrue`), which
the review's outcome inherits whatever run it shows by then (`ReviewTrue`).
`BoardTellsOwnDecisions` needs that every read under way or shown was answered
after the last decision the planner was told of, or is asked again (`ReadsTell`),
and that a row that ended never lives again. `EveryOptionDrawnOrCounted` is
geometry: what `PlaceOnTrack` does not reject lies on the track (`PlacedFits`),
and the lanes' options and the counted ones part the options (`OfferedOrCounted`).

**What the proofs corrected.** Four definitions were found wrong by a proof that
failed and not by TLC, and were corrected against the source:

- `NothingTypedIsLost` ended in `loads' \in SUBSET loads \ {loads}`, which reads as
  `SUBSET (loads \ {loads})` and is true of any step that leaves the loads alone, so
  that the property said next to nothing. It now says that one load has landed.
- `RowsStayPut` said that after a decision no row the planner was ever told of is
  left. A late read may have brought one of them back (that is what
  `DecidedRowReturnsOnlyByALateRead` allows), and the answer to a later press takes
  away its own rows only; the run's one press was too few to show it. The property
  now names the rows of the answer.
- `Session`: the arms of two CASE expressions overlapped, so which page a sign-in
  arrives at was not determined; roles the browser does not know had no type.
- `PolicyEditor`: nothing kept the routine weights apart from the fair ones, though
  the lock of `policy-simulation-panel.tsx` tells them apart.

**Only model-checked.** The liveness properties: `RequestSettles`, `HoldEnds` and
`DecidedRowLeaves`. Liveness under fairness is beyond this prover. The four runs
that expect a violation have no theorem, being about what does not hold.

## Not modelled, and why

- The outbox's drain and the idempotency table's races: the events the core
  enqueues are modelled, what delivers them is not. Their hazards are in
  `PROJECT.json` without a property.
- The sequencer's search and the moves its apply makes: a proposal here is a run
  with a digest, and applying it takes effect or is refused as a whole.
- Waiting for row locks, and so deadlock between handlers that lock rows in
  different orders: a handler is one step.
- ETA updates and role-scoped reads: single writes and queries.
- Of the browser: the counter-offer dialog, which nothing opens; the settings
  page; galleries, fixtures and flags; the gantt of kibo-ui; formatting and copy.
- Migrations, deployment, load tests, the language model itself.

## Plan

Done, in this order: the core with its calendar; the console and its service; the
planner's queue and board; the seven screens; the proofs of each, from the core
outwards, until every safety property that is checked was proved.

To come:

1. Outbox and drain: batch locks given back and taken again, a delivery that
   crashes between its send and its mark (the three hazards of
   `notification_outbox.py`). What to prove: an event is delivered at most once per
   lease, and none is lost.
2. Idempotent requests as a table of their own, and the deletion of a stored answer
   whose appointment is no longer active.
3. The sequencer's apply composed with the claims: swaps, one move at a time.
4. Lock order with waiting as state, for the deadlock between `confirm_held_slot`
   and `request_slot`.

## Running

    tlc -config holds.cfg MCAllocation.tla
    tlapm AllocationProofs.tla

`PROJECT.json` names the module and the `.cfg` of each run. `consoles` and
`takeover` take one to three minutes with two workers. Of the proofs,
`TakeOverProofs` and `ConsolesProofs` take about five minutes each from nothing,
the others less.
