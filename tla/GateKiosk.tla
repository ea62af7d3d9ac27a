------------------------------ MODULE GateKiosk ------------------------------
(***************************************************************************)
(* The gate and yard kiosks (features/gate) of one facility and the five    *)
(* tools behind them (gate_yard_service).  A kiosk looks a truck up, shows  *)
(* the one action the server derived for it, and the officer taps it.  A    *)
(* call or its answer may be lost, and what a kiosk shows goes stale: other *)
(* kiosks act on the same trucks, a lookup answers late, a result lands     *)
(* after the officer went back or ended the shift.                          *)
(*                                                                         *)
(* The three waiting states are one, WAITING: every kiosk offers the same   *)
(* action in each of them.  Officers' names authorise nothing and are left  *)
(* out.                                                                     *)
(***************************************************************************)
EXTENDS Naturals, Sequences, SequencesExt

CONSTANTS
    Truck, Kiosk, Dock,
    None,
    Stage,          \* what trucks have behind them at first: some of Stages
    MaxTaps,        \* bound: taps on the primary action, of all kiosks
    MaxLookups,     \* bound: searches of all kiosks
    MaxMoves        \* bound: appointments moved or cancelled meanwhile

Stages == {"coming", "waiting", "called", "unloading"}

GateAssumption ==
    /\ {MaxTaps, MaxLookups, MaxMoves} \subseteq Nat
    /\ None \notin Dock /\ Stage \subseteq Stages

VARIABLES
    kiosk,          \* GateKiosk: shift, phase, and the state of its TruckAction
    lookups,        \* searches without an answer: the cards each matched
    calls,          \* the taps: what the kiosk and the server know of each
    checkin,        \* facility_checkins
    appt,           \* the dock of a truck's active appointment
    log,            \* audit_logs: the events recorded of a truck
    raced,          \* history: trucks docked in while another's dock-in was between its steps
    searched, moves

screens == <<kiosk, lookups, searched>>
yard == <<checkin, log, raced>>
vars == <<screens, calls, yard, appt, moves>>

Steps == <<"GATE_IN", "DOCK_IN", "UNLOAD_START", "UNLOAD_END", "GATE_OUT">>

\* facility_checkins: one row for a shipment.
Row(gated, queue, dock, started, ended, out) ==
    [gated |-> gated, queue |-> queue, dock |-> dock, started |-> started,
     ended |-> ended, out |-> out]

\* The rows the tools leave behind after so many of a truck's steps.
AtStage(t, s) ==
    CASE s = "coming" -> Row(FALSE, "NOT_QUEUED", None, FALSE, FALSE, FALSE)
      [] s = "waiting" -> Row(TRUE, "WAITING", None, FALSE, FALSE, FALSE)
      [] s = "called" -> Row(TRUE, "CALLED_TO_DOCK", None, FALSE, FALSE, FALSE)
      [] s = "unloading" -> Row(TRUE, "IN_DOCK", appt[t], TRUE, FALSE, FALSE)
StepsOf(s) ==
    SubSeq(Steps, 1, CASE s = "coming" -> 0 [] s \in {"waiting", "called"} -> 1 [] s = "unloading" -> 3)

\* Phase, and TruckAction's state: the action's key (0: a fresh one), the tap it
\* waits for (0: none) and whether the last one failed.
Screen(phase, card) ==
    [shift |-> TRUE, phase |-> phase, card |-> card, found |-> {}, key |-> 0,
     waiting |-> 0, failed |-> FALSE, outcome |-> 0]

Init ==
    /\ kiosk = [k \in Kiosk |-> Screen("search", None)]
    /\ lookups = [k \in Kiosk |-> {}]
    /\ calls = << >>
    /\ appt \in [Truck -> Dock]
    /\ \E s \in [Truck -> Stage] :
           /\ \A t, u \in Truck : s[t] = "unloading" /\ s[u] = "unloading" /\ appt[t] = appt[u] => t = u
           /\ checkin = [t \in Truck |-> AtStage(t, s[t])]
           /\ log = [t \in Truck |-> StepsOf(s[t])]
    /\ raced = {}
    /\ searched = 0 /\ moves = 0
-----------------------------------------------------------------------------
(* Looking a truck up.                                                      *)

\* derive_next_action: the one action that is valid for a truck.
NextAction(r) ==
    CASE r.out -> None
      [] ~ r.out /\ ~ r.gated -> "GATE_IN"
      [] ~ r.out /\ r.gated /\ r.queue = "WAITING" -> "CALL_TO_DOCK"
      [] ~ r.out /\ r.queue = "CALLED_TO_DOCK" -> "DOCK_IN"
      [] ~ r.out /\ r.queue = "IN_DOCK" -> IF r.started THEN "END_UNLOAD" ELSE "START_UNLOAD"
      [] ~ r.out /\ r.queue = "COMPLETED" -> "GATE_OUT"

\* GateTruckMatch: what a kiosk is told of a truck.
Card(t) == [truck |-> t, next |-> NextAction(checkin[t]), dock |-> appt[t]]

\* SearchPanel.search: a search may start while another has no answer; its
\* query matches one truck or several, or none and then nothing is shown.
Search(k, matches) ==
    /\ kiosk[k].shift /\ kiosk[k].phase = "search"
    /\ searched < MaxLookups
    /\ searched' = searched + 1
    /\ lookups' = [lookups EXCEPT ![k] = @ \cup {{Card(t) : t \in matches}}]
    /\ UNCHANGED <<kiosk, calls, yard, appt, moves>>

RearmedOnMount(s, card) ==               \* mutant of Rearmed
    IF s.phase = "truck" THEN [s EXCEPT !.card = card, !.failed = FALSE]
    ELSE [Screen("truck", card) EXCEPT !.shift = s.shift]

\* TruckAction with a card: for another truck or another action its effect arms
\* a fresh key; the component, and what it waits for, stays mounted.
Rearmed(s, card) ==
    IF s.phase = "truck" /\ s.card.truck = card.truck /\ s.card.next = card.next
    THEN [s EXCEPT !.card = card]
    ELSE [Screen("truck", card) EXCEPT !.shift = s.shift,
                                       !.waiting = IF s.phase = "truck" THEN s.waiting ELSE 0]

\* onFound, onDisambiguate: the truck that matches, or a list of them.
Shown(s, found) ==
    IF \E c \in found : found = {c} THEN Rearmed(s, CHOOSE c \in found : TRUE)
    ELSE [Screen("list", None) EXCEPT !.shift = s.shift, !.found = found]

\* The answer to a search, read at any time since it was asked.  It takes the
\* kiosk wherever it has got to, a shift that has ended included.
LookupLands(k, cards) ==
    /\ lookups' = [lookups EXCEPT ![k] = @ \ {cards}]
    /\ \E found \in {cards, {Card(c.truck) : c \in cards}} :
           kiosk' = [kiosk EXCEPT ![k] = Shown(@, found)]
    /\ UNCHANGED <<searched, calls, yard, appt, moves>>

\* A failed search leaves the screen as it is; so does one that matches nothing.
LookupFails(k, cards) ==
    /\ lookups' = [lookups EXCEPT ![k] = @ \ {cards}]
    /\ UNCHANGED <<kiosk, searched, calls, yard, appt, moves>>

\* DisambiguationList.
Pick(k, card) ==
    /\ kiosk[k].shift /\ kiosk[k].phase = "list" /\ card \in kiosk[k].found
    /\ kiosk' = [kiosk EXCEPT ![k] = Rearmed(@, card)]
    /\ UNCHANGED <<lookups, searched, calls, yard, appt, moves>>

HasNext(result) == result # "INVALID_TRANSITION"

\* ShiftBar's back, and OutcomeScreen's next, which one outcome has not.
BackToSearch(k) ==
    /\ kiosk[k].shift
    /\ \/ kiosk[k].phase = "truck"
       \/ kiosk[k].phase = "outcome" /\ HasNext(calls[kiosk[k].outcome].result)
    /\ kiosk' = [kiosk EXCEPT ![k] = Screen("search", None)]
    /\ UNCHANGED <<lookups, searched, calls, yard, appt, moves>>

\* handleEndShift.
EndShift(k) ==
    /\ kiosk[k].shift
    /\ kiosk' = [kiosk EXCEPT ![k] = [Screen("search", None) EXCEPT !.shift = FALSE]]
    /\ UNCHANGED <<lookups, searched, calls, yard, appt, moves>>

\* ShiftStart: whatever phase a late answer has set is what opens.
StartShift(k) ==
    /\ ~ kiosk[k].shift
    /\ kiosk' = [kiosk EXCEPT ![k].shift = TRUE]
    /\ UNCHANGED <<lookups, searched, calls, yard, appt, moves>>
-----------------------------------------------------------------------------
(* The primary action.                                                      *)

\* PrimaryAction: there is one unless the truck is gone, and it takes no tap
\* while it submits.
CanTap(s) == s.shift /\ s.phase = "truck" /\ s.card.next # None /\ s.waiting = 0

\* dispatch: a dock-in without a dock on its card throws at once.
Throws(card) == card.next = "DOCK_IN" /\ card.dock = None

\* run.
Tap(k) ==
    LET s == kiosk[k]
        key == IF s.key = 0 THEN Len(calls) + 1 ELSE s.key IN
    /\ CanTap(s) /\ Len(calls) < MaxTaps
    /\ IF Throws(s.card)
          THEN /\ kiosk' = [kiosk EXCEPT ![k].failed = TRUE]
               /\ UNCHANGED calls
          ELSE /\ kiosk' = [kiosk EXCEPT ![k].key = key, ![k].waiting = Len(calls) + 1,
                                         ![k].failed = FALSE]
               /\ calls' = Append(calls, [kiosk |-> k, card |-> s.card, key |-> key,
                                          client |-> "open", server |-> "asked", result |-> None])
    /\ UNCHANGED <<lookups, searched, yard, appt, moves>>

\* The call throws: it was lost, or its answer was, or the answer comes too late.
\* The message is TruckAction's own, if it is still the one that called.
CallFails(i) ==
    /\ calls[i].client = "open"
    /\ \E server \in {calls[i].server, IF calls[i].server = "asked" THEN "lost" ELSE calls[i].server} :
           calls' = [calls EXCEPT ![i].client = "closed", ![i].server = server]
    /\ kiosk' = IF kiosk[calls[i].kiosk].waiting = i
                THEN [kiosk EXCEPT ![calls[i].kiosk].waiting = 0, ![calls[i].kiosk].failed = TRUE]
                ELSE kiosk
    /\ UNCHANGED <<lookups, searched, yard, appt, moves>>

\* onOutcome: the outcome of the call's truck, wherever the kiosk has got to.
OutcomeLands(i) ==
    LET k == calls[i].kiosk IN
    /\ calls[i].client = "open" /\ calls[i].server = "done"
    /\ calls' = [calls EXCEPT ![i].client = "closed"]
    /\ kiosk' = [kiosk EXCEPT ![k] = [Screen("outcome", calls[i].card) EXCEPT
                                         !.shift = kiosk[k].shift, !.outcome = i]]
    /\ UNCHANGED <<lookups, searched, yard, appt, moves>>
-----------------------------------------------------------------------------
(* The tools.  Each takes the truck's row for itself until it commits.      *)

Asked(i, next) ==
    /\ calls[i].server = "asked" /\ calls[i].card.next = next
    /\ \A j \in DOMAIN calls : calls[j].server = "locked" => calls[j].card.truck # calls[i].card.truck

Answer(i, code) == calls' = [calls EXCEPT ![i].server = "done", ![i].result = code]

\* What a tool writes: the row, and the event in the audit log.
Write(t, row, events) ==
    /\ checkin' = [checkin EXCEPT ![t] = row]
    /\ log' = [log EXCEPT ![t] = @ \o events]

Refused(i, code) == Answer(i, code) /\ UNCHANGED yard

\* lookup_idempotency: the answers stored under the key.
Stored(i) == {calls[j].result : j \in {j \in DOMAIN calls :
                calls[j].key = calls[i].key /\ calls[j].server = "done"}}

\* record_gate_in; its refusals are stored under its key as its success is.
RecordGateIn(i) ==
    LET t == calls[i].card.truck  r == checkin[t] IN
    /\ Asked(i, "GATE_IN")
    /\ \/ \E code \in Stored(i) : Refused(i, code)
       \/ Stored(i) = {} /\ appt[t] = None /\ Refused(i, "NO_ACTIVE_APPOINTMENT")
       \/ Stored(i) = {} /\ appt[t] # None /\ r.gated /\ Refused(i, "ALREADY_CHECKED_IN")
       \/ /\ Stored(i) = {} /\ appt[t] # None /\ ~ r.gated
          /\ Write(t, [r EXCEPT !.gated = TRUE, !.queue = "WAITING"], <<"GATE_IN">>)
          /\ Answer(i, "GATE_IN_RECORDED") /\ UNCHANGED raced
    /\ UNCHANGED <<screens, appt, moves>>

\* update_queue_state to CALLED_TO_DOCK: only from a waiting state.
UpdateQueueState(i) ==
    LET t == calls[i].card.truck  r == checkin[t] IN
    /\ Asked(i, "CALL_TO_DOCK")
    /\ IF r.queue = "WAITING"
          THEN /\ Write(t, [r EXCEPT !.queue = "CALLED_TO_DOCK"], << >>)
               /\ Answer(i, "QUEUE_UPDATED") /\ UNCHANGED raced
          ELSE Refused(i, "INVALID_TRANSITION")
    /\ UNCHANGED <<screens, appt, moves>>

\* Physically in a dock, whichever dock the appointment has.
InDock(r, d) == r.dock = d /\ ~ r.ended /\ ~ r.out

OccupiedAsBooked(t, d) ==                \* mutant of Occupied
    \E u \in Truck \ {t} : appt[u] = d /\ checkin[u].dock # None
                           /\ ~ checkin[u].ended /\ ~ checkin[u].out

\* _live_dock_occupant: another truck that is physically in the dock.
Occupied(t, d) == \E u \in Truck \ {t} : InDock(checkin[u], d)

\* record_dock_in, first half: the truck's row is locked, and the dock looked at.
LockForDockIn(i) ==
    LET t == calls[i].card.truck IN
    /\ Asked(i, "DOCK_IN")
    /\ IF checkin[t].queue = "CALLED_TO_DOCK"
          THEN calls' = [calls EXCEPT ![i].server = "locked",
                             ![i].result = IF Occupied(t, calls[i].card.dock) THEN "occupied" ELSE "free"]
          ELSE Answer(i, "INVALID_TRANSITION")
    /\ UNCHANGED <<screens, yard, appt, moves>>

\* record_dock_in, second half: into the dock the card named, whichever the
\* appointment has by now; or back among the waiting.
CommitDockIn(i) ==
    LET t == calls[i].card.truck  d == calls[i].card.dock IN
    /\ calls[i].server = "locked"
    /\ IF calls[i].result = "occupied"
          THEN /\ Write(t, [checkin[t] EXCEPT !.queue = "WAITING"], << >>)
               /\ Answer(i, "DOCK_OCCUPIED") /\ UNCHANGED raced
          ELSE /\ Write(t, [checkin[t] EXCEPT !.queue = "IN_DOCK", !.dock = d], <<"DOCK_IN">>)
               /\ Answer(i, IF appt[t] \in {None, d} THEN "DOCK_IN_RECORDED" ELSE "DOCK_MISMATCH")
               /\ raced' = raced \cup {calls[j].card.truck : j \in {j \in DOMAIN calls \ {i} :
                                           calls[j].server = "locked"}}
    /\ UNCHANGED <<screens, appt, moves>>

CanEndAgain(r, start) ==                 \* mutant of CanUnload
    IF start THEN r.queue = "IN_DOCK" /\ ~ r.started ELSE r.started

CanUnload(r, start) ==
    IF start THEN r.queue = "IN_DOCK" /\ ~ r.started ELSE r.started /\ ~ r.ended

\* record_unload_start_end.
RecordUnload(i, start) ==
    LET t == calls[i].card.truck  r == checkin[t] IN
    /\ Asked(i, IF start THEN "START_UNLOAD" ELSE "END_UNLOAD")
    /\ IF CanUnload(r, start)
          THEN /\ IF start THEN Write(t, [r EXCEPT !.started = TRUE], <<"UNLOAD_START">>)
                  ELSE Write(t, [r EXCEPT !.ended = TRUE, !.queue = "COMPLETED"], <<"UNLOAD_END">>)
               /\ Answer(i, "RECORDED") /\ UNCHANGED raced
          ELSE Refused(i, "INVALID_TRANSITION")
    /\ UNCHANGED <<screens, appt, moves>>

\* record_gate_out, from whatever the truck was doing.
RecordGateOut(i) ==
    LET t == calls[i].card.truck  r == checkin[t] IN
    /\ Asked(i, "GATE_OUT")
    /\ IF r.out THEN Refused(i, "ALREADY_GATED_OUT")
       ELSE /\ Write(t, [r EXCEPT !.out = TRUE, !.queue = "COMPLETED"], <<"GATE_OUT">>)
            /\ Answer(i, "COMPLETED") /\ UNCHANGED raced
    /\ UNCHANGED <<screens, appt, moves>>

\* The booking core moves a truck's appointment, or cancels it.
Rebook(t) ==
    /\ moves < MaxMoves /\ moves' = moves + 1
    /\ \E d \in (Dock \cup {None}) \ {appt[t]} : appt' = [appt EXCEPT ![t] = d]
    /\ UNCHANGED <<screens, calls, yard>>

Officer(k) ==
    \/ \E matches \in SUBSET Truck \ {{}} : Search(k, matches)
    \/ \E cards \in lookups[k] : LookupLands(k, cards) \/ LookupFails(k, cards)
    \/ \E card \in kiosk[k].found : Pick(k, card)
    \/ BackToSearch(k) \/ EndShift(k) \/ StartShift(k) \/ Tap(k)

Tool(i) ==
    \/ RecordGateIn(i) \/ UpdateQueueState(i)
    \/ LockForDockIn(i) \/ CommitDockIn(i)
    \/ (\E start \in BOOLEAN : RecordUnload(i, start)) \/ RecordGateOut(i)

Next ==
    \/ \E k \in Kiosk : Officer(k)
    \/ \E i \in DOMAIN calls : CallFails(i) \/ OutcomeLands(i) \/ Tool(i)
    \/ \E t \in Truck : Rebook(t)

Spec == Init /\ [][Next]_vars
-----------------------------------------------------------------------------
\* A truck's visit is recorded step by step, each step once and in order, though
\* kiosks act on cards that are out of date and calls are repeated: a truck that
\* is gated out has been unloaded.
StepsOnceInOrder == \A t \in Truck : IsPrefix(log[t], Steps)

\* Two trucks are in one dock only if the later was let in while the earlier's
\* dock-in had looked at the dock and not committed: what the check without a
\* lock on the dock leaves open, and nothing more.
DockSharedOnlyInARace ==
    \A t, u \in Truck : \A d \in Dock :
        t # u /\ InDock(checkin[t], d) /\ InDock(checkin[u], d) => {t, u} \cap raced # {}

\* The outcomes that say that something is on record.
Recorded == [GATE_IN_RECORDED |-> "GATE_IN", ALREADY_CHECKED_IN |-> "GATE_IN",
             DOCK_IN_RECORDED |-> "DOCK_IN", DOCK_MISMATCH |-> "DOCK_IN",
             COMPLETED |-> "GATE_OUT", ALREADY_GATED_OUT |-> "GATE_OUT"]

\* A kiosk that submits waits for an open call of its own; the retries under one
\* key are of one truck and one action; and an outcome that says a step was, or
\* had been, recorded is of a truck whose log has it.
KioskIsTrue ==
    /\ \A k \in Kiosk : kiosk[k].waiting # 0 =>
           calls[kiosk[k].waiting].client = "open" /\ calls[kiosk[k].waiting].kiosk = k
    /\ \A i, j \in DOMAIN calls : calls[i].key = calls[j].key =>
           calls[i].card.truck = calls[j].card.truck /\ calls[i].card.next = calls[j].card.next
    /\ \A k \in Kiosk : kiosk[k].outcome # 0 =>
           LET result == calls[kiosk[k].outcome].result IN
           result \in DOMAIN Recorded =>
               \E n \in DOMAIN log[kiosk[k].card.truck] : log[kiosk[k].card.truck][n] = Recorded[result]
=============================================================================
