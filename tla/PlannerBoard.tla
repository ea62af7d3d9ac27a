---------------------------- MODULE PlannerBoard ----------------------------
(***************************************************************************)
(* The Board tab of the planner's console: the board read, the dialog that *)
(* blocks a dock, the list that ends blocks, and the proposals of the      *)
(* sequencer, requested and applied.  Against it the server's dock blocks  *)
(* (planner_service) and scheduling runs (sequencer), and other planners.  *)
(***************************************************************************)
EXTENDS Naturals, Sequences, FiniteSets, BoardLayout

CONSTANTS
    Deleted,        \* a row that was deleted
    Block,          \* dock_status_events ids
    Window,         \* what can be blocked or booked: a dock, a start and an end
    Slot,           \* feasible options for a counter-offer, windows as well
    Dock,           \* the docks of the facility; an option may name another
    Horizon, Hour,  \* the length of the board, and of its ticks
    MaxNow,         \* bound: the clock
    Run,            \* scheduling_run_ids
    Digest,         \* snapshot_hash: the state of the capacity a run looks at
    None,           \* null
    MaxMoves,       \* bound: what others do, and re-reads of the planner
    MaxPresses      \* bound: writes the planner makes

ASSUME BoardAssumption ==
    /\ None \notin Block \cup Window \cup Run \cup Digest
    /\ \A w \in Window \cup Slot : w.start \in Nat /\ w.end \in Nat /\ w.start < w.end
    /\ \A gone \in {None, Deleted} :
           gone \notin [dock : {w.dock : w \in Window}, start : Nat, end : Nat, mine : BOOLEAN]
    /\ Deleted # None /\ IsFiniteSet(Slot)
    /\ Horizon \in Nat \ {0} /\ Hour \in Nat \ {0} /\ MaxNow \in Nat
    /\ MaxMoves \in Nat /\ MaxPresses \in Nat

VARIABLES
    now,
    block,          \* dock_status_events; a row that is not there is None
    booked,         \* the windows with active appointments in them
    run,            \* scheduling_runs
    capacity,       \* the digest now
    stored,         \* idempotency_requests
    moves,
    task,           \* what the planner is at the board for
    board,          \* the panel's read and what it shows
    ending,         \* ActiveBlocks: the confirmation open, the write under way
    dialog,         \* BlockDockDialog
    impacts,        \* its impact reads under way
    runs,           \* the console's pending runs, review and request state
    overlay,        \* ProposalOverlay
    picker,         \* the board's counter-offer: options read, interval chosen
    writes,         \* requests under way
    presses,
    told            \* history: the blocks he was told are set, and are ended

server == <<now, block, booked, run, capacity, stored>>
client == <<board, ending, dialog, impacts, runs, overlay, picker, presses, told>>
vars == <<server, moves, task, writes, client>>
-----------------------------------------------------------------------------
(* Data.                                                                    *)

Stands(b) == block[b] \notin {None, Deleted}

\* mine: history, the planner of this console set it.
Event(at, mine) == [dock |-> at.dock, start |-> at.start, end |-> at.end, mine |-> mine]
Overlap(v, w) == v.dock = w.dock /\ v.start < w.end /\ w.start < v.end
BlockedAt(at) == \E b \in Block : Stands(b) /\ Overlap(block[b], at)
New == {b \in Block : block[b] = None}

ApplyCode == {"APPLIED", "ALREADY_APPLIED", "RUN_NOT_ACTIVE", "SNAPSHOT_DRIFT",
              "PARTIALLY_INFEASIBLE"}
Refusal == {"SNAPSHOT_DRIFT", "PARTIALLY_INFEASIBLE"}

ASSUME NullAssumption ==    \* null is no answer of the server's, nor a notice
    None \notin ApplyCode \cup {"AppliedNotice", "SnapshotDrift", "PartiallyInfeasible"}

NoRead == [stage |-> "none", answer |-> None]
Asked == [stage |-> "sent", answer |-> None]

others == <<server, moves, task>>
Becomes(w, v) == writes' = (writes \ {w}) \cup {v}
Gone(w) == writes' = writes \ {w}
-----------------------------------------------------------------------------
(* What happens meanwhile.                                                  *)

Meanwhile == moves < MaxMoves /\ moves' = moves + 1 /\ UNCHANGED <<task, stored, writes, client>>

Tick ==
    /\ now < MaxNow /\ now' = now + 1
    /\ UNCHANGED <<block, booked, run, capacity, stored, moves, task, writes, client>>

OthersBlock(b, at) ==
    /\ task = "blocks" /\ b \in New /\ ~ BlockedAt(at)
    /\ block' = [block EXCEPT ![b] = Event(at, FALSE)]
    /\ Meanwhile /\ UNCHANGED <<now, booked, run, capacity>>

\* end_dock_block: a block that has begun ends now, one that has not is deleted.
Over(b) == block[b].end <= now
Ended(b) ==
    IF now > block[b].start THEN [block EXCEPT ![b].end = now]
    ELSE [block EXCEPT ![b] = Deleted]

OthersEnd(b) ==
    /\ Stands(b) /\ ~ Over(b)
    /\ block' = Ended(b)
    /\ Meanwhile /\ UNCHANGED <<now, booked, run, capacity>>

BookingMoves(at) ==
    /\ task = "blocks"
    /\ booked' = IF at \in booked THEN booked \ {at} ELSE booked \cup {at}
    /\ Meanwhile /\ UNCHANGED <<now, block, run, capacity>>

CapacityMoves ==
    /\ task = "runs"
    /\ capacity' \in Digest \ {capacity}
    /\ Meanwhile /\ UNCHANGED <<now, block, booked, run>>

Active(r) == run[r].status = "PROPOSED"

\* The ops console's hand-off, another planner's request.
OthersPropose(r) ==
    /\ task = "runs" /\ run[r].status = "none" /\ ~ \E s \in Run : Active(s)
    /\ run' = [run EXCEPT ![r] = [status |-> "PROPOSED", hash |-> capacity]]
    /\ Meanwhile /\ UNCHANGED <<now, block, booked, capacity>>

\* Another planner's apply: done, or refused and the run retired.
OthersApply(r) ==
    /\ Active(r)
    /\ \/ /\ run[r].hash = capacity
          /\ run' = [run EXCEPT ![r].status = "APPLIED"]
          /\ capacity' \in Digest \ {capacity}
       \/ /\ run' = [run EXCEPT ![r].status = "SUPERSEDED"]
          /\ UNCHANGED capacity
    /\ Meanwhile /\ UNCHANGED <<now, block, booked>>
-----------------------------------------------------------------------------
(* The server's side of the planner's writes.                               *)

aside == <<moves, task, client>>

\* block_dock: nothing is locked, so other transactions come between the
\* check for an overlapping block and the insert.
BlockChecks(w) ==
    /\ w.kind = "block" /\ w.stage = "sent"
    /\ IF BlockedAt(w.at)
       THEN Becomes(w, [w EXCEPT !.stage = "answered", !.code = "ALREADY_BLOCKED"])
       ELSE Becomes(w, [w EXCEPT !.stage = "checked"])
    /\ UNCHANGED <<server, aside>>

BlockInserts(w) ==
    /\ w.kind = "block" /\ w.stage = "checked"
    /\ \E b \in New :
          /\ block' = [block EXCEPT ![b] = Event(w.at, TRUE)]
          /\ Becomes(w, [w EXCEPT !.stage = "answered", !.code = "BLOCKED", !.id = b])
    /\ UNCHANGED <<now, booked, run, capacity, stored, aside>>

\* FOR UPDATE OF e; a deleted event is a 404.
EndDockBlock(w) ==
    /\ w.kind = "end" /\ w.stage = "sent"
    /\ CASE block[w.id] = Deleted ->
               UNCHANGED block /\ Becomes(w, [w EXCEPT !.stage = "failed"])
         [] Stands(w.id) /\ Over(w.id) ->
               /\ UNCHANGED block
               /\ Becomes(w, [w EXCEPT !.stage = "answered", !.code = "NOT_BLOCKED"])
         [] OTHER ->
               /\ block' = Ended(w.id)
               /\ Becomes(w, [w EXCEPT !.stage = "answered", !.code = "UNBLOCKED"])
    /\ UNCHANGED <<now, booked, run, capacity, stored, aside>>

\* A run whose horizon has passed is retired first; whether it has is free.
\* Then one PROPOSED run per facility (a partial unique index).
ProposeFacilitySchedule(w) ==
    /\ w.kind = "propose" /\ w.stage = "sent"
    /\ \E late \in SUBSET {r \in Run : Active(r)} :
          LET kept == [r \in Run |-> IF r \in late THEN [run[r] EXCEPT !.status = "SUPERSEDED"]
                                     ELSE run[r]]
              active == {r \in Run : kept[r].status = "PROPOSED"}
          IN  \/ \E r \in active :
                    /\ run' = kept
                    /\ Becomes(w, [w EXCEPT !.stage = "answered", !.id = r,
                                            !.code = "RUN_ALREADY_ACTIVE"])
              \/ \E r \in Run :
                    /\ active = {} /\ kept[r].status = "none"
                    /\ run' = [kept EXCEPT ![r] = [status |-> "PROPOSED", hash |-> capacity]]
                    /\ Becomes(w, [w EXCEPT !.stage = "answered", !.id = r, !.code = "PROPOSED"])
    /\ UNCHANGED <<now, block, booked, capacity, stored, aside>>

\* _refuse: everything rolled back, the run retired, the refusal stored.
RefuseWithoutRetiring(w, code) ==       \* mutant of Refuse
    /\ UNCHANGED <<run, capacity>>
    /\ stored' = [k \in DOMAIN stored \cup {w.key} |->
                     IF k = w.key THEN [id |-> w.id, code |-> code] ELSE stored[k]]

Refuse(w, code) ==
    /\ run' = [run EXCEPT ![w.id].status = "SUPERSEDED"]
    /\ stored' = [k \in DOMAIN stored \cup {w.key} |->
                     IF k = w.key THEN [id |-> w.id, code |-> code] ELSE stored[k]]
    /\ UNCHANGED capacity

Commit(w) ==
    /\ run' = [run EXCEPT ![w.id].status = "APPLIED"]
    /\ stored' = [k \in DOMAIN stored \cup {w.key} |->
                     IF k = w.key THEN [id |-> w.id, code |-> "APPLIED"] ELSE stored[k]]
    /\ capacity' \in Digest \ {capacity}

DriftedLate(w) == w.hash # run[w.id].hash       \* mutant of Drifted
Drifted(w) == w.hash # run[w.id].hash \/ capacity # run[w.id].hash

\* A key of another run is refused; a known key is answered as it was.
ApplyScheduleProposal(w) ==
    /\ w.kind = "apply" /\ w.stage = "sent"
    /\ IF w.key \in DOMAIN stored
       THEN /\ UNCHANGED <<run, capacity, stored>>
            /\ Becomes(w, IF stored[w.key].id # w.id THEN [w EXCEPT !.stage = "failed"]
                          ELSE [w EXCEPT !.stage = "answered", !.code = stored[w.key].code])
       ELSE \E code \in ApplyCode :
               /\ Becomes(w, [w EXCEPT !.stage = "answered", !.code = code])
               /\ CASE ~ Active(w.id) ->
                         /\ code = IF run[w.id].status = "APPLIED" THEN "ALREADY_APPLIED"
                                   ELSE "RUN_NOT_ACTIVE"
                         /\ UNCHANGED <<run, capacity, stored>>
                    [] Active(w.id) /\ Drifted(w) -> code = "SNAPSHOT_DRIFT" /\ Refuse(w, code)
                    [] OTHER -> \/ code = "APPLIED" /\ Commit(w)
                                \/ code = "PARTIALLY_INFEASIBLE" /\ Refuse(w, code)
    /\ UNCHANGED <<now, block, booked, aside>>

\* The request never reaches the server, or its answer never comes back.
LoseWrite(w) ==
    /\ w.stage \in {"sent", "answered"}
    /\ Becomes(w, [w EXCEPT !.stage = "failed"])
    /\ UNCHANGED <<server, aside>>
-----------------------------------------------------------------------------
(* The board.                                                               *)

\* get_dock_board: from now on.
BoardRead ==
    LET window == [start |-> now, end |-> now + Horizon]
        inside(w) == w.start < window.end /\ w.end > window.start
    IN  [horizon |-> window,
         blocks |-> {[id |-> b, dock |-> block[b].dock, start |-> block[b].start,
                      end |-> block[b].end] : b \in {c \in Block : Stands(c) /\ inside(block[c])}},
         bars |-> {[dock |-> w.dock, start |-> w.start, end |-> w.end, state |-> "CONFIRMED"] :
                      w \in {v \in booked : inside(v)}}]

RereadKeepingOld == board' = [board EXCEPT !.failed = FALSE]       \* mutant of Reread

\* retry, externalReloadToken: a read leaves and any older one is ignored.
Reread == board' = [board EXCEPT !.read = Asked, !.failed = FALSE]

BoardAnswers ==
    /\ board.read.stage = "sent"
    /\ board' = [board EXCEPT !.read = [stage |-> "answered", answer |-> BoardRead]]
    /\ UNCHANGED <<others, ending, dialog, impacts, runs, overlay, picker, writes, presses, told>>

BoardLands ==
    /\ board.read.stage = "answered"
    /\ board' = [board EXCEPT !.shown = board.read.answer, !.read = NoRead]
    /\ UNCHANGED <<others, ending, dialog, impacts, runs, overlay, picker, writes, presses, told>>

BoardFails ==
    /\ board.read.stage = "sent"
    /\ board' = [board EXCEPT !.read = NoRead, !.failed = TRUE]
    /\ UNCHANGED <<others, ending, dialog, impacts, runs, overlay, picker, writes, presses, told>>

\* Retry on the region error.
Retry ==
    /\ board.failed /\ Reread
    /\ moves < MaxMoves /\ moves' = moves + 1
    /\ UNCHANGED <<server, task, ending, dialog, impacts, runs, overlay, picker, writes, presses, told>>

Shown(b) == ~ board.failed /\ board.shown # None /\ b \in {e.id : e \in board.shown.blocks}
AtBoard == ~ dialog.open /\ runs.reviewing = None
Endable(b) == AtBoard /\ ~ picker.on /\ Shown(b)
Press == presses < MaxPresses /\ presses' = presses + 1

ToggleEnd(b) ==
    /\ Endable(b)
    /\ ending' = [ending EXCEPT !.confirming = IF @ = b THEN None ELSE b]
    /\ UNCHANGED <<others, board, dialog, impacts, runs, overlay, picker, writes, presses, told>>

End(b) ==
    /\ Endable(b) /\ ending.confirming = b /\ ending.busy = None
    /\ Press
    /\ ending' = [ending EXCEPT !.busy = b]
    /\ writes' = writes \cup {[kind |-> "end", id |-> b, stage |-> "sent", code |-> None]}
    /\ UNCHANGED <<others, board, dialog, impacts, runs, overlay, picker, told>>

EndLands(w) ==
    /\ w.kind = "end" /\ w.stage \in {"answered", "failed"}
    /\ Gone(w)
    /\ IF w.stage = "failed"
       THEN ending' = [ending EXCEPT !.busy = None] /\ UNCHANGED <<board, told>>
       ELSE /\ ending' = [confirming |-> None, busy |-> None]
            /\ Reread
            /\ told' = [told EXCEPT !.ended = @ \cup {w.id}]
    /\ UNCHANGED <<others, dialog, impacts, runs, overlay, picker, presses>>
-----------------------------------------------------------------------------
(* The dialog.                                                              *)

ClosedDialog == [open |-> FALSE, at |-> None, timer |-> FALSE, check |-> "idle",
                 checked |-> FALSE, impact |-> None, submitting |-> FALSE, alert |-> None]

still == <<others, board, ending, runs, overlay, picker, told>>

OpenDialog ==
    /\ task = "blocks" /\ AtBoard
    /\ dialog' = [ClosedDialog EXCEPT !.open = TRUE]
    /\ UNCHANGED <<still, impacts, writes, presses>>

\* Cancel, Escape; Cancel works while a submit is under way.
CloseDialog ==
    /\ dialog.open
    /\ dialog' = [dialog EXCEPT !.open = FALSE]
    /\ UNCHANGED <<still, impacts, writes, presses>>

\* The effect on the fields: not checked any more, and a check in 350 ms.
EditFields(at) ==
    /\ dialog.open /\ at # dialog.at
    /\ moves < MaxMoves /\ moves' = moves + 1
    /\ dialog' = IF at = None
                 THEN [dialog EXCEPT !.at = None, !.checked = FALSE, !.timer = FALSE,
                                     !.check = "idle", !.impact = None]
                 ELSE [dialog EXCEPT !.at = at, !.checked = FALSE, !.timer = TRUE,
                                     !.check = "checking"]
    /\ UNCHANGED <<server, task, board, ending, runs, overlay, picker, told, impacts, writes,
                   presses>>

ImpactTimer ==
    /\ dialog.timer
    /\ dialog' = [dialog EXCEPT !.timer = FALSE]
    /\ impacts' = impacts \cup {[at |-> dialog.at, stage |-> "sent", affected |-> {}]}
    /\ UNCHANGED <<still, writes, presses>>

ImpactAnswers(q) ==
    /\ q.stage = "sent"
    /\ impacts' = (impacts \ {q}) \cup
                      {[q EXCEPT !.stage = "answered",
                                 !.affected = {w \in booked : Overlap(w, q.at)}]}
    /\ UNCHANGED <<still, dialog, writes, presses>>

\* Clearing the timer does not recall a read that has left: its answer lands
\* whatever the fields are by now.
ImpactLands(q) ==
    /\ q.stage = "answered"
    /\ impacts' = impacts \ {q}
    /\ dialog' = [dialog EXCEPT !.impact = q, !.check = "checked", !.checked = TRUE]
    /\ UNCHANGED <<still, writes, presses>>

ImpactFails(q) ==
    /\ impacts' = impacts \ {q}
    /\ dialog' = [dialog EXCEPT !.check = "error"]
    /\ UNCHANGED <<still, writes, presses>>

SubmitDisabled == dialog.at = None \/ ~ dialog.checked \/ dialog.submitting

\* blockDock mints a key for every call.
HandleSubmit ==
    /\ dialog.open /\ ~ SubmitDisabled
    /\ Press
    /\ dialog' = [dialog EXCEPT !.submitting = TRUE, !.alert = None]
    /\ writes' = writes \cup {[kind |-> "block", at |-> dialog.at, stage |-> "sent",
                               code |-> None, id |-> None, press |-> presses + 1]}
    /\ UNCHANGED <<still, impacts>>

BlockLands(w) ==
    /\ w.kind = "block" /\ w.stage \in {"answered", "failed"}
    /\ Gone(w)
    /\ IF w.code = "BLOCKED" /\ w.stage = "answered"
       THEN /\ dialog' = [dialog EXCEPT !.open = FALSE, !.submitting = FALSE]
            /\ Reread
            /\ told' = [told EXCEPT !.blocked = @ \cup {w.id}]
       ELSE /\ dialog' = [dialog EXCEPT !.submitting = FALSE, !.alert =
                             IF w.stage = "failed" THEN "Nothing has changed"
                             ELSE "ALREADY_BLOCKED"]
            /\ UNCHANGED <<board, told>>
    /\ UNCHANGED <<others, ending, runs, overlay, picker, impacts, presses>>
-----------------------------------------------------------------------------
(* Proposals.                                                               *)

NoOverlay == [load |-> NoRead, run |-> None, status |-> None, outcome |-> None,
              board |-> None, about |-> None, applying |-> FALSE, key |-> None]

rest == <<others, ending, dialog, impacts, picker, told>>

\* refreshPendingRuns, once: the list of pending runs, newest first.
ListAnswers ==
    /\ runs.list.stage = "sent"
    /\ runs' = [runs EXCEPT !.list = [stage |-> "answered", answer |-> {r \in Run : Active(r)}]]
    /\ UNCHANGED <<rest, board, overlay, writes, presses>>

Listed(active) == IF active = {} THEN <<>> ELSE <<CHOOSE r \in active : TRUE>>

ListLands ==
    /\ runs.list.stage = "answered"
    /\ runs' = [runs EXCEPT !.pending = Listed(runs.list.answer), !.list = NoRead]
    /\ UNCHANGED <<rest, board, overlay, writes, presses>>

ListFails ==
    /\ runs.list.stage = "sent"
    /\ runs' = [runs EXCEPT !.list = NoRead]
    /\ UNCHANGED <<rest, board, overlay, writes, presses>>

Without(r) == SelectSeq(runs.pending, LAMBDA q : q # r)

\* setReviewingRunId: an overlay that is mounted keeps its outcome and its key.
Review(rs, r) ==
    /\ runs' = [rs EXCEPT !.reviewing = r]
    /\ overlay' = IF rs.reviewing = None THEN [NoOverlay EXCEPT !.load = Asked]
                  ELSE IF rs.reviewing = r THEN overlay
                  ELSE [overlay EXCEPT !.load = Asked, !.run = None, !.status = None,
                                            !.board = None]

Requesting(rs) == [rs EXCEPT !.proposing = TRUE, !.already = FALSE]
ProposeCall == [kind |-> "propose", stage |-> "sent", code |-> None, id |-> None]

OnRequestResequence ==
    /\ task = "runs" /\ AtBoard
    /\ ~ runs.already /\ ~ runs.proposing
    /\ Press
    /\ runs' = Requesting(runs)
    /\ writes' = writes \cup {ProposeCall}
    /\ UNCHANGED <<rest, board, overlay>>

ProposeLands(w) ==
    /\ w.kind = "propose" /\ w.stage \in {"answered", "failed"}
    /\ Gone(w)
    /\ LET quiet == [runs EXCEPT !.proposing = FALSE]
       IN  CASE w.stage = "failed" -> runs' = quiet /\ UNCHANGED overlay
             [] w.stage = "answered" /\ w.code = "RUN_ALREADY_ACTIVE" ->
                  /\ runs' = [quiet EXCEPT !.already = TRUE, !.active = w.id]
                  /\ UNCHANGED overlay
             [] OTHER -> Review([quiet EXCEPT !.pending = <<w.id>> \o @], w.id)
    /\ UNCHANGED <<rest, board, presses>>

ReviewNewest ==
    /\ AtBoard /\ runs.pending # <<>>
    /\ Review(runs, Head(runs.pending))
    /\ UNCHANGED <<rest, board, writes, presses>>

ReviewActive ==
    /\ AtBoard /\ runs.already /\ runs.active # None
    /\ Review(runs, runs.active)
    /\ UNCHANGED <<rest, board, writes, presses>>

OverlayAnswers ==
    /\ overlay.load.stage = "sent" /\ runs.reviewing \in Run
    /\ overlay' = [overlay EXCEPT !.load =
                     [stage |-> "answered",
                      answer |-> [status |-> run[runs.reviewing].status, board |-> BoardRead]]]
    /\ UNCHANGED <<rest, board, runs, writes, presses>>

OverlayLands ==
    /\ overlay.load.stage = "answered"
    /\ overlay' = [overlay EXCEPT !.load = NoRead, !.run = runs.reviewing,
                                  !.status = overlay.load.answer.status,
                                  !.board = overlay.load.answer.board]
    /\ UNCHANGED <<rest, board, runs, writes, presses>>

OverlayFails ==
    /\ overlay.load.stage = "sent"
    /\ overlay' = [overlay EXCEPT !.load = NoRead]
    /\ UNCHANGED <<rest, board, runs, writes, presses>>

CloseOverlay ==
    /\ runs.reviewing # None
    /\ runs' = [runs EXCEPT !.reviewing = None]
    /\ overlay' = NoOverlay
    /\ UNCHANGED <<rest, board, writes, presses>>

\* ApplyBar: until there is an outcome, and for a run that was still proposed.
Applicable ==
    /\ overlay.run # None /\ overlay.outcome = None
    /\ overlay.status = "PROPOSED" /\ ~ overlay.applying

\* One key per intent: kept until the run was applied.
OnApply ==
    /\ Applicable
    /\ Press
    /\ LET key == IF overlay.key = None THEN presses + 1 ELSE overlay.key
       IN  /\ overlay' = [overlay EXCEPT !.key = key, !.applying = TRUE]
           /\ writes' = writes \cup
                  {[kind |-> "apply", id |-> overlay.run, hash |-> run[overlay.run].hash,
                    key |-> key, stage |-> "sent", code |-> None]}
    /\ UNCHANGED <<rest, board, runs>>

\* The overlay may be closed by now, or show another run.
ApplyLands(w) ==
    /\ w.kind = "apply" /\ w.stage \in {"answered", "failed"}
    /\ Gone(w)
    /\ overlay' = IF runs.reviewing = None THEN overlay
                  ELSE IF w.stage = "failed" THEN [overlay EXCEPT !.applying = FALSE]
                  ELSE [overlay EXCEPT !.applying = FALSE, !.outcome = w.code, !.about = w.id,
                                       !.key = IF w.code = "APPLIED" THEN None ELSE @]
    /\ IF w.stage = "answered" /\ w.code = "APPLIED"
       THEN /\ runs' = [runs EXCEPT !.pending = Without(w.id),
                                    !.active = None, !.already = FALSE]
            /\ Reread
       ELSE UNCHANGED <<runs, board>>
    /\ UNCHANGED <<rest, presses>>

\* What stands in the place of the buttons once there is an outcome.
Notice ==
    IF overlay.run = None \/ overlay.outcome = None THEN None
    ELSE CASE overlay.outcome = "APPLIED" -> "AppliedNotice"
           [] overlay.outcome = "SNAPSHOT_DRIFT" -> "SnapshotDrift"
           [] OTHER -> "PartiallyInfeasible"

\* Closes the review, drops the drifted run, and asks again unless a request
\* is under way.
OnRequestFresh ==
    /\ runs.reviewing # None /\ Notice = "SnapshotDrift"
    /\ LET closed == [runs EXCEPT !.reviewing = None,
                                  !.pending = Without(runs.reviewing)]
       IN  IF runs.proposing THEN runs' = closed /\ UNCHANGED <<writes, presses>>
           ELSE /\ Press
                /\ runs' = Requesting(closed)
                /\ writes' = writes \cup {ProposeCall}
    /\ overlay' = NoOverlay
    /\ UNCHANGED <<rest, board>>
-----------------------------------------------------------------------------
(* The picker of a counter-offer, up to the press (the write and the queue  *)
(* it belongs to are in PlannerQueue).                                      *)

apart == <<server, task, ending, dialog, impacts, runs, overlay, writes, presses, told>>

\* The effect on the shipment and on optionsToken: a read leaves and any older
\* one is ignored; what was chosen and what was said of it go.
Picking == [on |-> TRUE, read |-> Asked, options |-> None, chosen |-> None]

StartPicking ==
    /\ task = "picking" /\ ~ picker.on
    /\ moves < MaxMoves /\ moves' = moves + 1
    /\ picker' = Picking
    /\ UNCHANGED <<apart, board>>

StopPicking ==
    /\ picker.on
    /\ picker' = [on |-> FALSE, read |-> NoRead, options |-> None, chosen |-> None]
    /\ UNCHANGED <<apart, moves, board>>

\* The feasibility scan is of its own time and knows every dock.
OptionsAnswer ==
    /\ picker.read.stage = "sent"
    /\ \E S \in SUBSET {o \in Slot : o.start >= now} :
          picker' = [picker EXCEPT !.read = [stage |-> "answered", answer |-> S]]
    /\ UNCHANGED <<apart, moves, board>>

OptionsLand ==
    /\ picker.read.stage = "answered"
    /\ picker' = [picker EXCEPT !.options = picker.read.answer, !.read = NoRead]
    /\ UNCHANGED <<apart, moves, board>>

OptionsFail ==
    /\ picker.read.stage = "sent"
    /\ picker' = [picker EXCEPT !.options = {}, !.read = NoRead]
    /\ UNCHANGED <<apart, moves, board>>

\* The lanes of the board, and in each the intervals offered on it.
Offered ==
    UNION {PickableIntervals(ByDock(picker.options, d), board.shown.horizon) : d \in Dock}

BoardVisible == ~ board.failed /\ board.shown # None

PickInterval(o) ==
    /\ picker.on /\ BoardVisible /\ picker.options # None /\ o \in Offered
    /\ picker' = [picker EXCEPT !.chosen = o]
    /\ UNCHANGED <<apart, moves, board>>

\* The interval was taken meanwhile: the options and the board are read again.
IntervalUnavailable ==
    /\ picker.chosen # None
    /\ moves < MaxMoves /\ moves' = moves + 1
    /\ picker' = Picking
    /\ Reread
    /\ UNCHANGED apart
-----------------------------------------------------------------------------
Init ==
    /\ now = 0
    /\ block = [b \in Block |-> None]
    /\ booked = {}
    /\ run = [r \in Run |-> [status |-> "none", hash |-> None]]
    /\ capacity \in Digest
    /\ stored = [k \in {} |-> None]
    /\ moves = 0 /\ presses = 0
    /\ task \in {"blocks", "runs", "picking"}
    /\ board = [read |-> Asked, shown |-> None, failed |-> FALSE]
    /\ ending = [confirming |-> None, busy |-> None]
    /\ dialog = ClosedDialog /\ impacts = {}
    /\ runs = [pending |-> <<>>, reviewing |-> None, proposing |-> FALSE, active |-> None,
               already |-> FALSE, list |-> IF task = "runs" THEN Asked ELSE NoRead]
    /\ overlay = NoOverlay
    /\ picker = [on |-> FALSE, read |-> NoRead, options |-> None, chosen |-> None]
    /\ writes = {}
    /\ told = [blocked |-> {}, ended |-> {}]

OthersStep ==
    \/ \E b \in Block : OthersEnd(b) \/ \E at \in Window : OthersBlock(b, at)
    \/ \E at \in Window : BookingMoves(at)
    \/ CapacityMoves \/ Tick
    \/ \E r \in Run : OthersPropose(r) \/ OthersApply(r)

WriteStep ==
    \E w \in writes :
        \/ BlockChecks(w) \/ BlockInserts(w) \/ EndDockBlock(w)
        \/ ProposeFacilitySchedule(w) \/ ApplyScheduleProposal(w) \/ LoseWrite(w)
        \/ EndLands(w) \/ BlockLands(w) \/ ProposeLands(w) \/ ApplyLands(w)

BoardStep ==
    \/ BoardAnswers \/ BoardLands \/ BoardFails \/ Retry
    \/ \E b \in Block : ToggleEnd(b) \/ End(b)

DialogStep ==
    \/ OpenDialog \/ CloseDialog \/ HandleSubmit \/ ImpactTimer
    \/ \E at \in Window \cup {None} : EditFields(at)
    \/ \E q \in impacts : ImpactAnswers(q) \/ ImpactLands(q) \/ ImpactFails(q)

ProposalStep ==
    \/ ListAnswers \/ ListLands \/ ListFails
    \/ OnRequestResequence \/ ReviewNewest \/ ReviewActive
    \/ OverlayAnswers \/ OverlayLands \/ OverlayFails \/ CloseOverlay
    \/ OnApply \/ OnRequestFresh

PickerStep ==
    \/ StartPicking \/ StopPicking \/ OptionsAnswer \/ OptionsLand \/ OptionsFail
    \/ \E o \in Slot : PickInterval(o)
    \/ IntervalUnavailable

Next == OthersStep \/ WriteStep \/ BoardStep \/ DialogStep \/ ProposalStep \/ PickerStep

Spec == Init /\ [][Next]_vars
-----------------------------------------------------------------------------
\* What the planner was told he blocked or unblocked, the board shows as soon
\* as no read is under way: the newest read wins, and it left after the write.
BoardTellsOwnDecisions ==
    (BoardVisible /\ board.read = NoRead)
    => /\ \A b \in told.ended : ~ Shown(b)
       /\ \A b \in told.blocked :
             (Stands(b) /\ ~ Over(b) /\ block[b].start < board.shown.horizon.end)
             => Shown(b)

\* Each feasible option can be clicked on a lane or is counted as one that
\* cannot, though the options and the board are two reads of different times;
\* and whatever a board draws, the panel's or the review's, stays on its track:
\* what reaches over the horizon is clipped to it, and nothing has a negative
\* width.  A proposal may place anything at all.
EveryOptionDrawnOrCounted ==
    LET onTrack(shown, proposal, options) ==
            \A place \in Board(shown, Dock, now, Hour, proposal, options) :
                place.width >= 0 /\ place.left + place.width <= Horizon
    IN  /\ (picker.options # None /\ BoardVisible)
              => Cardinality(Offered) + CountOutOfHorizon(picker.options, Dock, board.shown.horizon)
                    = Cardinality(picker.options)
        /\ BoardVisible =>
              onTrack(board.shown, {}, IF picker.options = None THEN {} ELSE picker.options)
        /\ overlay.board # None => onTrack(overlay.board, Window, {})

\* What the review says of the run it is about, the server has done: applied
\* in full, or retired, so that a fresh proposal can be asked for.
OutcomeIsTrue ==
    /\ Notice = "AppliedNotice" \/ overlay.outcome = "ALREADY_APPLIED"
          => run[overlay.about].status = "APPLIED"
    /\ Notice = "SnapshotDrift" => run[overlay.about].status = "SUPERSEDED"
    /\ overlay.outcome \in Refusal \cup {"RUN_NOT_ACTIVE"}
          => run[overlay.about].status = "SUPERSEDED"

\* A proposal is applied once, from a review of it, and only while the capacity
\* is what it was computed against.
AppliedAsReviewed ==
    [][\A r \in Run :
          /\ run[r].status = "APPLIED" => run'[r] = run[r]
          /\ (run[r].status # "APPLIED" /\ run'[r].status = "APPLIED")
                => Active(r) /\ capacity = run[r].hash]_vars
=============================================================================
