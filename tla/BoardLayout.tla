----------------------------- MODULE BoardLayout -----------------------------
(***************************************************************************)
(* Where the dock board draws things (features/planner/lib/board.ts and    *)
(* the lanes of dock-board.tsx).  Instants are naturals; a place on the    *)
(* track is a position and a width in the units of the horizon.            *)
(***************************************************************************)
EXTENDS Naturals, FiniteSets

CONSTANTS NoEnd,        \* event_end_ts is null
          Nowhere       \* null: off the track

Earlier(a, b) == IF a < b THEN a ELSE b
Later(a, b) == IF a < b THEN b ELSE a

\* An interval clipped to the horizon; one without an end goes to its end.
PlaceOnTrack(start, end, horizon) ==
    LET upTo == IF end = NoEnd THEN horizon.end ELSE end
        from == Later(start, horizon.start)
    IN  IF horizon.end <= horizon.start \/ upTo <= horizon.start \/ start >= horizon.end
        THEN Nowhere
        ELSE [left |-> from - horizon.start, width |-> Earlier(upTo, horizon.end) - from]

Placed(item, horizon) == PlaceOnTrack(item.start, item.end, horizon)

\* The states the board has a treatment for.
BarTreatment == {"HELD", "PENDING_CONFIRMATION", "CONFIRMED", "IN_PROGRESS"}

ByDock(items, dock) == {i \in items : i.dock = dock}
OnTrack(items, horizon) == {i \in items : Placed(i, horizon) # Nowhere}

Bars(items, horizon) == {b \in OnTrack(items, horizon) : b.state \in BarTreatment}
BlockMarkers(items, horizon) == OnTrack(items, horizon)
ProposalDeltaBars(items, horizon) == OnTrack(items, horizon)
PickableIntervals(items, horizon) == OnTrack(items, horizon)

\* What a lane draws, from the bottom up.
Lane(dock, board, proposal, options) ==
    LET drawn == Bars(ByDock(board.bars, dock), board.horizon)
                     \cup BlockMarkers(ByDock(board.blocks, dock), board.horizon)
                     \cup ProposalDeltaBars(ByDock(proposal, dock), board.horizon)
                     \cup PickableIntervals(ByDock(options, dock), board.horizon)
    IN  {Placed(i, board.horizon) : i \in drawn}

\* The whole hours of the horizon, a day's worth at most.
HourTicks(horizon, hour) ==
    {t \in horizon.start .. (horizon.start + 24 * hour) : t % hour = 0 /\ t < horizon.end}

\* A line: a place without width.
LineAt(t, horizon) ==
    IF t \in horizon.start .. horizon.end THEN [left |-> t - horizon.start, width |-> 0]
    ELSE Nowhere

Board(board, docks, now, hour, proposal, options) ==
    (UNION {Lane(k, board, proposal, options) : k \in docks})
        \cup ({LineAt(t, board.horizon) : t \in HourTicks(board.horizon, hour) \cup {now}}
                 \ {Nowhere})

\* What the picker's banner says it cannot draw.
CountOffTrack(options, docks, horizon) ==    \* mutant of CountOutOfHorizon
    Cardinality({o \in options : Placed(o, horizon) = Nowhere})

CountOutOfHorizon(options, docks, horizon) ==
    Cardinality({o \in options : o.dock \notin docks \/ Placed(o, horizon) = Nowhere})
=============================================================================
