------------------------------ MODULE LivePoll ------------------------------
(***************************************************************************)
(* useLivePoll: the loop with which a console re-reads its queue.  One     *)
(* timer, at most one read in flight, re-armed when the read ends.  Delays *)
(* (the interval, the backoff after failures) are left out: a timer that   *)
(* is armed may fire at any moment, which covers every delay.  The         *)
(* consoles mount the loop with a constant `enabled`, so its generation    *)
(* counter never changes while it is mounted.                              *)
(***************************************************************************)
CONSTANT NothingRead           \* null, for what a read of the queue answers

VARIABLE poll     \* timerRef, inFlightRef, its answer, and whether the tab is hidden

\* The hook's refs as it mounts.
Refs == [timer |-> FALSE, flight |-> "none", answer |-> NothingRead, hidden |-> FALSE]

\* The first read comes with the interval, not at once.
PollInit == poll = [Refs EXCEPT !.timer = TRUE]

\* runRef: a hidden tab does nothing and does not re-arm; a pause or a read
\* in flight re-arms; otherwise a read leaves.
RunForgetsToRearm(p, paused) ==         \* mutant of Run
    IF p.hidden \/ paused \/ p.flight # "none" THEN p
    ELSE [p EXCEPT !.flight = "sent"]

Run(p, paused) ==
    IF p.hidden THEN p
    ELSE IF paused \/ p.flight # "none" THEN [p EXCEPT !.timer = TRUE]
    ELSE [p EXCEPT !.flight = "sent"]

Fire(paused) ==
    /\ poll.timer
    /\ poll' = Run([poll EXCEPT !.timer = FALSE], paused)

\* The server reads its tables for the answer now; it arrives later.  (A read
\* whose answer is lost is one that was never answered.)
Answer(data) ==
    /\ poll.flight = "sent"
    /\ poll' = [poll EXCEPT !.flight = "answered", !.answer = data]

Lose ==
    /\ poll.flight = "sent"
    /\ poll' = [poll EXCEPT !.flight = "failed"]

\* finally: whatever became of the read, the loop goes on.
Settled(p) ==
    [p EXCEPT !.flight = "none", !.answer = NothingRead, !.timer = TRUE]

Land ==
    /\ poll.flight = "answered"
    /\ poll' = Settled(poll)

Fail ==
    /\ poll.flight = "failed"
    /\ poll' = Settled(poll)

Hide ==
    /\ ~ poll.hidden
    /\ poll' = [poll EXCEPT !.hidden = TRUE, !.timer = FALSE]

Show(paused) ==
    /\ poll.hidden
    /\ poll' = Run([poll EXCEPT !.hidden = FALSE], paused)

\* The browser comes back online.
Online(paused) ==
    /\ ~ poll.hidden
    /\ poll' = Run(poll, paused)
=============================================================================
