---------------------------- MODULE PlannerQueue ----------------------------
(***************************************************************************)
(* The planner's queue (features/planner): the list of pending requests a  *)
(* planner decides from, over the network and against the decisions of the *)
(* server (Allocation).  Other planners, the sweep and the drivers move    *)
(* the same requests meanwhile.                                            *)
(*                                                                         *)
(* A read has three steps: it leaves, the server answers it from its       *)
(* tables, the answer lands.  A write has three as well, and may be lost   *)
(* on its way there or back.                                               *)
(***************************************************************************)
EXTENDS Naturals, FiniteSets, Sublists

CONSTANTS
    Request,        \* appointment ids
    Hash,           \* snapshot_hash: the interval and the conflicts of a request
    Clashing,       \* the hashes of a request with conflicts
    None,           \* null
    MaxPresses,     \* bound: idempotency keys the console mints
    MaxMoves,       \* bound: what happens to the requests and the tab meanwhile,
                    \* and the times the planner asks for a fresh read
    MaxTools        \* bound: kinds of decision one behaviour is about

ASSUME QueueAssumption ==
    /\ IsFiniteSet(Request)
    /\ Clashing \subseteq Hash
    /\ None \notin Request \cup Hash
    /\ MaxPresses \in Nat /\ MaxMoves \in Nat /\ MaxTools \in Nat

VARIABLES
    server,         \* appointments, as the queue's read and decisions see them
    ranking,        \* the current order of composite urgency
    moves,          \* what happened meanwhile
    tools,          \* the kinds of decision this behaviour is about
    stored,         \* idempotency_requests: a function from keys
    poll,           \* useLivePoll
    load,           \* the latest explicit read; an older one is ignored
    live,           \* LiveQueueState
    ui,             \* focus, selection, dialog, pending, batchBusy, picking
    closed,         \* rows shown as already actioned (refusals, outcomes)
    keys,           \* keyFor: the key of each press not yet resolved
    minted,         \* keys minted so far
    writes,         \* requests under way
    told            \* history: what the planner was told he decided

vars == <<server, ranking, moves, tools, stored, poll, load, live, ui, closed, keys, minted,
          writes, told>>
others == <<ranking, moves, tools>>

-----------------------------------------------------------------------------
(* Data.                                                                    *)

Status == {"NONE", "PENDING", "CONFIRMED", "REJECTED", "ELSEWHERE"}
Appointment == [status : Status, hash : Hash, held : BOOLEAN]

Ids(rows) == {rows[i].id : i \in DOMAIN rows}
Order(rows) == [i \in DOMAIN rows |-> rows[i].id]
Only(rows, S) == Keep(rows, {r \in Members(rows) : r.id \in S})
RowOf(rows, a) == rows[CHOOSE i \in DOMAIN rows : rows[i].id = a]

Ranking == {r \in [1 .. Cardinality(Request) -> Request] :
                \A a \in Request : \E i \in DOMAIN r : r[i] = a}

Kind == {"confirm", "reject", "hold", "counter", "bulk"}

\* What the server says of one request; the reader of "failed" gets no code it
\* knows (classifyRefusal's OTHER): the network, or a key used for something else.
Code == {"done", "ALREADY_ACTIONED", "SNAPSHOT_STALE", "DISPLACEMENT_DETECTED",
         "HOLD_ALREADY_USED", "INTERVAL_UNAVAILABLE", "OUTSIDE_SAFE_BATCH"}

NoCode(S) == [a \in S |-> "done"]
Done(w) == {a \in w.ids : w.code[a] = "done"}

LP == INSTANCE LivePoll WITH NothingRead <- None
-----------------------------------------------------------------------------
(* The server.                                                              *)

Pending == {a \in Request : server[a].status = "PENDING"}

\* get_planner_queue: the pending requests by composite urgency.
QueueRead ==
    LET pending == Keep(ranking, Pending)
    IN  [i \in DOMAIN pending |-> [id |-> pending[i], hash |-> server[pending[i]].hash,
                                  held |-> server[pending[i]].held]]

client == <<poll, load, live, ui, closed, keys, minted, told>>

\* A driver's request arrives; another planner, the sweep or the driver ends
\* it; a claim or a dock block nearby changes its conflicts, perhaps back;
\* time passes, and another request is the most urgent one.
Meanwhile == moves < MaxMoves /\ moves' = moves + 1

OthersMove == Meanwhile /\ UNCHANGED <<tools, stored, writes, client>>

Arrive(a) ==
    /\ server[a].status = "NONE"
    /\ server' = [server EXCEPT ![a].status = "PENDING"]
    /\ UNCHANGED ranking /\ OthersMove

Elsewhere(a) ==
    /\ server[a].status = "PENDING"
    /\ server' = [server EXCEPT ![a].status = "ELSEWHERE"]
    /\ UNCHANGED ranking /\ OthersMove

BoardMoves(a) ==
    /\ server[a].status = "PENDING"
    /\ \E h \in Hash \ {server[a].hash} : server' = [server EXCEPT ![a].hash = h]
    /\ UNCHANGED ranking /\ OthersMove

UrgencyMoves ==
    /\ \E r \in Ranking \ {ranking} : ranking' = r
    /\ UNCHANGED server /\ OthersMove

\* The verdict on a, in the order of the code.  What it depends on beyond the
\* hash (the slot picked, the other safe-batch predicates) is free.
VerdictIgnoresHash(w, a) ==             \* mutant of Verdict
    IF server[a].status # "PENDING" THEN {"ALREADY_ACTIONED"}
    ELSE IF w.kind = "hold" /\ server[a].held THEN {"HOLD_ALREADY_USED"} ELSE {"done"}

Verdict(w, a) ==
    IF server[a].status # "PENDING" THEN {"ALREADY_ACTIONED"}
    ELSE CASE w.kind = "reject" -> {"done"}
           [] w.kind = "hold" -> {IF server[a].held THEN "HOLD_ALREADY_USED" ELSE "done"}
           [] w.kind = "bulk" -> IF server[a].hash \in Clashing THEN {"OUTSIDE_SAFE_BATCH"}
                                 ELSE {"done", "OUTSIDE_SAFE_BATCH"}
           [] w.kind \in {"confirm", "counter"} ->
                  IF server[a].hash \in Clashing THEN {"DISPLACEMENT_DETECTED"}
                  ELSE IF server[a].hash # w.hash THEN {"SNAPSHOT_STALE"}
                  ELSE IF w.kind = "counter" THEN {"done", "INTERVAL_UNAVAILABLE"}
                  ELSE {"done"}

Effects(row, kind) ==
    CASE kind \in {"confirm", "bulk"} -> {[row EXCEPT !.status = "CONFIRMED"]}
      [] kind = "reject" -> {[row EXCEPT !.status = "REJECTED"]}
      [] kind = "hold" -> {[row EXCEPT !.held = TRUE]}
      [] kind = "counter" -> {[row EXCEPT !.hash = h] : h \in Hash \ {row.hash}}

Becomes(w, v) == writes' = (writes \ {w}) \cup {v}

\* lookup_idempotency, the decision, store_idempotency, one commit.
Decide(w) ==
    /\ w.stage = "sent"
    /\ w.key \notin DOMAIN stored
    /\ \E code \in [w.ids -> Code] :
          /\ \A a \in w.ids : code[a] \in Verdict(w, a)
          /\ LET v == [w EXCEPT !.stage = "answered", !.code = code]
             IN  IF Done(v) = {} /\ w.kind # "bulk"
                 THEN Becomes(w, v) /\ UNCHANGED <<server, stored>>
                 ELSE /\ Becomes(w, [v EXCEPT !.took = Done(v) # {}])
                      /\ server' \in
                            {s \in [Request -> UNION {{server[a]} \cup Effects(server[a], w.kind)
                                                         : a \in Request}] :
                               \A a \in Request :
                                  IF a \in Done(v) THEN s[a] \in Effects(server[a], w.kind)
                                  ELSE s[a] = server[a]}
                      /\ stored' = [k \in DOMAIN stored \cup {w.key} |->
                                       IF k = w.key THEN v ELSE stored[k]]
    /\ UNCHANGED <<others, client>>

\* The key is known: the stored answer again, or a refusal when it was used
\* for another payload (a reason, a note or a question can be another one).
Replay(w) ==
    /\ w.stage = "sent"
    /\ w.key \in DOMAIN stored
    /\ LET s == stored[w.key]
       IN  \/ /\ s.kind = w.kind /\ s.ids = w.ids /\ s.hash = w.hash
              /\ Becomes(w, [w EXCEPT !.stage = "answered", !.code = s.code, !.took = TRUE])
           \/ /\ s.hash # w.hash \/ w.kind \in {"reject", "hold"}
              /\ Becomes(w, [w EXCEPT !.stage = "failed"])
    /\ UNCHANGED <<server, others, stored, client>>

\* The request never reaches the server, or its answer never comes back.
LoseWrite(w) ==
    /\ w.stage # "failed"
    /\ Becomes(w, [w EXCEPT !.stage = "failed"])
    /\ UNCHANGED <<server, others, stored, client>>
-----------------------------------------------------------------------------
(* LiveQueueState.                                                          *)

EmptyLive == [rows |-> <<>>, staged |-> <<>>, vanished |-> {}, latest |-> <<>>]

AdoptQueue(q) == [rows |-> q, staged |-> <<>>, vanished |-> {}, latest |-> q]

Refreshed(rows, q) ==
    [i \in DOMAIN rows |-> IF rows[i].id \in Ids(q) THEN RowOf(q, rows[i].id) ELSE rows[i]]

\* While a decision is being taken rows keep their places: fields refresh,
\* arrivals are staged, what the server no longer returns is only marked.
MergeQueue(l, q, frozen) ==
    IF ~ frozen THEN AdoptQueue(q)
    ELSE [rows |-> Refreshed(l.rows, q), staged |-> Only(q, Request \ Ids(l.rows)),
          vanished |-> Ids(l.rows) \ Ids(q), latest |-> q]

ApplyResort(l) == AdoptQueue(l.latest)

\* After the planner's own write: out of the cached payload too.
RemoveRowsFromView(l, gone) ==          \* mutant of RemoveRows
    [rows |-> Only(l.rows, Request \ gone), staged |-> Only(l.staged, Request \ gone),
     vanished |-> l.vanished \ gone, latest |-> l.latest]

RemoveRows(l, gone) ==
    [rows |-> Only(l.rows, Request \ gone), staged |-> Only(l.staged, Request \ gone),
     vanished |-> l.vanished \ gone, latest |-> Only(l.latest, Request \ gone)]
-----------------------------------------------------------------------------
(* Reads.                                                                   *)

NoDialog == [kind |-> None, id |-> None]
NoPress == [kind |-> None, id |-> None]

WriteInFlight == ui.pending # NoPress \/ ui.batchBusy

FrozenOnFocusOnly == ui.within          \* mutant of Frozen

Frozen == \/ ui.within
          \/ ui.selected # {}
          \/ WriteInFlight
          \/ ui.dialog # NoDialog

\* The effect: a read leaves, any older one is ignored from now on.
StartLoad == load' = [stage |-> "sent", answer |-> None, failed |-> FALSE]

LoadAnswer ==
    /\ load.stage = "sent"
    /\ load' = [load EXCEPT !.stage = "answered", !.answer = QueueRead]
    /\ UNCHANGED <<server, others, stored, poll, live, ui, closed, keys, minted, writes, told>>

LoadFails ==
    /\ load.stage = "sent"
    /\ load' = [stage |-> "none", answer |-> None, failed |-> TRUE]
    /\ UNCHANGED <<server, others, stored, poll, live, ui, closed, keys, minted, writes, told>>

LoadLands ==
    /\ load.stage = "answered"
    /\ live' = AdoptQueue(load.answer)
    /\ load' = [load EXCEPT !.stage = "none", !.answer = None]
    /\ UNCHANGED <<server, others, stored, poll, ui, closed, keys, minted, writes, told>>

\* Refresh, and Retry on the region error.
Reload ==
    /\ IF load.failed THEN UNCHANGED moves ELSE Meanwhile
    /\ StartLoad
    /\ closed' = {}
    /\ ui' = [ui EXCEPT !.selected = {}]
    /\ UNCHANGED <<server, ranking, tools, stored, poll, live, keys, minted, writes, told>>

rest == <<server, others, stored, load, live, ui, closed, keys, minted, writes, told>>

PollTick == LP!Fire(WriteInFlight) /\ UNCHANGED rest
PollAnswered == LP!Answer(QueueRead) /\ UNCHANGED rest
PollLost == LP!Lose /\ UNCHANGED rest
PollFails == LP!Fail /\ UNCHANGED rest
TabShown == LP!Show(WriteInFlight) /\ UNCHANGED rest

aside == <<server, ranking, tools, stored, load, live, ui, closed, keys, minted, writes, told>>
TabHidden == LP!Hide /\ Meanwhile /\ UNCHANGED aside
BackOnline == LP!Online(WriteInFlight) /\ Meanwhile /\ UNCHANGED aside

\* Frozen is read when the answer lands, not when the read left.
PollLands ==
    /\ LP!Land
    /\ live' = MergeQueue(live, poll.answer, Frozen)
    /\ load' = [load EXCEPT !.failed = FALSE]
    /\ UNCHANGED <<server, others, stored, ui, closed, keys, minted, writes, told>>
-----------------------------------------------------------------------------
(* What the planner does.  The rows are there unless the region error is,   *)
(* and a dialog is modal.                                                   *)

AtRows == ~ load.failed /\ ui.dialog = NoDialog
Terminal(a) == a \in closed \cup live.vanished
Busy(a) == ui.pending.id = a \/ ui.batchBusy

\* The buttons of a row.
Offered(a) == ~ (Terminal(a) \/ Busy(a))

\* RowAction: a button that is disabled takes no click, nor does Hold, which
\* explains itself instead, once the deadline has been extended.
Clicks(kind, a) == Offered(a) /\ (kind = "hold" => ~ RowOf(live.rows, a).held)

\* Three of the five safe-batch predicates can be seen; the two that are no
\* part of the hash are free.
Eligible(row) == IF row.hash \in Clashing THEN {FALSE} ELSE BOOLEAN

still == <<server, others, stored, poll, load, live, closed, keys, minted, writes, told>>

Focus == AtRows /\ live.rows # <<>> /\ ui' = [ui EXCEPT !.within = TRUE] /\ UNCHANGED still
Blur == ui' = [ui EXCEPT !.within = FALSE] /\ UNCHANGED still

ToggleSelect(a) ==
    /\ "bulk" \in tools
    /\ AtRows /\ a \in Ids(live.rows) /\ Offered(a)
    /\ ui' = [ui EXCEPT !.selected = IF a \in @ THEN @ \ {a} ELSE @ \cup {a}]
    /\ UNCHANGED still

\* "Select all eligible".
SelectAllEligible ==
    /\ "bulk" \in tools
    /\ AtRows
    /\ \E S \in SUBSET {a \in Ids(live.rows) : TRUE \in Eligible(RowOf(live.rows, a))} :
          S # {} /\ ui' = [ui EXCEPT !.selected = S]
    /\ UNCHANGED still

ClearSelection ==
    /\ AtRows /\ ~ ui.batchBusy
    /\ ui' = [ui EXCEPT !.selected = {}]
    /\ UNCHANGED still

\* The pill "N new", the key S.
Resort ==
    /\ AtRows
    /\ live' = ApplyResort(live)
    /\ UNCHANGED <<server, others, stored, poll, load, ui, closed, keys, minted, writes, told>>

\* keyFor: the key of this press, or of the press it retries.
Send(kind, ids, hash) ==
    LET slot == <<kind, ids>>
        key == IF slot \in DOMAIN keys THEN keys[slot] ELSE minted + 1
    IN  /\ key <= MaxPresses
        /\ minted' = IF key > minted THEN key ELSE minted
        /\ keys' = [s \in DOMAIN keys \cup {slot} |-> IF s = slot THEN key ELSE keys[s]]
        /\ writes' = writes \cup {[kind |-> kind, ids |-> ids, hash |-> hash, key |-> key,
                                   stage |-> "sent", code |-> NoCode(ids), took |-> FALSE]}
        /\ UNCHANGED <<server, others, stored, poll, load, live, closed, told>>

\* The key C acts on the focused row whatever its buttons say.
Confirm(a) ==
    /\ "confirm" \in tools
    /\ AtRows /\ a \in Ids(live.rows)
    /\ ui.within \/ Clicks("confirm", a)
    /\ ui.pending = NoPress
    /\ ui' = [ui EXCEPT !.within = TRUE, !.pending = [kind |-> "confirm", id |-> a]]
    /\ Send("confirm", {a}, RowOf(live.rows, a).hash)

BulkConfirm ==
    LET chosen == ui.selected \cap Ids(live.rows)
    IN  /\ AtRows /\ ~ ui.batchBusy /\ chosen # {}
        /\ ui' = [ui EXCEPT !.batchBusy = TRUE]
        /\ Send("bulk", chosen, None)

\* R and H open a dialog while another press is pending.
OpenDialog(kind, a) ==
    /\ kind \in {"reject", "hold"} \cap tools
    /\ AtRows /\ a \in Ids(live.rows)
    /\ ui.within \/ Clicks(kind, a)
    /\ kind = "hold" => ~ RowOf(live.rows, a).held
    /\ ui' = [ui EXCEPT !.within = TRUE, !.dialog = [kind |-> kind, id |-> a]]
    /\ UNCHANGED still

DialogBusy == ui.pending.kind = ui.dialog.kind

CloseDialog ==
    /\ ui.dialog # NoDialog
    /\ ui.dialog.kind = "hold" => ~ DialogBusy
    /\ ui' = [ui EXCEPT !.dialog = NoDialog]
    /\ UNCHANGED still

SubmitDialog ==
    /\ ui.dialog # NoDialog /\ ~ DialogBusy
    /\ ui' = [ui EXCEPT !.pending = ui.dialog]
    /\ Send(ui.dialog.kind, {ui.dialog.id}, None)

\* Counter-offer hands the row, with its hash, to the board's picker.
OpenCounterOffer(a) ==
    /\ "counter" \in tools
    /\ AtRows /\ a \in Ids(live.rows)
    /\ ui.within \/ Clicks("counter", a)
    /\ ui' = [ui EXCEPT !.within = FALSE,
              !.picking = [id |-> a, hash |-> RowOf(live.rows, a).hash]]
    /\ UNCHANGED still

Sending == \E w \in writes : w.kind = "counter"

CancelPicking ==
    /\ ui.picking # None /\ ~ Sending
    /\ ui' = [ui EXCEPT !.picking = None]
    /\ UNCHANGED still

SendCounterOffer ==
    /\ ui.picking # None
    /\ ~ Sending
    /\ UNCHANGED ui
    /\ Send("counter", {ui.picking.id}, ui.picking.hash)
-----------------------------------------------------------------------------
(* An answer lands.                                                         *)

Slot(w) == <<w.kind, w.ids>>
Resolved(w) == keys' = [s \in DOMAIN keys \ {Slot(w)} |-> keys[s]]
Kept == UNCHANGED keys
Gone(w) == writes' = writes \ {w}
Settled == [ui EXCEPT !.pending = NoPress]
Closing(kind, u) == IF u.dialog.kind = kind THEN [u EXCEPT !.dialog = NoDialog] ELSE u

\* A row that leaves takes the focus with it; no blur may be seen.
LeaveFocus(u, gone) ==
    {[u EXCEPT !.selected = @ \ gone, !.within = b] : b \in {u.within, FALSE}}

BulkLandsAsAsked(w) == w.ids            \* mutant of BulkConfirmed
BulkConfirmed(w) == Done(w)

ConfirmLands(w) ==
    /\ w.kind = "confirm" /\ w.stage # "sent"
    /\ Gone(w)
    /\ LET a == CHOOSE x \in w.ids : TRUE
       IN  IF w.stage = "failed"
           THEN Kept /\ ui' = Settled /\ UNCHANGED <<live, closed, told>>
           ELSE /\ Resolved(w)
                /\ IF w.code[a] = "done"
                   THEN /\ live' = RemoveRows(live, {a}) /\ told' = told \cup {a}
                        /\ ui' \in LeaveFocus(Settled, {a}) /\ UNCHANGED closed
                   ELSE /\ ui' = Settled /\ UNCHANGED <<live, told>>
                        /\ closed' = IF w.code[a] = "ALREADY_ACTIONED" THEN closed \cup {a}
                                     ELSE closed \ {a}
    /\ UNCHANGED <<server, others, stored, poll, load, minted>>

RejectLands(w) ==
    /\ w.kind = "reject" /\ w.stage # "sent"
    /\ Gone(w)
    /\ LET a == CHOOSE x \in w.ids : TRUE
       IN  IF w.stage = "failed"
           THEN Kept /\ ui' = Settled /\ UNCHANGED <<live, closed, told>>
           ELSE /\ Resolved(w)
                /\ IF w.code[a] = "done"
                   THEN /\ live' = RemoveRows(live, {a}) /\ told' = told \cup {a}
                        /\ ui' \in LeaveFocus(Closing("reject", Settled), {a}) /\ UNCHANGED closed
                   ELSE /\ ui' = Closing("reject", Settled)
                        /\ closed' = closed \cup {a} /\ UNCHANGED <<live, told>>
    /\ UNCHANGED <<server, others, stored, poll, load, minted>>

\* A refusal is recorded and the reload clears it again.
HoldLands(w) ==
    /\ w.kind = "hold" /\ w.stage # "sent"
    /\ Gone(w)
    /\ IF w.stage = "failed"
       THEN Kept /\ ui' = Settled /\ UNCHANGED <<closed, load>>
       ELSE /\ Resolved(w)
            /\ ui' = [Closing("hold", Settled) EXCEPT !.selected = {}]
            /\ closed' = {}
            /\ StartLoad
    /\ UNCHANGED <<server, others, stored, poll, live, minted, told>>

\* Confirmed rows leave, skipped ones stay with their reason.
BulkLands(w) ==
    /\ w.kind = "bulk" /\ w.stage # "sent"
    /\ Gone(w) /\ Resolved(w)
    /\ LET quiet == [ui EXCEPT !.batchBusy = FALSE]
           gone == BulkConfirmed(w)
       IN  IF w.stage = "failed"
           THEN ui' = quiet /\ UNCHANGED <<live, closed, told>>
           ELSE /\ live' = RemoveRows(live, gone)
                /\ told' = told \cup gone
                /\ closed' = closed \cup {a \in w.ids : w.code[a] = "ALREADY_ACTIONED"}
                /\ ui' \in LeaveFocus([quiet EXCEPT !.selected = {}], gone)
    /\ UNCHANGED <<server, others, stored, poll, load, minted>>

\* The picker closes on everything but a taken interval, and has the queue read.
CounterOfferLands(w) ==
    /\ w.kind = "counter" /\ w.stage # "sent"
    /\ Gone(w) /\ Resolved(w)
    /\ IF w.stage = "answered" /\ \E a \in w.ids : w.code[a] = "INTERVAL_UNAVAILABLE"
       THEN UNCHANGED <<ui, load>>
       ELSE StartLoad /\ ui' = [ui EXCEPT !.picking = None]
    /\ UNCHANGED <<server, others, stored, poll, live, closed, minted, told>>
-----------------------------------------------------------------------------
Init ==
    /\ server \in [Request -> {s \in Appointment : /\ s.status \in {"NONE", "PENDING"}
                                                   /\ s.hash \notin Clashing /\ ~ s.held}]
    /\ ranking = CHOOSE r \in Ranking : TRUE
    /\ moves = 0
    /\ tools \in {T \in SUBSET Kind : Cardinality(T) = MaxTools}
    /\ stored = [k \in {} |-> None]
    /\ LP!PollInit
    /\ load = [stage |-> "sent", answer |-> None, failed |-> FALSE]
    /\ live = EmptyLive
    /\ ui = [within |-> FALSE, selected |-> {}, dialog |-> NoDialog,
             pending |-> NoPress, batchBusy |-> FALSE, picking |-> None]
    /\ closed = {} /\ keys = [s \in {} |-> 0] /\ minted = 0
    /\ writes = {} /\ told = {}

WriteEnds == \E w \in writes : Decide(w) \/ Replay(w) \/ LoseWrite(w)

ServerStep ==
    \/ \E a \in Request : Arrive(a) \/ Elsewhere(a) \/ BoardMoves(a)
    \/ UrgencyMoves
    \/ WriteEnds

ReadStep ==
    \/ LoadAnswer \/ LoadFails \/ LoadLands
    \/ PollTick \/ PollAnswered \/ PollLost \/ PollFails \/ PollLands
    \/ TabHidden \/ TabShown \/ BackOnline

PlannerStep ==
    \/ Reload \/ Focus \/ Blur \/ SelectAllEligible \/ ClearSelection \/ Resort
    \/ \E a \in Request : ToggleSelect(a) \/ Confirm(a) \/ OpenCounterOffer(a)
    \/ \E a \in Request, kind \in Kind : OpenDialog(kind, a)
    \/ CloseDialog \/ SubmitDialog \/ BulkConfirm
    \/ CancelPicking \/ SendCounterOffer

AnswerLands ==
    \E w \in writes : \/ ConfirmLands(w) \/ RejectLands(w) \/ HoldLands(w)
                      \/ BulkLands(w) \/ CounterOfferLands(w)

Next == ServerStep \/ ReadStep \/ PlannerStep \/ AnswerLands

Spec == Init /\ [][Next]_vars

\* Timers fire, a request ends one way or the other, reads are answered now
\* and then, the tab is looked at again, and no planner has a write under way
\* whenever the timer fires.
Fairness ==
    /\ SF_vars(PollTick /\ ~ WriteInFlight)
    /\ SF_vars(PollAnswered) /\ WF_vars(PollLands \/ PollFails)
    /\ WF_vars(TabShown)
    /\ WF_vars(WriteEnds \/ AnswerLands)

FairSpec == Spec /\ Fairness
-----------------------------------------------------------------------------
\* "Confirmed", "Rejected", "n confirmed": what the planner was told he decided
\* is decided on the server, for each row of a batch (doBulkConfirm's
\* outcomes) and for each retry (the replayed answers).
ToldIsTrue == \A a \in told : server[a].status \in {"CONFIRMED", "REJECTED"}

\* A single confirm takes effect only on the interval and the conflicts that
\* were on the planner's screen when he pressed, and never over a conflict:
\* snapshot_hash, carried from the row to the row lock.
ConfirmedAsShown ==
    [][\A a \in Request :
          (server[a].status = "PENDING" /\ server'[a].status = "CONFIRMED")
          => /\ server[a].hash \notin Clashing
             /\ \E w \in writes : /\ w.stage = "sent" /\ a \in w.ids
                                   /\ (w.kind = "bulk" \/ w.hash = server[a].hash)]_vars

\* A row the planner decided comes back to his screen only with a read the
\* server answered before the decision: landing now, or staged since it
\* landed.  The cached payload of a re-sort never holds it.
DecidedRowReturnsOnlyByALateRead ==
    [][\A a \in told : (a \notin Ids(live.rows) /\ a \in Ids(live'.rows))
          => \/ a \in Ids(live.staged)
             \/ (poll.flight = "answered" /\ a \in Ids(poll.answer))
             \/ (load.stage = "answered" /\ a \in Ids(load.answer))]_vars

\* The target never moves under the click: while a row has the focus, a
\* selection stands or a dialog is open, rows keep their places unless the
\* planner asked for it (S, an explicit read) or an answer to him took away the
\* very rows he decided.
RowsStayPut ==
    [][(/\ Order(live.rows) # Order(live'.rows)
        /\ ui.within \/ ui.selected # {} \/ ui.dialog # NoDialog)
       => \/ live' = ApplyResort(live)
          \/ (load.stage = "answered" /\ live' = AdoptQueue(load.answer))
          \/ \E w \in writes \ writes' : w.stage = "answered"
                                         /\ live'.rows = Only(live.rows, Request \ Done(w))]_vars

\* A request somebody decided leaves every planner's list, or is marked on it,
\* whatever reads are lost, come late or wait for a hidden tab.
DecidedRowLeaves ==
    <>[](\A a \in Request :
            server[a].status \in {"CONFIRMED", "REJECTED", "ELSEWHERE"}
            => a \notin Ids(live.rows) \/ a \in live.vanished)
=============================================================================
