----------------------------- MODULE OpsCopilot -----------------------------
(***************************************************************************)
(* What the operations console shows beside its work (features/ops): the    *)
(* co-pilot's card, which suggests the next step on the selected case       *)
(* (ops_copilot.py), and the rows of capacity incidents, from which the     *)
(* coordinator asks the sequencer for a proposal.  Neither knows of the     *)
(* console's handlers: the card follows the row shown, an incident's row    *)
(* lives as long as it is in the list.                                      *)
(*                                                                         *)
(* They are looked at in one errand ("advise") and left out of the others.  *)
(***************************************************************************)
EXTENDS OpsConsole

\* NULL is no code of an answer, and no control that a suggestion names.
ASSUME CodeAssumption ==
    None \notin {"PROPOSED", "RUN_ALREADY_ACTIVE", "acknowledge", "takeover", "post", "sequence"}

VARIABLES
    card,           \* CopilotPane
    fetches,        \* its reads under way, those it ignores by now included
    rows,           \* CapacityIncidentRow: a function from the incidents listed
    run,            \* the run of the facility that is PROPOSED: its incident
    handed          \* history: the incidents a run was made for

beside == <<card, fetches, rows, run, handed>>
allVars == <<vars, beside>>

Advising == errand = "advise"
NoCard == [state |-> "idle", advice |-> None, of |-> None]
Planner == "planner"        \* a run no incident asked for
-----------------------------------------------------------------------------
(* ops_copilot.py: which control would succeed now, and which one to name.  *)

Owned(e) == escalation[e].owner # None
Works(e) == escalation[e].status \in {"ACKNOWLEDGED", "IN_PROGRESS"} /\ Owned(e)
Mine(e) == escalation[e].owner = Me
Taken(e) == escalation[e].thread \in takenOver

Available(e) ==
    {"resolve", "cancel"}
    \cup (IF escalation[e].status = "OPEN" THEN {"acknowledge"} ELSE {})
    \cup (IF ~ Taken(e) /\ Works(e) /\ Mine(e) THEN {"takeover"} ELSE {})
    \cup (IF Taken(e) THEN {"post"} ELSE {})
    \cup (IF Works(e) /\ Mine(e) THEN {"sequence"} ELSE {})

\* What the shipment's other tables say decides among these; None abstains.
Advice(e) ==
    IF ~ Live(e) THEN {None}
    ELSE IF Owned(e) /\ ~ Mine(e) THEN {"cancel", None}
    ELSE IF "acknowledge" \in Available(e) THEN {"cancel", "resolve", "acknowledge"}
    ELSE IF escalation[e].reason = Incident
    THEN {"cancel", IF "sequence" \in Available(e) THEN "sequence" ELSE None}
    ELSE {"cancel", "resolve", None} \cup ({"takeover", "post"} \cap Available(e))

\* The case as a suggestion says it found it.
Found(e) == [case |-> e, status |-> escalation[e].status, owner |-> escalation[e].owner,
             taken |-> Taken(e)]
Suggestion(e, advice) == [of |-> Found(e), advice |-> advice]
-----------------------------------------------------------------------------
(* CopilotPane: one effect, keyed on the case and the status shown.         *)

CopilotKeyById == IF HasRow THEN {Selected.id} ELSE {}          \* mutant of CopilotKey
CopilotKey == IF HasRow THEN {<<Selected.id, Selected.status>>} ELSE {}

Ignored == {[f EXCEPT !.live = FALSE] : f \in fetches}

CopilotEffect ==
    IF ~ Advising \/ CopilotKey' = CopilotKey THEN UNCHANGED <<card, fetches>>
    ELSE /\ card' = IF HasRow' THEN [NoCard EXCEPT !.state = "loading"] ELSE NoCard
         /\ fetches' = Ignored \cup
                IF HasRow' THEN {[case |-> pane'.selected, live |-> TRUE, answer |-> None]} ELSE {}

FetchAnswers(f) ==
    /\ f.answer = None
    /\ \E advice \in Advice(f.case) :
          fetches' = (fetches \ {f}) \cup {[f EXCEPT !.answer = Suggestion(f.case, advice)]}
    /\ UNCHANGED <<vars, card, rows, run, handed>>

FetchLands(f) ==
    /\ f.answer # None
    /\ fetches' = fetches \ {f}
    /\ card' = IF f.live THEN [state |-> "ready", advice |-> f.answer.advice, of |-> f.answer.of]
               ELSE card
    /\ UNCHANGED <<vars, rows, run, handed>>

FetchFails(f) ==
    /\ fetches' = fetches \ {f}
    /\ card' = IF f.live THEN [NoCard EXCEPT !.state = "error"] ELSE card
    /\ UNCHANGED <<vars, rows, run, handed>>
-----------------------------------------------------------------------------
(* CapacityIncidentRow, in the list while the queue is not being read.      *)

NewRow == [press |-> 0, failed |-> FALSE, outcome |-> None]
Incidents ==
    IF ~ Advising \/ region # "ready" THEN {}
    ELSE {e \in Ids(view.items) : Row(view.items, e).reason = Incident}

\* A row that leaves the list forgets what it asked for.
RowsEffect ==
    rows' = [e \in Incidents' |-> IF e \in DOMAIN rows THEN rows[e] ELSE NewRow]

RequestProposal(e) ==
    /\ e \in DOMAIN rows /\ rows[e].press = 0 /\ rows[e].outcome = None
    /\ presses < MaxPresses[errand] /\ presses' = presses + 1 /\ UNCHANGED <<clicks, errand>>
    /\ calls' = calls \cup {Call("sequence", Me, e, None, presses + 1)}
    /\ rows' = [rows EXCEPT ![e] = [NewRow EXCEPT !.press = presses + 1]]
    /\ UNCHANGED <<tables, acknowledged, elsewhere, reads, view, focus, pane, talk, tasks, busy, keys,
                   dialog, told, card, fetches, run, handed>>

rowAlone == <<tables, acknowledged, elsewhere, client, card, fetches, run, handed>>

OfRow(c, new) == rows' = [e \in DOMAIN rows |-> IF rows[e].press = c.press THEN new ELSE rows[e]]

ProposalLands(c) ==
    /\ c.kind = "sequence" /\ c.stage = "answered"
    /\ calls' = calls \ {c}
    /\ OfRow(c, IF c.code \in {"PROPOSED", "RUN_ALREADY_ACTIVE"}
                THEN [NewRow EXCEPT !.outcome = c.code] ELSE [NewRow EXCEPT !.failed = TRUE])
    /\ UNCHANGED rowAlone

ProposalFails(c) ==
    /\ c.kind = "sequence" /\ c.waited
    /\ calls' = (calls \ {c}) \cup IF c.stage = "answered" THEN {} ELSE {[c EXCEPT !.waited = FALSE]}
    /\ OfRow(c, [NewRow EXCEPT !.failed = TRUE])
    /\ UNCHANGED rowAlone
-----------------------------------------------------------------------------
(* request_sequencer_proposal, and the unique index on a facility's         *)
(* proposed run.                                                            *)

MayRequest(c) == Works(c.at) /\ escalation[c.at].owner = c.by

RequestSequencerProposal(c) ==
    /\ Fresh(c, "sequence")
    /\ LET code == CASE ~ Live(c.at) -> "ALREADY_ACTIONED"
                     [] Live(c.at) /\ ~ Works(c.at) -> "NOT_ACKNOWLEDGED"
                     [] Works(c.at) /\ ~ MayRequest(c) -> "NOT_OWNER"
                     [] MayRequest(c) /\ run # None -> "RUN_ALREADY_ACTIVE"
                     [] OTHER -> "PROPOSED"
       IN  /\ Answer(c, code, FALSE)
           /\ run' = IF code = "PROPOSED" THEN c.at ELSE run
           /\ handed' = IF code = "PROPOSED" THEN handed \cup {c.at} ELSE handed
    /\ UNCHANGED <<tables, acknowledged, elsewhere, client, card, fetches, rows>>

\* A planner has the facility sequenced himself, or decides on the proposal.
PlannerActs ==
    /\ Advising /\ Meanwhile
    /\ run' = IF run = None THEN Planner ELSE None
    /\ UNCHANGED <<tables, calls, acknowledged, today, client, card, fetches, rows, handed>>
-----------------------------------------------------------------------------
CopilotInit == Init /\ card = NoCard /\ fetches = {} /\ rows = [e \in {} |-> NewRow]
                    /\ run = None /\ handed = {}

ConsoleStep == Next /\ CopilotEffect /\ RowsEffect /\ UNCHANGED <<run, handed>>

CopilotNext ==
    \/ ConsoleStep
    \/ \E f \in fetches : FetchAnswers(f) \/ FetchLands(f) \/ FetchFails(f)
    \/ \E e \in DOMAIN rows : RequestProposal(e)
    \/ \E c \in calls : RequestSequencerProposal(c) \/ ProposalLands(c) \/ ProposalFails(c)
    \/ PlannerActs

CopilotSpec == CopilotInit /\ [][CopilotNext]_allVars
-----------------------------------------------------------------------------
\* CopilotSuggestionCard: the control it tells to use; None while it shows none.
SuggestedNextStep == IF card.state = "ready" THEN card.advice ELSE None

\* The service's own guards, for a call Me would make on the case as it stands.
Accepts(e, kind) ==
    CASE kind = "acknowledge" -> escalation[e].status = "OPEN"
      [] kind = "takeover" -> Works(e) /\ ~ Taken(e)
      [] kind = "post" -> Taken(e)
      [] kind = "sequence" -> Works(e) /\ Mine(e)
      [] OTHER -> TRUE

\* The card never points at a control that is refused or that is not there
\* (ops_copilot.py: "the co-pilot structurally cannot point at a control the
\* backend is about to refuse"; copilot-pane.tsx: "The control that performs
\* this action already exists in the detail pane").  It is about the case that
\* is selected, it is no older than the row shown beside it, and if the case
\* is still as it was found the control it names is offered and accepted.  A
\* row that says its proposal went to the planners says so of a run that was
\* made.
AdviceIsTrue ==
    /\ card.state = "ready" =>
          /\ HasRow /\ card.of.case = pane.selected
          /\ Position(card.of.status) >= Position(Selected.status)
          /\ SuggestedNextStep # None /\ card.of = Found(pane.selected) =>
                 /\ Accepts(pane.selected, SuggestedNextStep)
                 /\ Selected = EscalationQueueItem(pane.selected)
                       => Offered(SuggestedNextStep, Selected)
    /\ \A e \in DOMAIN rows : rows[e].outcome = "PROPOSED" => e \in handed
=============================================================================
