------------------------- MODULE EscalationService -------------------------
(***************************************************************************)
(* Escalations and the take-over of driver threads, on the server          *)
(* (escalation_service, thread_message_service).  A call by a coordinator  *)
(* is a transaction of one or two steps: where the code reads a row,       *)
(* decides and then writes without a lock, other transactions come between *)
(* the two.  A call whose client has given up runs all the same.           *)
(***************************************************************************)
EXTENDS Naturals, Sequences, FiniteSets

CONSTANTS
    Escalation,     \* escalation ids, numbered as created_at orders them
    Thread,         \* driver threads, one per shipment
    Reason,         \* escalation_type
    User,           \* coordinators of the facility
    None,           \* null
    MaxMoves        \* bound: what happens that this console does not do

ASSUME EscalationAssumption ==
    /\ IsFiniteSet(Escalation) /\ Escalation = 1 .. Cardinality(Escalation)
    /\ None \notin User \cup Thread \cup Reason
    /\ MaxMoves \in Nat

VARIABLES
    escalation,     \* escalation_queue
    takenOver,      \* the threads that are ESCALATED
    posted,         \* chat_messages of OPERATIONS: their external ids
    stored,         \* idempotency_requests
    calls,          \* calls under way
    acknowledged,   \* history: who acknowledged it, not who owns it now
    moves, today

tables == <<escalation, takenOver, posted, stored>>
elsewhere == <<moves, today>>
service == <<tables, calls, acknowledged, elsewhere>>
-----------------------------------------------------------------------------
Closed == {"RESOLVED", "CANCELLED"}
Status == {"OPEN", "ACKNOWLEDGED", "IN_PROGRESS"} \cup Closed
EscalationRow ==
    [status : Status, owner : User \cup {None}, thread : Thread, reason : Reason,
     day : Nat \cup {None}]
NoCase == [status |-> "NONE", owner |-> None, thread |-> None, reason |-> None, day |-> None]

Exists(e) == escalation[e].status # "NONE"
Live(e) == Exists(e) /\ escalation[e].status \notin Closed

\* STEPPER_POSITIONS, with a place for the row that is not there yet.
Position(status) ==
    CASE status = "NONE" -> 0 [] status = "OPEN" -> 1 [] status = "ACKNOWLEDGED" -> 2
      [] status = "IN_PROGRESS" -> 3 [] OTHER -> 4

\* press: which press of this console's coordinator it answers, 0 for others.
Call(kind, by, e, key, press) ==
    [kind |-> kind, by |-> by, at |-> e, thread |-> escalation[e].thread, key |-> key,
     reason |-> None, press |-> press, stage |-> "sent", code |-> None, delivered |-> FALSE,
     replay |-> FALSE, waited |-> press # 0]

AnswerAs(c, code, delivered, replay) ==
    calls' = (calls \ {c}) \cup
                 IF c.waited THEN {[c EXCEPT !.stage = "answered", !.code = code,
                                             !.delivered = delivered, !.replay = replay]}
                 ELSE {}
Answer(c, code, delivered) == AnswerAs(c, code, delivered, FALSE)

Store(c, code) ==
    stored' = IF c.key = None THEN stored
              ELSE [k \in DOMAIN stored \cup {c.key} |-> IF k = c.key THEN code ELSE stored[k]]

Refuse(c, code) == Answer(c, code, FALSE) /\ UNCHANGED <<tables, acknowledged, elsewhere>>

\* The decision is taken, the write is still to come.
Checked(c) ==
    /\ calls' = (calls \ {c}) \cup {[c EXCEPT !.stage = "checked"]}
    /\ UNCHANGED <<tables, acknowledged, elsewhere>>

\* lookup_idempotency: the stored response, of which nothing is delivered.
Known(c) == c.key # None /\ c.key \in DOMAIN stored
Replay(c) ==
    /\ c.stage = "sent" /\ Known(c)
    /\ AnswerAs(c, stored[c.key], FALSE, TRUE)
    /\ UNCHANGED <<tables, acknowledged, elsewhere>>

Fresh(c, kind) == c.kind = kind /\ c.stage = "sent" /\ ~ Known(c)
-----------------------------------------------------------------------------
(* One statement decides.                                                   *)

AcknowledgeAnyway(c) ==         \* mutant of AcknowledgeEscalation
    /\ Fresh(c, "acknowledge")
    /\ escalation' = [escalation EXCEPT ![c.at].status = "ACKNOWLEDGED", ![c.at].owner = c.by]
    /\ acknowledged' = [acknowledged EXCEPT ![c.at] = c.by]
    /\ Store(c, "ACKNOWLEDGED") /\ Answer(c, "ACKNOWLEDGED", FALSE)
    /\ UNCHANGED <<takenOver, posted, elsewhere>>

\* UPDATE ... WHERE escalation_status = 'OPEN': one of two coordinators wins.
AcknowledgeEscalation(c) ==
    /\ Fresh(c, "acknowledge")
    /\ IF escalation[c.at].status = "OPEN"
       THEN /\ escalation' = [escalation EXCEPT ![c.at].status = "ACKNOWLEDGED",
                                                ![c.at].owner = c.by]
            /\ acknowledged' = [acknowledged EXCEPT ![c.at] = c.by]
            /\ Store(c, "ACKNOWLEDGED") /\ Answer(c, "ACKNOWLEDGED", FALSE)
            /\ UNCHANGED <<takenOver, posted, elsewhere>>
       ELSE Refuse(c, "ALREADY_ACTIONED")

\* Whatever the status was.
Close(c, kind, status) ==
    /\ Fresh(c, kind)
    /\ escalation' = [escalation EXCEPT ![c.at].status = status]
    /\ Store(c, status) /\ Answer(c, status, FALSE)
    /\ UNCHANGED <<takenOver, posted, acknowledged, elsewhere>>

ResolveEscalation(c) == Close(c, "resolve", "RESOLVED")
CancelEscalation(c) == Close(c, "cancel", "CANCELLED")

\* Needs an owner, has one afterwards; the status does not matter.
ReassignEscalation(c) ==
    /\ Fresh(c, "reassign")
    /\ IF escalation[c.at].owner = None THEN Refuse(c, "NOT_ACKNOWLEDGED")
       ELSE \E u \in User :
               /\ escalation' = [escalation EXCEPT ![c.at].owner = u]
               /\ Answer(c, "REASSIGNED", FALSE)
               /\ UNCHANGED <<takenOver, posted, stored, acknowledged, elsewhere>>

\* escalate_exception: nothing is written for a preview.  ON CONFLICT a live
\* case of the same shipment, reason and day is refreshed and handed back.
SameCase(t, r) == {e \in Escalation : Live(e) /\ escalation[e].thread = t
                                              /\ escalation[e].reason = r
                                              /\ escalation[e].day = today}
NextCase == {e \in Escalation : ~ Exists(e) /\ \A f \in Escalation : f < e => Exists(f)}
NewCase(e, t, r, day) ==
    escalation' = [escalation EXCEPT ![e] = [status |-> "OPEN", owner |-> None,
                                             thread |-> t, reason |-> r, day |-> day]]

Preview(c) == Fresh(c, "preview") /\ Refuse(c, "CONFIRMATION_REQUIRED")

EscalateAlways(c) ==            \* mutant of EscalateException
    /\ Fresh(c, "escalate")
    /\ \E e \in NextCase : NewCase(e, c.thread, c.reason, today)
    /\ Answer(c, "ESCALATED", FALSE)
    /\ UNCHANGED <<takenOver, posted, stored, acknowledged, elsewhere>>

EscalateException(c) ==
    /\ Fresh(c, "escalate")
    /\ IF SameCase(c.thread, c.reason) # {} THEN UNCHANGED escalation
       ELSE \E e \in NextCase : NewCase(e, c.thread, c.reason, today)
    /\ Answer(c, "ESCALATED", FALSE)
    /\ UNCHANGED <<takenOver, posted, stored, acknowledged, elsewhere>>
-----------------------------------------------------------------------------
(* A decision on what was read, then the write.                             *)

CheckStart(c) ==
    /\ Fresh(c, "start")
    /\ LET case == escalation[c.at]
       IN  CASE case.status = "IN_PROGRESS" -> Refuse(c, "ALREADY_IN_PROGRESS")
             [] case.status \notin {"ACKNOWLEDGED", "IN_PROGRESS"}
                \/ (case.status = "ACKNOWLEDGED" /\ case.owner = None) -> Refuse(c, "NOT_ACKNOWLEDGED")
             [] case.status = "ACKNOWLEDGED" /\ case.owner \notin {None, c.by} -> Refuse(c, "NOT_OWNER")
             [] OTHER -> Checked(c)

\* UPDATE ... WHERE escalation_status = 'ACKNOWLEDGED'.
InProgressAnyway(e) == [escalation EXCEPT ![e].status = "IN_PROGRESS"]     \* mutant of InProgress
InProgress(e) ==
    IF escalation[e].status = "ACKNOWLEDGED"
    THEN [escalation EXCEPT ![e].status = "IN_PROGRESS"] ELSE escalation

StartEscalationWork(c) ==
    /\ c.kind = "start" /\ c.stage = "checked"
    /\ escalation' = InProgress(c.at)
    /\ IF escalation[c.at].status = "ACKNOWLEDGED"
       THEN Store(c, "IN_PROGRESS") /\ Answer(c, "IN_PROGRESS", FALSE)
       ELSE Answer(c, "ALREADY_ACTIONED", FALSE) /\ UNCHANGED stored
    /\ UNCHANGED <<takenOver, posted, acknowledged, elsewhere>>

CheckTakeOver(c) ==
    /\ Fresh(c, "takeover")
    /\ LET case == escalation[c.at]
           owned == case.status \in {"ACKNOWLEDGED", "IN_PROGRESS"} /\ case.owner # None
       IN  IF ~ owned THEN Refuse(c, "NOT_ACKNOWLEDGED")
           ELSE IF c.thread \in takenOver THEN Refuse(c, "ALREADY_TAKEN_OVER")
           ELSE Checked(c)

\* The thread is taken over whatever became of the escalation; the divider is
\* shown to the driver after the commit, or not.
TakeOverThread(c) ==
    /\ c.kind = "takeover" /\ c.stage = "checked"
    /\ takenOver' = takenOver \cup {c.thread}
    /\ escalation' = InProgress(c.at)
    /\ Store(c, "TAKEN_OVER")
    /\ \E delivered \in BOOLEAN : Answer(c, "TAKEN_OVER", delivered)
    /\ UNCHANGED <<posted, acknowledged, elsewhere>>

\* NOT_IN_PROGRESS is answered twice: for a thread that is not taken over (here
\* NOT_ESCALATED, thread_status OPEN) and for one no case in progress is about.
HandBackCase(t) ==
    {e \in Escalation : escalation[e].thread = t /\ escalation[e].status = "IN_PROGRESS"
                                                 /\ escalation[e].owner # None}

CheckHandBack(c) ==
    /\ Fresh(c, "handback")
    /\ IF c.thread \notin takenOver THEN Refuse(c, "NOT_ESCALATED")
       ELSE IF HandBackCase(c.thread) = {} THEN Refuse(c, "NOT_IN_PROGRESS")
       ELSE Checked(c)

HandBackThread(c) ==
    /\ c.kind = "handback" /\ c.stage = "checked"
    /\ takenOver' = takenOver \ {c.thread}
    /\ \E delivered \in BOOLEAN : Answer(c, "HANDED_BACK", delivered)
    /\ UNCHANGED <<escalation, posted, stored, acknowledged, elsewhere>>

CheckPost(c) ==
    /\ Fresh(c, "post")
    /\ IF c.thread \notin takenOver THEN Refuse(c, "NOT_TAKEN_OVER") ELSE Checked(c)

\* A unique index on the external id; its violation is a 500 (FAILED).
PostUnchecked(c) ==             \* mutant of PostOperationsMessage
    /\ c.kind = "post" /\ c.stage = "checked"
    /\ posted' = Append(posted, [thread |-> c.thread, key |-> c.key])
    /\ Store(c, "POSTED")
    /\ \E delivered \in BOOLEAN : Answer(c, "POSTED", delivered)
    /\ UNCHANGED <<escalation, takenOver, acknowledged, elsewhere>>

PostOperationsMessage(c) ==
    /\ c.kind = "post" /\ c.stage = "checked"
    /\ IF \E i \in DOMAIN posted : posted[i].key = c.key
       THEN Answer(c, "FAILED", FALSE) /\ UNCHANGED <<posted, stored>>
       ELSE /\ posted' = Append(posted, [thread |-> c.thread, key |-> c.key])
            /\ Store(c, "POSTED")
            /\ \E delivered \in BOOLEAN : Answer(c, "POSTED", delivered)
    /\ UNCHANGED <<escalation, takenOver, acknowledged, elsewhere>>
-----------------------------------------------------------------------------
(* Others: the assistant, the sweep, the planners and the drivers raise     *)
(* cases, other coordinators act on any there is, from views as old as they *)
(* may be.                                                                  *)

Meanwhile == moves < MaxMoves /\ moves' = moves + 1

\* As the dialog does, or for an event that raises one case and no more: a
\* request that lapsed, a dock that was blocked.  Its key is the event's.
OthersRaise(t, r) ==
    /\ Meanwhile
    /\ \E e \in NextCase : \/ NewCase(e, t, r, None)
                           \/ SameCase(t, r) = {} /\ NewCase(e, t, r, today)
    /\ UNCHANGED <<takenOver, posted, stored, calls, acknowledged, today>>

Midnight == Meanwhile /\ today' = today + 1 /\ UNCHANGED <<tables, calls, acknowledged>>

OthersCall(u, kind, e) ==
    /\ Meanwhile /\ Exists(e)
    /\ calls' = calls \cup {Call(kind, u, e, None, 0)}
    /\ UNCHANGED <<tables, acknowledged, today>>

\* raised: the rows there are at first.
ServiceInit(raised) ==
    /\ escalation = [e \in Escalation |-> IF e \in DOMAIN raised THEN raised[e] ELSE NoCase]
    /\ posted = <<>> /\ stored = [k \in {} |-> None]
    /\ calls = {} /\ moves = 0 /\ today = 0
    /\ acknowledged = [e \in Escalation |-> None]

Serve(c) ==
    \/ Replay(c) \/ AcknowledgeEscalation(c) \/ ResolveEscalation(c) \/ CancelEscalation(c)
    \/ ReassignEscalation(c) \/ Preview(c) \/ EscalateException(c)
    \/ CheckStart(c) \/ StartEscalationWork(c)
    \/ CheckTakeOver(c) \/ TakeOverThread(c)
    \/ CheckHandBack(c) \/ HandBackThread(c)
    \/ CheckPost(c) \/ PostOperationsMessage(c)

OthersKind == {"acknowledge", "start", "resolve", "cancel", "takeover", "handback", "reassign"}

OthersStep(me) ==
    \/ \E t \in Thread, r \in Reason : OthersRaise(t, r)
    \/ \E u \in User \ {me}, kind \in OthersKind, e \in Escalation : OthersCall(u, kind, e)
-----------------------------------------------------------------------------
\* A case only climbs the stepper: none is un-acknowledged, two coordinators
\* do not both acknowledge one, and a closed one is not resurrected by a call
\* that was decided while it was open (escalation_service.py: the guarded
\* UPDATEs; "Terminal rows must not be resurrected").
StepperNeverGoesBack ==
    \A e \in Escalation : Position(escalation'[e].status) >= Position(escalation[e].status)

\* One live case per shipment, reason and day (dedupe_key and the partial
\* unique index), however often a lost answer makes somebody press Escalate
\* again.  The cases of a sweep or a blocked dock are not raised by anybody.
OneCasePerReason ==
    \A e, f \in Escalation :
        (Live(e) /\ Live(f) /\ escalation[e].thread = escalation[f].thread
                 /\ escalation[e].reason = escalation[f].reason
                 /\ escalation[e].day # None /\ escalation[e].day = escalation[f].day) => e = f

\* A message is in the thread once, however often its sender retried.
PostedOnce ==
    \A i, j \in DOMAIN posted : posted[i].key = posted[j].key => i = j
=============================================================================
