-------------------------- MODULE TakeOverProofs --------------------------
(* Cases and take-overs: what no order of calls, lost answers, retries and  *)
(* other coordinators can bring about on the server; and what the console   *)
(* tells its coordinator: that he acknowledged a case, that his message is  *)
(* on its way, and what the card shows or suggests.  The first half assumes *)
(* nothing of the queue's reads: the server holds whatever row the console  *)
(* acts on.  The second half begins where the reads are shown to be true.   *)
EXTENDS OpsCopilot, SublistProofs, SequenceTheorems, TLAPS

RowFields == {"status", "owner", "thread", "reason", "day"}
CallFields == {"kind", "by", "at", "thread", "key", "reason", "press", "stage", "code",
               "delivered", "replay", "waited"}

\* The tables are functions of the cases, of records.
RowsShaped ==
    /\ escalation = [e \in Escalation |-> escalation[e]]
    /\ \A e \in Escalation : DOMAIN escalation[e] = RowFields
PostedShaped == \E S : posted \in Seq(S)

USE DEF RowFields, CallFields
-----------------------------------------------------------------------------
(* What a step may do to a case.                                            *)

Keeps(e) == /\ escalation'[e].thread = escalation[e].thread
            /\ escalation'[e].reason = escalation[e].reason
            /\ escalation'[e].day = escalation[e].day

Opens(e) ==
    /\ ~ Exists(e) /\ escalation'[e].status = "OPEN"
    /\ escalation'[e].day # None =>
           /\ escalation'[e].day = today
           /\ SameCase(escalation'[e].thread, escalation'[e].reason) = {}
    /\ \A f \in Escalation \ {e} : escalation'[f] = escalation[f]

Moves(e) ==
    LET before == escalation[e].status  after == escalation'[e].status
    IN  \/ after = before
        \/ after \in Closed
        \/ before = "OPEN" /\ after = "ACKNOWLEDGED"
        \/ before = "ACKNOWLEDGED" /\ after = "IN_PROGRESS"

RowsStep == RowsShaped' /\ \A e \in Escalation : Opens(e) \/ (Keeps(e) /\ Moves(e))

LEMMA RowsStay == ASSUME RowsShaped, UNCHANGED escalation PROVE RowsStep
BY DEF RowsShaped, RowsStep, Keeps, Moves

LEMMA RowMoves ==
    ASSUME RowsShaped, NEW x, NEW row,
           escalation' = [escalation EXCEPT ![x] = row],
           x \in Escalation =>
               /\ DOMAIN row = RowFields
               /\ row.thread = escalation[x].thread /\ row.reason = escalation[x].reason
               /\ row.day = escalation[x].day
               /\ \/ row.status = escalation[x].status \/ row.status \in Closed
                  \/ escalation[x].status = "OPEN" /\ row.status = "ACKNOWLEDGED"
                  \/ escalation[x].status = "ACKNOWLEDGED" /\ row.status = "IN_PROGRESS"
    PROVE  RowsStep
<1>1. \A e \in Escalation : escalation'[e] = IF e = x THEN row ELSE escalation[e]
  BY DEF RowsShaped
<1>2. RowsShaped'
  BY <1>1 DEF RowsShaped
<1>3. QED
  BY <1>1, <1>2 DEF RowsStep, Keeps, Moves

LEMMA CaseOpens ==
    ASSUME RowsShaped, NEW t, NEW r, NEW day,
           day # None => day = today /\ SameCase(t, r) = {},
           NEW e \in NextCase, NewCase(e, t, r, day)
    PROVE  RowsStep
<1>1. e \in Escalation /\ ~ Exists(e)
  BY DEF NextCase
<1>2. /\ escalation'[e] = [status |-> "OPEN", owner |-> None, thread |-> t, reason |-> r,
                        day |-> day]
      /\ \A f \in Escalation \ {e} : escalation'[f] = escalation[f]
      /\ escalation' = [f \in Escalation |-> escalation'[f]]
  BY <1>1 DEF RowsShaped, NewCase
<1>3. RowsShaped'
  BY <1>2 DEF RowsShaped
<1>4. Opens(e)
  BY <1>1, <1>2 DEF Opens
<1>5. QED
  BY <1>2, <1>3, <1>4 DEF RowsStep, Keeps, Moves

LEMMA WorkBegins ==
    ASSUME RowsShaped, NEW x, escalation' = InProgress(x)
    PROVE  RowsStep
<1>1. CASE escalation[x].status = "ACKNOWLEDGED"
  <2> DEFINE row == [escalation[x] EXCEPT !.status = "IN_PROGRESS"]
  <2>1. escalation' = [escalation EXCEPT ![x] = row]
    BY <1>1 DEF InProgress
  <2>2. x \in Escalation => /\ DOMAIN row = RowFields /\ row.status = "IN_PROGRESS"
                            /\ row.thread = escalation[x].thread
                            /\ row.reason = escalation[x].reason /\ row.day = escalation[x].day
    BY DEF RowsShaped
  <2> HIDE DEF row
  <2>3. QED
    BY <1>1, <2>1, <2>2, RowMoves, ZenonT(30)
<1>2. CASE escalation[x].status # "ACKNOWLEDGED"
  BY <1>2, RowsStay DEF InProgress
<1>3. QED
  BY <1>1, <1>2

LEMMA ServeRows ==
    ASSUME RowsShaped, NEW c, Serve(c)
    PROVE  RowsStep
<1>1. CASE AcknowledgeEscalation(c)
  <2>1. CASE escalation[c.at].status = "OPEN"
    <3> DEFINE row == [escalation[c.at] EXCEPT !.status = "ACKNOWLEDGED", !.owner = c.by]
    <3>1. escalation' = [escalation EXCEPT ![c.at] = row]
      BY <1>1, <2>1 DEF AcknowledgeEscalation
    <3>2. c.at \in Escalation => /\ DOMAIN row = RowFields /\ row.status = "ACKNOWLEDGED"
                                 /\ row.thread = escalation[c.at].thread
                                 /\ row.reason = escalation[c.at].reason /\ row.day = escalation[c.at].day
      BY DEF RowsShaped
    <3> HIDE DEF row
    <3>3. QED
      BY <2>1, <3>1, <3>2, RowMoves
  <2>2. CASE escalation[c.at].status # "OPEN"
    BY <1>1, <2>2, RowsStay DEF AcknowledgeEscalation, Refuse, tables
  <2>3. QED
    BY <2>1, <2>2
<1>2. ASSUME NEW kind, NEW status \in Closed, Close(c, kind, status)
      PROVE  RowsStep
  <2> DEFINE row == [escalation[c.at] EXCEPT !.status = status]
  <2>1. escalation' = [escalation EXCEPT ![c.at] = row]
    BY <1>2 DEF Close
  <2>2. c.at \in Escalation => /\ DOMAIN row = RowFields /\ row.status = status
                               /\ row.thread = escalation[c.at].thread
                               /\ row.reason = escalation[c.at].reason /\ row.day = escalation[c.at].day
    BY DEF RowsShaped
  <2> HIDE DEF row
  <2>3. QED
    BY <1>2, <2>1, <2>2, RowMoves
<1>3. CASE ResolveEscalation(c) \/ CancelEscalation(c)
  BY <1>2, <1>3 DEF ResolveEscalation, CancelEscalation, Closed
<1>4. CASE ReassignEscalation(c)
  <2>1. CASE escalation[c.at].owner = None
    BY <1>4, <2>1, RowsStay DEF ReassignEscalation, Refuse, tables
  <2>2. ASSUME NEW u \in User, escalation' = [escalation EXCEPT ![c.at].owner = u]
        PROVE  RowsStep
    <3> DEFINE row == [escalation[c.at] EXCEPT !.owner = u]
    <3>1. escalation' = [escalation EXCEPT ![c.at] = row]
      BY <2>2
    <3>2. c.at \in Escalation => /\ DOMAIN row = RowFields
                                 /\ row.status = escalation[c.at].status
                                 /\ row.thread = escalation[c.at].thread
                                 /\ row.reason = escalation[c.at].reason /\ row.day = escalation[c.at].day
      BY DEF RowsShaped
    <3> HIDE DEF row
    <3>3. QED
      BY <3>1, <3>2, RowMoves
  <2>3. QED
    BY <1>4, <2>1, <2>2 DEF ReassignEscalation
<1>5. CASE EscalateException(c)
  <2>1. CASE SameCase(c.thread, c.reason) # {}
    BY <1>5, <2>1, RowsStay DEF EscalateException
  <2>2. CASE SameCase(c.thread, c.reason) = {}
    BY <1>5, <2>2, CaseOpens DEF EscalateException
  <2>3. QED
    BY <2>1, <2>2
<1>6. CASE StartEscalationWork(c) \/ TakeOverThread(c)
  BY <1>6, WorkBegins DEF StartEscalationWork, TakeOverThread
<1>7. CASE \/ Replay(c) \/ Preview(c) \/ CheckStart(c) \/ CheckTakeOver(c) \/ CheckHandBack(c)
           \/ HandBackThread(c) \/ CheckPost(c) \/ PostOperationsMessage(c)
  <2>1. UNCHANGED escalation
    BY <1>7 DEF Replay, Preview, CheckStart, CheckTakeOver, CheckHandBack, HandBackThread,
                CheckPost, PostOperationsMessage, Refuse, Checked, tables
  <2>2. QED
    BY <2>1, RowsStay
<1>8. QED
  BY <1>1, <1>3, <1>4, <1>5, <1>6, <1>7 DEF Serve

\* Neither the console nor the card touches the tables.
LEMMA OnlyTheServiceWrites ==
    ASSUME [CopilotNext]_allVars
    PROVE  \/ UNCHANGED tables
           \/ \E c \in calls : Serve(c)
           \/ OthersStep(Me)
<1>0. Midnight => UNCHANGED tables
  BY DEF Midnight
<1>1. ASSUME ReadStep \/ DeskStep
      PROVE  UNCHANGED tables
  BY <1>1 DEF ReadStep, PollTick, PollAnswered, PollFails, PollLands, QueueAnswers, QueueLands,
       QueueFails, RetryQueue, ThreadRead, DeskStep, Select, FocusOrBlur, ApplyArrivals,
       DismissLiveChange, DismissTakeoverNotice, Press, HandleSendMessage, HandleRetryPending,
       HandleDiscardPending, SendWithKey, awaiting, service
<1>2. ASSUME NEW t, NEW c, \/ CaseActionLands(t, c) \/ TakeOverLands(t, c) \/ HandBackLands(t, c)
                           \/ RecoverStarted(t, c) \/ PostLands(t, c) \/ CallFails(t, c)
      PROVE  UNCHANGED tables
  <2>1. ASSUME NEW p, NEW notice, NEW thenThread, ThenLoad(t, p, notice, thenThread)
        PROVE  UNCHANGED tables
    BY <2>1 DEF ThenLoad
  <2>2. CASE CaseActionLands(t, c)
    BY <2>1, <2>2 DEF CaseActionLands
  <2>3. CASE TakeOverLands(t, c)
    BY <2>1, <2>3 DEF TakeOverLands
  <2>4. CASE HandBackLands(t, c)
    BY <2>1, <2>4 DEF HandBackLands
  <2>5. CASE RecoverStarted(t, c)
    BY <2>1, <2>5 DEF RecoverStarted
  <2>6. CASE PostLands(t, c) \/ CallFails(t, c)
    BY <2>6 DEF PostLands, CallFails
  <2>7. QED
    BY <1>2, <2>2, <2>3, <2>4, <2>5, <2>6
<1>3. ASSUME DialogStep
      PROVE  UNCHANGED tables
  BY <1>3 DEF DialogStep, OpenEscalate, CloseEscalate, Submit, Edit, SubmitLands, SubmitFails,
              dialogAlone
<1>4. CASE Next
  BY <1>0, <1>1, <1>2, <1>3, <1>4 DEF Next, TaskStep, ServerStep
<1>5. CASE \/ \E f \in fetches : FetchAnswers(f) \/ FetchLands(f) \/ FetchFails(f)
           \/ \E e \in DOMAIN rows : RequestProposal(e)
           \/ \E c \in calls : RequestSequencerProposal(c) \/ ProposalLands(c) \/ ProposalFails(c)
           \/ PlannerActs \/ UNCHANGED allVars
  BY <1>5 DEF FetchAnswers, FetchLands, FetchFails, RequestProposal, RequestSequencerProposal,
       ProposalLands, ProposalFails, PlannerActs, rowAlone, allVars, vars, service
<1>6. QED
  BY <1>4, <1>5 DEF CopilotNext, ConsoleStep

LEMMA EveryRowsStep ==
    ASSUME RowsShaped, [CopilotNext]_allVars
    PROVE  RowsStep
<1>1. ASSUME NEW t, NEW r, OthersRaise(t, r)
      PROVE  RowsStep
  BY <1>1, CaseOpens DEF OthersRaise
<1>2. ASSUME NEW u, NEW kind, NEW e, OthersCall(u, kind, e)
      PROVE  RowsStep
  BY <1>2, RowsStay DEF OthersCall, tables
<1>3. CASE OthersStep(Me)
  BY <1>1, <1>2, <1>3 DEF OthersStep
<1>4. CASE UNCHANGED tables
  BY <1>4, RowsStay DEF tables
<1>5. QED
  BY <1>3, <1>4, ServeRows, OnlyTheServiceWrites
-----------------------------------------------------------------------------
(* The stepper, the unique index and the external ids.                      *)

LEMMA RowsStart == ASSUME CopilotInit PROVE RowsShaped /\ OneCasePerReason
<1>1. PICK k \in Errand :
        escalation = [e \in Escalation |-> IF e \in DOMAIN Raised[k] THEN Raised[k][e] ELSE NoCase]
  BY DEF CopilotInit, Init, ServiceInit
<1>2. \A e \in DOMAIN Raised[k] : DOMAIN Raised[k][e] = RowFields
  BY RaisedAssumption DEF EscalationRow
<1>3. RowsShaped
  BY <1>1, <1>2 DEF RowsShaped, NoCase
<1>4. \A e \in Escalation : Live(e) =>
          /\ e \in DOMAIN Raised[k] /\ escalation[e] = Raised[k][e]
          /\ Raised[k][e].status \notin Closed
  BY <1>1 DEF Live, Exists, NoCase
<1>5. OneCasePerReason
  BY <1>4, RaisedAssumption DEF OneCasePerReason
<1>6. QED
  BY <1>3, <1>5

\* A live case was live, with its thread and reason, or is the one opened.
LEMMA IndexKept ==
    ASSUME RowsStep, OneCasePerReason
    PROVE  OneCasePerReason'
<1>1. \A e \in Escalation : Live(e)' => Opens(e) \/ (Live(e) /\ Keeps(e))
  BY DEF RowsStep, Live, Exists, Keeps, Moves, Closed
<1>2. SUFFICES ASSUME NEW e \in Escalation, NEW f \in Escalation, Live(e)', Live(f)',
                      escalation'[e].thread = escalation'[f].thread,
                      escalation'[e].reason = escalation'[f].reason,
                      escalation'[e].day # None, escalation'[e].day = escalation'[f].day
               PROVE  e = f
  BY DEF OneCasePerReason
<1>3. CASE Opens(e) \/ Opens(f)
  <2>1. ASSUME NEW x \in Escalation, NEW y \in Escalation, Opens(x), x # y, Live(y)',
               escalation'[x].thread = escalation'[y].thread,
               escalation'[x].reason = escalation'[y].reason,
               escalation'[x].day # None, escalation'[x].day = escalation'[y].day
        PROVE  FALSE
    <3>1. escalation'[y] = escalation[y]
      BY <2>1 DEF Opens
    <3>2. y \in SameCase(escalation'[x].thread, escalation'[x].reason)
      BY <2>1, <3>1 DEF SameCase, Live, Exists, Opens
    <3>3. QED
      BY <2>1, <3>2 DEF Opens
  <2>2. QED
    BY <1>2, <1>3, <2>1
<1>4. CASE ~ Opens(e) /\ ~ Opens(f)
  BY <1>1, <1>2, <1>4 DEF OneCasePerReason, Keeps
<1>5. QED
  BY <1>3, <1>4

\* Two presses of Escalate, the assistant and the drivers never make two live
\* cases of one shipment and reason on one day (escalate_exception's ON CONFLICT
\* under the partial unique index).
THEOREM CasesAreOne == CopilotSpec => []OneCasePerReason
<1>1. CopilotInit => RowsShaped /\ OneCasePerReason
  BY RowsStart
<1>2. (RowsShaped /\ OneCasePerReason) /\ [CopilotNext]_allVars => (RowsShaped /\ OneCasePerReason)'
  <2>1. ASSUME RowsShaped, OneCasePerReason, [CopilotNext]_allVars
        PROVE  RowsShaped' /\ OneCasePerReason'
    BY <2>1, EveryRowsStep, IndexKept DEF RowsStep
  <2>2. QED
    BY <2>1
<1>3. QED
  BY <1>1, <1>2, PTL DEF CopilotSpec

\* No call, decided while a case was open and written later, takes the case
\* back down the stepper (the guarded UPDATEs of escalation_service).
THEOREM CasesOnlyClimb == CopilotSpec => Steps
<1>1. CopilotInit => RowsShaped
  BY RowsStart
<1>2. RowsShaped /\ [CopilotNext]_allVars => RowsShaped'
  BY EveryRowsStep DEF RowsStep
<1>3. RowsShaped /\ [CopilotNext]_allVars => [StepperNeverGoesBack]_vars
  <2>1. ASSUME RowsShaped, [CopilotNext]_allVars, NEW e \in Escalation
        PROVE  Position(escalation'[e].status) >= Position(escalation[e].status)
    <3>1. Opens(e) \/ (Keeps(e) /\ Moves(e))
      BY <2>1, EveryRowsStep DEF RowsStep
    <3>2. CASE Opens(e)
      BY <3>2 DEF Opens, Exists, Position
    <3>3. CASE Moves(e)
      BY <3>3 DEF Moves, Closed, Position
    <3>4. QED
      BY <3>1, <3>2, <3>3
  <2>2. QED
    BY <2>1 DEF StepperNeverGoesBack
<1>4. QED
  BY <1>1, <1>2, <1>3, PTL DEF CopilotSpec, Steps

\* Whatever is sent again, whoever sends it and whichever answer was lost, no
\* two messages of a thread have one external id (the unique index of
\* chat_messages, post_operations_message).
THEOREM MessagesAreOne == CopilotSpec => []PostedOnce
<1>1. CopilotInit => PostedShaped /\ PostedOnce
  <2>1. ASSUME CopilotInit
        PROVE  posted = << >>
    BY <2>1 DEF CopilotInit, Init, ServiceInit
  <2>2. << >> \in Seq({})
    OBVIOUS
  <2>3. QED
    BY <2>1, <2>2 DEF PostedShaped, PostedOnce
<1>2. ASSUME PostedShaped, PostedOnce, [CopilotNext]_allVars
      PROVE  PostedShaped' /\ PostedOnce'
  <2>1. CASE UNCHANGED posted
    BY <1>2, <2>1 DEF PostedShaped, PostedOnce
  <2>2. ASSUME NEW c, PostOperationsMessage(c)
        PROVE  PostedShaped' /\ PostedOnce'
    <3>1. CASE \E i \in DOMAIN posted : posted[i].key = c.key
      BY <2>1, <2>2, <3>1 DEF PostOperationsMessage
    <3>2. CASE \A i \in DOMAIN posted : posted[i].key # c.key
      <4> DEFINE m == [thread |-> c.thread, key |-> c.key]
      <4>1. PICK S : posted \in Seq(S)
        BY <1>2 DEF PostedShaped
      <4>2. posted' = Append(posted, m) /\ m.key = c.key
        BY <2>2, <3>2 DEF PostOperationsMessage
      <4> HIDE DEF m
      <4>3. posted \in Seq(S \cup {m}) /\ m \in S \cup {m}
        BY <4>1, SeqMonotonic
      <4>4. posted' \in Seq(S \cup {m})
        BY <4>2, <4>3
      <4>5. \A i \in DOMAIN posted' :
               posted'[i] = IF i = Len(posted) + 1 THEN m ELSE posted[i]
        BY <4>2, <4>3
      <4>6. DOMAIN posted' = DOMAIN posted \cup {Len(posted) + 1}
        BY <4>2, <4>3
      <4>7. PostedOnce'
        BY <1>2, <3>2, <4>2, <4>5, <4>6 DEF PostedOnce
      <4>8. QED
        BY <4>4, <4>7 DEF PostedShaped
    <3>3. QED
      BY <3>1, <3>2
  <2>3. ASSUME NEW c, Serve(c), ~ PostOperationsMessage(c)
        PROVE  UNCHANGED posted
    BY <2>3 DEF Serve, Replay, AcknowledgeEscalation, ResolveEscalation, CancelEscalation, Close,
       ReassignEscalation, Preview, EscalateException, CheckStart, StartEscalationWork,
       CheckTakeOver, TakeOverThread, CheckHandBack, HandBackThread, CheckPost, Refuse, Checked,
       tables
  <2>4. ASSUME OthersStep(Me)
        PROVE  UNCHANGED posted
    BY <2>4 DEF OthersStep, OthersRaise, OthersCall, tables
  <2>5. ASSUME UNCHANGED tables
        PROVE  UNCHANGED posted
    BY <2>5 DEF tables
  <2>6. QED
    BY <1>2, <2>1, <2>2, <2>3, <2>4, <2>5, OnlyTheServiceWrites
<1>3. QED
  BY <1>1, <1>2, PTL DEF CopilotSpec
-----------------------------------------------------------------------------
(* What a coordinator is told.  An answer may be a replay of what is stored *)
(* under its key, so the invariant follows a key: it is of one case, whether *)
(* a call has it, a retry will have it, or an answer is stored under it.     *)

CaseKind == {"acknowledge", "start", "resolve", "cancel", "takeover", "handback"}
TaskFields == {"kind", "at", "thread", "key", "press", "stage", "thenThread"}

OfCase(c) == c.kind \in CaseKind
Keyed(c) == OfCase(c) /\ c.key # None
Says(c) == OfCase(c) /\ c.press # 0 /\ c.stage = "answered" /\ c.code = "ACKNOWLEDGED"

PaneInv ==
    /\ DOMAIN pane = {"selected", "change", "dismissed", "already"}
    /\ pane.selected \in Escalation \cup {None}

\* What another coordinator calls, nobody here waits for.
IsCall(c, last) ==
    /\ DOMAIN c = CallFields
    /\ c.press \in 0 .. last
    /\ c.press = 0 => c.key = None /\ ~ c.waited
    /\ c.press # 0 => c.by = Me
    /\ OfCase(c) => c.at \in Escalation
    /\ Keyed(c) => c.key \in 1 .. last

CallsNumbered == presses \in Nat /\ \A c \in calls : IsCall(c, presses)

TasksNumbered ==
    /\ \A t \in tasks : /\ DOMAIN t = TaskFields
                        /\ t.press \in 1 .. presses /\ t.at \in Escalation
    /\ \A t, u \in tasks : t.press = u.press => t.at = u.at
    /\ \A t \in tasks, c \in calls : c.press = t.press =>
           /\ c.at = t.at
           /\ t.kind \in {"acknowledge", "start", "resolve", "cancel"} => OfCase(c)

KeysNumbered ==
    /\ \A a \in DOMAIN keys : keys[a] \in 1 .. presses /\ a[2] \in Escalation
    /\ \A a, b \in DOMAIN keys : keys[a] = keys[b] => a[2] = b[2]

OneCasePerKey ==
    /\ \A c, d \in calls : Keyed(c) /\ Keyed(d) /\ c.key = d.key => c.at = d.at
    /\ \A c \in calls, a \in DOMAIN keys : Keyed(c) /\ c.key = keys[a] => c.at = a[2]

StoredIsTrue ==
    \A k \in DOMAIN stored : stored[k] = "ACKNOWLEDGED" =>
        /\ k \in 1 .. presses /\ k # None
        /\ \A c \in calls : Keyed(c) /\ c.key = k => acknowledged[c.at] = Me
        /\ \A a \in DOMAIN keys : keys[a] = k => acknowledged[a[2]] = Me

AnswersAreTrue == \A c \in calls : Says(c) => acknowledged[c.at] = Me

OpenIsNobodys ==
    /\ acknowledged = [e \in Escalation |-> acknowledged[e]]
    /\ \A e \in Escalation : escalation[e].status \in {"NONE", "OPEN"} => acknowledged[e] = None

ToldInv == told \subseteq Escalation /\ AcknowledgedAsTold

AnswerInv ==
    /\ RowsShaped /\ PaneInv
    /\ CallsNumbered /\ TasksNumbered /\ KeysNumbered /\ OneCasePerKey
    /\ StoredIsTrue /\ AnswersAreTrue /\ OpenIsNobodys /\ ToldInv

LEMMA MeIsSomebody == Me # None
BY EscalationAssumption, ConsoleAssumption

\* A call that goes on, with what it is about.
Follows(c, d) ==
    /\ DOMAIN d = CallFields
    /\ d.kind = c.kind /\ d.at = c.at /\ d.key = c.key /\ d.press = c.press /\ d.by = c.by
    /\ d.waited => c.waited

Foreign(d) == /\ DOMAIN d = CallFields
              /\ d.press = 0 /\ d.key = None /\ ~ d.waited
              /\ OfCase(d) => d.at \in Escalation

\* The hand-back a recovering press makes after its start was answered.
Second(d) == /\ DOMAIN d = CallFields
             /\ OfCase(d) /\ d.key = None /\ d.by = Me /\ d.stage = "sent"
             /\ \E t \in tasks : d.press = t.press /\ d.at = t.at

\* No press is made: every call, handler and key is one there was, and what is
\* newly answered, stored or told is true.
LEMMA CarryOver ==
    ASSUME AnswerInv, RowsShaped', PaneInv', presses' = presses,
           \A d \in calls' : \/ \E c \in calls : Follows(c, d) /\ (Says(d) => Says(c) \/ acknowledged'[d.at] = Me)
                             \/ Foreign(d) \/ Second(d),
           \A u \in tasks' : DOMAIN u = TaskFields /\ \E t \in tasks :
                                 u.press = t.press /\ u.at = t.at /\ u.kind = t.kind,
           \A a \in DOMAIN keys' : a \in DOMAIN keys /\ keys'[a] = keys[a],
           \A e \in Escalation : acknowledged[e] = Me => acknowledged'[e] = Me,
           \A k \in DOMAIN stored' : stored'[k] = "ACKNOWLEDGED" =>
               \/ k \in DOMAIN stored /\ stored[k] = "ACKNOWLEDGED"
               \/ \E c \in calls : Keyed(c) /\ c.key = k /\ acknowledged'[c.at] = Me,
           OpenIsNobodys',
           \A e \in told' : e \in told \/ (e \in Escalation /\ acknowledged'[e] = Me)
    PROVE  AnswerInv'
<1> USE DEF CallsNumbered, TasksNumbered, KeysNumbered, OneCasePerKey
<1>1. /\ CallsNumbered /\ TasksNumbered /\ KeysNumbered /\ OneCasePerKey
      /\ StoredIsTrue /\ AnswersAreTrue /\ ToldInv
  BY DEF AnswerInv
<1>2. ASSUME NEW d \in calls'
      PROVE  \/ Foreign(d) \/ Second(d)
             \/ \E c \in calls : Follows(c, d) /\ (Says(d) => Says(c) \/ acknowledged'[d.at] = Me)
  OBVIOUS
<1>3. ASSUME NEW d \in calls', Keyed(d)
      PROVE  \E c \in calls : Follows(c, d) /\ Keyed(c)
  BY <1>2, <1>3 DEF Foreign, Second, Follows, Keyed, OfCase
<1>4. CallsNumbered'
  <2>1. ASSUME NEW d \in calls'
        PROVE  IsCall(d, presses)
    <3>1. CASE Foreign(d)
      BY <1>1, <3>1 DEF Foreign, IsCall, Keyed
    <3>2. CASE Second(d)
      BY <1>1, <3>2 DEF Second, IsCall, Keyed
    <3>3. ASSUME NEW c \in calls, Follows(c, d)
          PROVE  IsCall(d, presses)
      BY <1>1, <3>3 DEF Follows, IsCall, Keyed, OfCase
    <3>4. QED
      BY <1>2, <3>1, <3>2, <3>3
  <2>2. QED
    BY <1>1, <2>1
<1>5. TasksNumbered'
  <2>1. ASSUME NEW u \in tasks', NEW d \in calls', d.press = u.press
        PROVE  /\ d.at = u.at
               /\ u.kind \in {"acknowledge", "start", "resolve", "cancel"} => OfCase(d)
    <3>1. PICK t \in tasks : u.press = t.press /\ u.at = t.at /\ u.kind = t.kind
      OBVIOUS
    <3>2. CASE Foreign(d)
      BY <1>1, <2>1, <3>1, <3>2 DEF Foreign
    <3>3. CASE Second(d)
      BY <1>1, <2>1, <3>1, <3>3 DEF Second
    <3>4. ASSUME NEW c \in calls, Follows(c, d)
          PROVE  /\ d.at = u.at
                 /\ u.kind \in {"acknowledge", "start", "resolve", "cancel"} => OfCase(d)
      BY <1>1, <2>1, <3>1, <3>4 DEF Follows, OfCase
    <3>5. QED
      BY <1>2, <3>2, <3>3, <3>4
  <2>2. QED
    BY <1>1, <2>1
<1>6. KeysNumbered' /\ OneCasePerKey'
  BY <1>1, <1>3 DEF Follows
<1>7. StoredIsTrue'
  <2>1. SUFFICES ASSUME NEW k \in DOMAIN stored', stored'[k] = "ACKNOWLEDGED"
                 PROVE  /\ k \in 1 .. presses /\ k # None
                        /\ \A c \in calls' : Keyed(c) /\ c.key = k => acknowledged'[c.at] = Me
                        /\ \A a \in DOMAIN keys' : keys'[a] = k => acknowledged'[a[2]] = Me
    BY DEF StoredIsTrue
  <2>2. CASE k \in DOMAIN stored /\ stored[k] = "ACKNOWLEDGED"
    <3>1. ASSUME NEW d \in calls', Keyed(d), d.key = k
          PROVE  acknowledged'[d.at] = Me
      <4>1. PICK c \in calls : Follows(c, d) /\ Keyed(c)
        BY <1>3, <3>1
      <4>2. acknowledged[c.at] = Me /\ c.at \in Escalation /\ d.at = c.at
        BY <1>1, <2>2, <3>1, <4>1 DEF StoredIsTrue, Follows, IsCall, Keyed
      <4>3. QED
        BY <4>2
    <3>2. QED
      BY <1>1, <2>2, <3>1 DEF StoredIsTrue
  <2>3. ASSUME NEW c \in calls, Keyed(c), c.key = k, acknowledged'[c.at] = Me
        PROVE  /\ k \in 1 .. presses /\ k # None
               /\ \A d \in calls' : Keyed(d) /\ d.key = k => acknowledged'[d.at] = Me
               /\ \A a \in DOMAIN keys' : keys'[a] = k => acknowledged'[a[2]] = Me
    <3>1. \A d \in calls' : Keyed(d) /\ d.key = k => d.at = c.at
      BY <1>1, <1>3, <2>3 DEF Follows
    <3>2. QED
      BY <1>1, <2>3, <3>1 DEF IsCall, Keyed
  <2>4. QED
    BY <2>1, <2>2, <2>3
<1>8. AnswersAreTrue'
  <2>1. ASSUME NEW d \in calls', Says(d)
        PROVE  acknowledged'[d.at] = Me
    <3>1. PICK c \in calls : Follows(c, d) /\ (Says(c) \/ acknowledged'[d.at] = Me)
      BY <1>2, <2>1 DEF Foreign, Second, Says
    <3>2. QED
      BY <1>1, <3>1 DEF AnswersAreTrue, Follows, IsCall, Says
  <2>2. QED
    BY <2>1 DEF AnswersAreTrue
<1>9. ToldInv'
  BY <1>1 DEF ToldInv, AcknowledgedAsTold
<1>10. QED
  BY <1>4, <1>5, <1>6, <1>7, <1>8, <1>9 DEF AnswerInv

\* A press: one more number, for a call and the handler that waits for it.  Its
\* key is that number, or the one of an action on the same case.
LEMMA PressKeeps ==
    ASSUME AnswerInv, RowsShaped', PaneInv', presses' = presses + 1,
           NEW n, calls' = calls \cup {n}, DOMAIN n = CallFields,
           n.press = presses + 1, n.by = Me, n.stage = "sent",
           OfCase(n) => /\ n.at \in Escalation
                        /\ \/ n.key \in {None, presses + 1}
                           \/ \E a \in DOMAIN keys : keys[a] = n.key /\ a[2] = n.at,
           \/ tasks' = tasks
           \/ \E u : /\ tasks' = tasks \cup {u}
                     /\ DOMAIN u = TaskFields /\ u.press = presses + 1
                     /\ u.at = n.at /\ u.at \in Escalation
                     /\ u.kind \in {"acknowledge", "start", "resolve", "cancel"} => OfCase(n),
           \/ keys' = keys
           \/ \E action : /\ keys' = Keeping(action, n.key)
                          /\ OfCase(n) /\ action[2] = n.at
                          /\ \/ n.key = presses + 1
                             \/ action \in DOMAIN keys /\ keys[action] = n.key,
           UNCHANGED <<escalation, acknowledged, stored, told>>
    PROVE  AnswerInv'
<1> USE DEF CallsNumbered, TasksNumbered, KeysNumbered, OneCasePerKey
<1>1. /\ CallsNumbered /\ TasksNumbered /\ KeysNumbered /\ OneCasePerKey
      /\ StoredIsTrue /\ AnswersAreTrue /\ ToldInv
  BY DEF AnswerInv
<1>2. presses \in Nat /\ \A c \in calls : IsCall(c, presses)
  BY <1>1
<1>3. CallsNumbered'
  <2>1. \A c \in calls : IsCall(c, presses + 1)
    BY <1>2 DEF IsCall
  <2>2. IsCall(n, presses + 1)
    BY <1>1 DEF IsCall, Keyed
  <2>3. QED
    BY <1>2, <2>1, <2>2
<1>4. TasksNumbered'
  <2>1. CASE tasks' = tasks
    BY <1>1, <1>2, <2>1 DEF IsCall
  <2>2. ASSUME NEW u, tasks' = tasks \cup {u}, DOMAIN u = TaskFields, u.press = presses + 1,
               u.at = n.at, u.at \in Escalation,
               u.kind \in {"acknowledge", "start", "resolve", "cancel"} => OfCase(n)
        PROVE  TasksNumbered'
    BY <1>1, <1>2, <2>2 DEF IsCall
  <2>3. QED
    BY <2>1, <2>2
\* Whatever has a key now has the new one, for the new call's case, or had it.
<1>5. \A a \in DOMAIN keys' :
          \/ a \in DOMAIN keys /\ keys'[a] = keys[a]
          \/ a[2] = n.at /\ keys'[a] = presses + 1 /\ n.key = presses + 1 /\ OfCase(n)
  <2>1. ASSUME NEW action, keys' = Keeping(action, n.key), OfCase(n), action[2] = n.at,
               n.key = presses + 1 \/ (action \in DOMAIN keys /\ keys[action] = n.key)
        PROVE  \A a \in DOMAIN keys' :
                  \/ a \in DOMAIN keys /\ keys'[a] = keys[a]
                  \/ a[2] = n.at /\ keys'[a] = presses + 1 /\ n.key = presses + 1 /\ OfCase(n)
    BY <2>1 DEF Keeping
  <2>2. QED
    BY <2>1
<1>6. KeysNumbered'
  BY <1>1, <1>5
<1>7. OneCasePerKey'
  <2>1. \A c \in calls : Keyed(c) /\ Keyed(n) /\ c.key = n.key => c.at = n.at
    BY <1>1, <1>2 DEF IsCall, Keyed
  <2>2. \A c \in calls, a \in DOMAIN keys' : Keyed(c) /\ c.key = keys'[a] => c.at = a[2]
    BY <1>1, <1>2, <1>5 DEF IsCall
  <2>3. \A a \in DOMAIN keys' : Keyed(n) /\ n.key = keys'[a] => n.at = a[2]
    BY <1>1, <1>5 DEF Keyed
  <2>4. QED
    BY <1>1, <2>1, <2>2, <2>3
<1>8. StoredIsTrue'
  BY <1>1, <1>5 DEF StoredIsTrue, Keyed
<1>9. AnswersAreTrue' /\ ToldInv' /\ OpenIsNobodys'
  BY <1>1 DEF AnswerInv, AnswersAreTrue, Says, ToldInv, AcknowledgedAsTold, OpenIsNobodys
<1>10. QED
  BY <1>3, <1>4, <1>6, <1>7, <1>8, <1>9 DEF AnswerInv
-----------------------------------------------------------------------------
(* The pane shows a case of the table, whatever the queue's reads say.      *)

LEMMA RenderKeepsPane ==
    ASSUME PaneInv, NEW v, NEW p, NEW t, Render(v, p, t),
           DOMAIN p = DOMAIN pane, p.selected \in Escalation \cup {None}
    PROVE  PaneInv'
BY DEF PaneInv, Render

LEMMA EveryPaneStep ==
    ASSUME PaneInv, [CopilotNext]_allVars
    PROVE  PaneInv'
<1>1. CASE UNCHANGED pane
  BY <1>1 DEF PaneInv
<1>2. ASSUME NEW l, NEW v, NEW p, AfterLoad(l, v, p), DOMAIN p = DOMAIN pane,
             p.selected = pane.selected
      PROVE  PaneInv'
  BY <1>2, RenderKeepsPane DEF AfterLoad, PaneInv
<1>3. CASE PollLands
  <2> DEFINE q == poll.answer
             change == ChangeOf(q)
             p == IF change = None \/ pane.dismissed = ChangeKey(change) THEN pane
                  ELSE [pane EXCEPT !.change = change]
  <2>1. Render(MergeOpsQueue(view, q, Frozen, pane.selected), p, talk)
    BY <1>3 DEF PollLands
  <2>2. DOMAIN p = DOMAIN pane /\ p.selected = pane.selected
    BY DEF PaneInv
  <2> HIDE DEF p
  <2>3. QED
    BY <2>1, <2>2, RenderKeepsPane DEF PaneInv
<1>4. ASSUME NEW l, QueueLands(l) \/ QueueFails(l)
      PROVE  PaneInv'
  BY <1>2, <1>4 DEF QueueLands, QueueFails, PaneInv
<1>5. ASSUME NEW e \in Escalation, Select(e)
      PROVE  PaneInv'
  <2> DEFINE p == [pane EXCEPT !.selected = e, !.already = None]
  <2>1. Render(view, p, talk)
    BY <1>5 DEF Select
  <2>2. DOMAIN p = DOMAIN pane /\ p.selected = e
    BY DEF PaneInv
  <2>3. QED
    BY <2>1, <2>2, RenderKeepsPane
<1>6. CASE ApplyArrivals
  BY <1>6, RenderKeepsPane DEF ApplyArrivals, PaneInv
<1>7. CASE DismissLiveChange
  BY <1>7 DEF DismissLiveChange, PaneInv
<1>8. ASSUME NEW kind, Press(kind)
      PROVE  PaneInv'
  BY <1>8, RenderKeepsPane DEF Press, PaneInv
<1>9. ASSUME NEW key, SendWithKey(key)
      PROVE  PaneInv'
  BY <1>9, RenderKeepsPane DEF SendWithKey, PaneInv
<1>10. ASSUME NEW t, NEW c, \/ CaseActionLands(t, c) \/ TakeOverLands(t, c) \/ HandBackLands(t, c)
                            \/ RecoverStarted(t, c) \/ PostLands(t, c) \/ CallFails(t, c)
       PROVE  PaneInv'
  <2>1. ASSUME NEW p, NEW notice, NEW thenThread, ThenLoad(t, p, notice, thenThread),
               DOMAIN p = DOMAIN pane, p.selected = pane.selected
        PROVE  PaneInv'
    BY <2>1, RenderKeepsPane DEF ThenLoad, PaneInv
  <2>2. CASE CaseActionLands(t, c)
    <3> DEFINE p == IF c.code = "ALREADY_ACTIONED" THEN [pane EXCEPT !.already = t.at] ELSE pane
    <3>1. DOMAIN p = DOMAIN pane /\ p.selected = pane.selected
      BY DEF PaneInv
    <3>2. \E notice : ThenLoad(t, p, notice, FALSE)
      BY <2>2 DEF CaseActionLands
    <3> HIDE DEF p
    <3>3. QED
      BY <2>1, <3>1, <3>2
  <2>3. CASE TakeOverLands(t, c)
    BY <2>1, <2>3 DEF TakeOverLands
  <2>4. CASE HandBackLands(t, c)
    BY <2>1, <2>4 DEF HandBackLands
  <2>5. CASE RecoverStarted(t, c)
    BY <1>1, <2>1, <2>5 DEF RecoverStarted
  <2>6. CASE PostLands(t, c)
    BY <2>6, RenderKeepsPane DEF PostLands, PaneInv
  <2>7. CASE CallFails(t, c)
    BY <2>7, RenderKeepsPane DEF CallFails, PaneInv
  <2>8. QED
    BY <1>10, <2>2, <2>3, <2>4, <2>5, <2>6, <2>7
<1>11. CASE \/ PollTick \/ PollAnswered \/ PollFails \/ RetryQueue \/ FocusOrBlur
            \/ DismissTakeoverNotice \/ ServerStep \/ DialogStep
            \/ (\E l \in loads : QueueAnswers(l)) \/ (\E t \in tasks : ThreadRead(t))
            \/ (\E i \in DOMAIN talk.pending : HandleDiscardPending(i))
  <2>1. UNCHANGED pane
    BY <1>11 DEF PollTick, PollAnswered, PollFails, RetryQueue, FocusOrBlur, DismissTakeoverNotice,
       ServerStep, client, DialogStep, OpenEscalate, CloseEscalate, Submit, Edit, SubmitLands,
       SubmitFails, dialogAlone, QueueAnswers, ThreadRead, HandleDiscardPending
  <2>2. QED
    BY <1>1, <2>1
<1>12. CASE Next
  BY <1>3, <1>4, <1>5, <1>6, <1>7, <1>8, <1>9, <1>10, <1>11, <1>12
     DEF Next, ReadStep, DeskStep, TaskStep, HandleSendMessage, HandleRetryPending
<1>13. CASE \/ \E f \in fetches : FetchAnswers(f) \/ FetchLands(f) \/ FetchFails(f)
            \/ \E e \in DOMAIN rows : RequestProposal(e)
            \/ \E c \in calls : RequestSequencerProposal(c) \/ ProposalLands(c) \/ ProposalFails(c)
            \/ PlannerActs \/ UNCHANGED allVars
  <2>1. UNCHANGED pane
    BY <1>13 DEF FetchAnswers, FetchLands, FetchFails, RequestProposal, RequestSequencerProposal,
         ProposalLands, ProposalFails, PlannerActs, rowAlone, client, allVars, vars
  <2>2. QED
    BY <1>1, <2>1
<1>14. QED
  BY <1>12, <1>13 DEF CopilotNext, ConsoleStep
-----------------------------------------------------------------------------
(* The service's steps.                                                     *)

LEMMA OpenStaysNobodys ==
    ASSUME OpenIsNobodys, RowsStep, UNCHANGED acknowledged
    PROVE  OpenIsNobodys'
<1>1. ASSUME NEW e \in Escalation, escalation'[e].status \in {"NONE", "OPEN"}
      PROVE  escalation[e].status \in {"NONE", "OPEN"}
  BY <1>1 DEF RowsStep, Opens, Exists, Keeps, Moves, Closed
<1>2. QED
  BY <1>1 DEF OpenIsNobodys

LEMMA GoesOn ==
    ASSUME NEW c, DOMAIN c = CallFields
    PROVE  /\ Follows(c, c)
           /\ Follows(c, [c EXCEPT !.stage = "checked"])
           /\ ~ Says([c EXCEPT !.stage = "checked"])
           /\ Follows(c, [c EXCEPT !.waited = FALSE])
           /\ Says([c EXCEPT !.waited = FALSE]) => Says(c)
           /\ \A code, delivered, replay :
                  LET d == [c EXCEPT !.stage = "answered", !.code = code,
                                     !.delivered = delivered, !.replay = replay]
                  IN  Follows(c, d) /\ d.code = code
BY DEF Follows, Says, OfCase

LEMMA ServiceKeeps ==
    ASSUME AnswerInv, RowsShaped', OpenIsNobodys', UNCHANGED client,
           NEW c \in calls, NEW code,
           \/ calls' = (calls \ {c}) \cup {[c EXCEPT !.stage = "checked"]}
           \/ \E delivered, replay : AnswerAs(c, code, delivered, replay),
           OfCase(c) /\ c.press # 0 /\ code = "ACKNOWLEDGED" => acknowledged'[c.at] = Me,
           \/ stored' = stored
           \/ Store(c, code) /\ (code = "ACKNOWLEDGED" => OfCase(c)),
           \A e \in Escalation : acknowledged[e] = Me => acknowledged'[e] = Me
    PROVE  AnswerInv'
<1>1. UNCHANGED <<pane, presses, tasks, keys, told>>
  BY DEF client
<1>2. \A d \in calls : DOMAIN d = CallFields /\ IsCall(d, presses)
  BY DEF AnswerInv, CallsNumbered, IsCall
<1>3. \A d \in calls' : \E b \in calls :
          Follows(b, d) /\ (Says(d) => Says(b) \/ acknowledged'[d.at] = Me)
  <2> DEFINE Goes(b, d) == Follows(b, d) /\ (Says(d) => Says(b) \/ acknowledged'[d.at] = Me)
  <2>0. \A b \in calls : Goes(b, b)
    BY <1>2, GoesOn
  <2>1. CASE calls' = (calls \ {c}) \cup {[c EXCEPT !.stage = "checked"]}
    <3> DEFINE a == [c EXCEPT !.stage = "checked"]
    <3>1. Goes(c, a)
      BY <1>2, GoesOn
    <3> HIDE DEF a, Goes
    <3>2. \A d \in calls' : d \in calls \/ d = a
      BY <2>1 DEF a
    <3>3. \A d \in calls' : \E b \in calls : Goes(b, d)
      BY <2>0, <3>1, <3>2
    <3>4. QED
      BY <3>3 DEF Goes
  <2>2. ASSUME NEW delivered, NEW replay, AnswerAs(c, code, delivered, replay)
        PROVE  \A d \in calls' : \E b \in calls :
                   Follows(b, d) /\ (Says(d) => Says(b) \/ acknowledged'[d.at] = Me)
    <3> DEFINE a == [c EXCEPT !.stage = "answered", !.code = code,
                              !.delivered = delivered, !.replay = replay]
    <3>1. \A d \in calls' : d \in calls \/ d = a
      BY <2>2 DEF AnswerAs
    <3>2. Follows(c, a) /\ a.code = code
      BY <1>2, GoesOn, ZenonT(30)
    <3> HIDE DEF a
    <3>3. Says(a) => acknowledged'[a.at] = Me
      BY <3>2 DEF Says, OfCase, Follows
    <3>4. Goes(c, a)
      BY <3>2, <3>3
    <3> HIDE DEF Goes
    <3>5. \A d \in calls' : \E b \in calls : Goes(b, d)
      BY <2>0, <3>1, <3>4
    <3>6. QED
      BY <3>5 DEF Goes
  <2>3. QED
    BY <2>1, <2>2
<1>4. \A k \in DOMAIN stored' : stored'[k] = "ACKNOWLEDGED" =>
          \/ k \in DOMAIN stored /\ stored[k] = "ACKNOWLEDGED"
          \/ \E b \in calls : Keyed(b) /\ b.key = k /\ acknowledged'[b.at] = Me
  <2>1. CASE stored' = stored
    BY <2>1
  <2>2. CASE Store(c, code) /\ (code = "ACKNOWLEDGED" => OfCase(c))
    BY <1>2, <2>2 DEF Store, Keyed, IsCall
  <2>3. QED
    BY <2>1, <2>2
<1>5. \A u \in tasks' : DOMAIN u = TaskFields /\ \E t \in tasks :
          u.press = t.press /\ u.at = t.at /\ u.kind = t.kind
  BY <1>1 DEF AnswerInv, TasksNumbered
<1>6. PaneInv'
  BY <1>1 DEF AnswerInv, PaneInv
<1>7. QED
  BY <1>1, <1>3, <1>4, <1>5, <1>6, CarryOver

LEMMA ServeKeeps ==
    ASSUME AnswerInv, NEW c \in calls, Serve(c), UNCHANGED client
    PROVE  AnswerInv'
<1>1. RowsStep /\ RowsShaped' /\ OpenIsNobodys
  BY ServeRows DEF AnswerInv, RowsStep
<1>2. DOMAIN c = CallFields /\ IsCall(c, presses)
  BY DEF AnswerInv, CallsNumbered, IsCall
<1>3. ASSUME NEW code, code # "ACKNOWLEDGED", UNCHANGED acknowledged,
             \/ Checked(c)
             \/ \E delivered : Answer(c, code, delivered),
             stored' = stored \/ Store(c, code)
      PROVE  AnswerInv'
  <2>1. OpenIsNobodys'
    BY <1>1, <1>3, OpenStaysNobodys
  <2>2. \/ calls' = (calls \ {c}) \cup {[c EXCEPT !.stage = "checked"]}
        \/ \E delivered, replay : AnswerAs(c, code, delivered, replay)
    BY <1>3 DEF Checked, Answer
  <2>3. \A e \in Escalation : acknowledged[e] = Me => acknowledged'[e] = Me
    BY <1>3
  <2>4. /\ OfCase(c) /\ c.press # 0 /\ code = "ACKNOWLEDGED" => acknowledged'[c.at] = Me
        /\ stored' = stored \/ (Store(c, code) /\ (code = "ACKNOWLEDGED" => OfCase(c)))
    BY <1>3
  <2>5. QED
    BY <1>1, <2>1, <2>2, <2>3, <2>4, ServiceKeeps
<1>4. CASE Replay(c)
  <2> DEFINE code == stored[c.key]
  <2>1. UNCHANGED <<tables, acknowledged>> /\ AnswerAs(c, code, FALSE, TRUE) /\ Known(c)
    BY <1>4 DEF Replay
  <2>2. OpenIsNobodys' /\ stored' = stored
    BY <1>1, <2>1, OpenStaysNobodys DEF tables
  <2>3. OfCase(c) /\ code = "ACKNOWLEDGED" => acknowledged'[c.at] = Me
    BY <2>1 DEF AnswerInv, StoredIsTrue, Known, Keyed
  <2> HIDE DEF code
  <2>4. QED
    BY <1>1, <2>1, <2>2, <2>3, ServiceKeeps
<1>5. CASE AcknowledgeEscalation(c)
  <2>1. c.kind = "acknowledge" /\ OfCase(c) /\ c.at \in Escalation
    BY <1>2, <1>5 DEF AcknowledgeEscalation, Fresh, IsCall, OfCase, CaseKind
  <2>2. CASE escalation[c.at].status = "OPEN"
    <3>1. /\ Store(c, "ACKNOWLEDGED") /\ Answer(c, "ACKNOWLEDGED", FALSE)
          /\ acknowledged' = [acknowledged EXCEPT ![c.at] = c.by]
          /\ escalation' = [escalation EXCEPT ![c.at].status = "ACKNOWLEDGED",
                                              ![c.at].owner = c.by]
      BY <1>5, <2>2 DEF AcknowledgeEscalation
    <3>2. acknowledged[c.at] = None /\ acknowledged = [e \in Escalation |-> acknowledged[e]]
      BY <1>1, <2>1, <2>2 DEF OpenIsNobodys
    <3>3. \A e \in Escalation : acknowledged'[e] = IF e = c.at THEN c.by ELSE acknowledged[e]
      BY <3>1, <3>2
    <3>4. \A e \in Escalation : acknowledged[e] = Me => acknowledged'[e] = Me
      BY <3>2, <3>3, MeIsSomebody
    <3>5. c.press # 0 => acknowledged'[c.at] = Me
      BY <1>2, <2>1, <3>3 DEF IsCall
    <3>6. OpenIsNobodys'
      <4>1. escalation'[c.at].status = "ACKNOWLEDGED"
            /\ \A e \in Escalation \ {c.at} : escalation'[e] = escalation[e]
        BY <2>1, <3>1 DEF AnswerInv, RowsShaped
      <4>2. QED
        BY <1>1, <3>1, <3>3, <4>1 DEF OpenIsNobodys
    <3>7. AnswerAs(c, "ACKNOWLEDGED", FALSE, FALSE)
      BY <3>1 DEF Answer
    <3>8. QED
      BY <1>1, <2>1, <3>1, <3>4, <3>5, <3>6, <3>7, ServiceKeeps
  <2>3. CASE escalation[c.at].status # "OPEN"
    BY <1>3, <1>5, <2>3 DEF AcknowledgeEscalation, Refuse, tables
  <2>4. QED
    BY <2>2, <2>3
<1>6. ASSUME NEW kind, NEW status \in Closed, Close(c, kind, status)
      PROVE  AnswerInv'
  BY <1>3, <1>6 DEF Close, Closed
<1>7. CASE ResolveEscalation(c) \/ CancelEscalation(c)
  BY <1>6, <1>7 DEF ResolveEscalation, CancelEscalation, Closed
<1>8. CASE ReassignEscalation(c) \/ Preview(c) \/ EscalateException(c)
  BY <1>3, <1>8 DEF ReassignEscalation, Preview, EscalateException, Refuse, tables
<1>9. CASE CheckStart(c) \/ CheckTakeOver(c) \/ CheckHandBack(c) \/ CheckPost(c)
  <2>1. \/ Checked(c)
        \/ \E code \in {"ALREADY_IN_PROGRESS", "NOT_ACKNOWLEDGED", "NOT_OWNER", "NOT_ESCALATED",
                        "ALREADY_TAKEN_OVER", "NOT_IN_PROGRESS", "NOT_TAKEN_OVER"} : Refuse(c, code)
    BY <1>9 DEF CheckStart, CheckTakeOver, CheckHandBack, CheckPost
  <2>2. CASE Checked(c)
    BY <1>3, <2>2 DEF Checked, tables
  <2>3. QED
    BY <1>3, <2>1, <2>2 DEF Refuse, tables
<1>10. CASE StartEscalationWork(c) \/ TakeOverThread(c) \/ HandBackThread(c)
  BY <1>3, <1>10 DEF StartEscalationWork, TakeOverThread, HandBackThread
<1>11. CASE PostOperationsMessage(c)
  BY <1>3, <1>11 DEF PostOperationsMessage
<1>12. QED
  BY <1>4, <1>5, <1>7, <1>8, <1>9, <1>10, <1>11 DEF Serve
-----------------------------------------------------------------------------
(* The console's steps.                                                     *)

\* A handler that goes on, or the call it waits for, given up.
Continues(t, u) ==
    DOMAIN u = TaskFields /\ u.press = t.press /\ u.at = t.at /\ u.kind = t.kind
HandlersGoOn == \A u \in tasks' : \E t \in tasks : Continues(t, u)
GivenUp(c, d) == d = c \/ d = [c EXCEPT !.waited = FALSE]

LEMMA ConsoleKeeps ==
    ASSUME AnswerInv, PaneInv', UNCHANGED <<tables, acknowledged, presses>>,
           \A d \in calls' : Foreign(d) \/ Second(d) \/ \E c \in calls : GivenUp(c, d),
           HandlersGoOn,
           \A a \in DOMAIN keys' : a \in DOMAIN keys /\ keys'[a] = keys[a],
           \A e \in told' : e \in told \/ (e \in Escalation /\ acknowledged[e] = Me)
    PROVE  AnswerInv'
<1>1. \A c \in calls : DOMAIN c = CallFields
  BY DEF AnswerInv, CallsNumbered, IsCall
<1>2. \A c \in calls : \A d : GivenUp(c, d) => Follows(c, d) /\ (Says(d) => Says(c))
  <2>1. ASSUME NEW c \in calls, NEW d, GivenUp(c, d)
        PROVE  Follows(c, d) /\ (Says(d) => Says(c))
    <3>1. CASE d = c
      BY <1>1, <3>1, GoesOn
    <3>2. CASE d = [c EXCEPT !.waited = FALSE]
      BY <1>1, <3>2, GoesOn
    <3>3. QED
      BY <2>1, <3>1, <3>2 DEF GivenUp
  <2>2. QED
    BY <2>1
<1>3. \A d \in calls' : \/ \E c \in calls : Follows(c, d) /\ (Says(d) => Says(c) \/ acknowledged'[d.at] = Me)
                        \/ Foreign(d) \/ Second(d)
  BY <1>2
<1>4. \A u \in tasks' : DOMAIN u = TaskFields /\ \E t \in tasks :
          u.press = t.press /\ u.at = t.at /\ u.kind = t.kind
  BY DEF HandlersGoOn, Continues
<1>5. RowsShaped' /\ OpenIsNobodys'
  BY DEF AnswerInv, RowsShaped, OpenIsNobodys, tables
<1>6. /\ \A e \in Escalation : acknowledged[e] = Me => acknowledged'[e] = Me
      /\ \A k \in DOMAIN stored' : stored'[k] = "ACKNOWLEDGED" =>
             k \in DOMAIN stored /\ stored[k] = "ACKNOWLEDGED"
      /\ \A e \in told' : e \in told \/ (e \in Escalation /\ acknowledged'[e] = Me)
  BY DEF tables
<1>7. QED
  BY <1>3, <1>4, <1>5, <1>6, CarryOver

LEMMA HandlersStep ==
    ASSUME \A t \in tasks : DOMAIN t = TaskFields
    PROVE  /\ tasks' = tasks => HandlersGoOn
           /\ \A t \in tasks : Done(t) => HandlersGoOn
           /\ \A t \in tasks, stage \in {"load", "thread"} : Proceed(t, stage) => HandlersGoOn
           /\ \A t \in tasks, thenThread \in BOOLEAN :
                  tasks' = (tasks \ {t}) \cup
                               {[t EXCEPT !.stage = "load", !.thenThread = thenThread]}
                  => HandlersGoOn
<1>1. \A t \in tasks : Continues(t, t)
  BY DEF Continues
<1>2. ASSUME NEW t \in tasks, NEW u, Continues(t, u), tasks' = (tasks \ {t}) \cup {u}
      PROVE  HandlersGoOn
  BY <1>1, <1>2 DEF HandlersGoOn
<1>3. ASSUME NEW t \in tasks, NEW stage
      PROVE  Continues(t, [t EXCEPT !.stage = stage])
  BY DEF Continues, TaskFields
<1>4. ASSUME NEW t \in tasks, NEW thenThread
      PROVE  Continues(t, [t EXCEPT !.stage = "load", !.thenThread = thenThread])
  BY DEF Continues, TaskFields
<1>5. QED
  BY <1>1, <1>2, <1>3, <1>4 DEF HandlersGoOn, Done, Proceed

LEMMA TasksShaped == ASSUME AnswerInv PROVE \A t \in tasks : DOMAIN t = TaskFields
BY DEF AnswerInv, TasksNumbered

LEMMA ReadKeeps ==
    ASSUME AnswerInv, PaneInv', ReadStep
    PROVE  AnswerInv'
<1>1. UNCHANGED <<service, keys, presses, told>>
  BY DEF ReadStep, PollTick, PollAnswered, PollFails, PollLands, QueueAnswers, QueueLands,
         QueueFails, RetryQueue, ThreadRead, awaiting
<1>2. HandlersGoOn
  <2>1. ASSUME NEW l, NEW v, NEW p, AfterLoad(l, v, p)
        PROVE  HandlersGoOn
    <3>1. UNCHANGED tasks \/ \E t \in tasks : Done(t) \/ Proceed(t, "thread")
      BY <2>1 DEF AfterLoad
    <3>2. QED
      BY <3>1, HandlersStep, TasksShaped
  <2>2. ASSUME NEW l, QueueLands(l) \/ QueueFails(l)
        PROVE  HandlersGoOn
    BY <2>1, <2>2 DEF QueueLands, QueueFails
  <2>3. ASSUME NEW t \in tasks, ThreadRead(t)
        PROVE  HandlersGoOn
    BY <2>3, HandlersStep, TasksShaped DEF ThreadRead
  <2>4. ASSUME \/ PollTick \/ PollAnswered \/ PollFails \/ PollLands \/ RetryQueue
               \/ \E l \in loads : QueueAnswers(l)
        PROVE  UNCHANGED tasks
    BY <2>4 DEF PollTick, PollAnswered, PollFails, PollLands, RetryQueue, QueueAnswers
  <2>5. QED
    BY <2>2, <2>3, <2>4, HandlersStep, TasksShaped DEF ReadStep
<1>3. UNCHANGED <<tables, acknowledged, calls>> /\ \A c : GivenUp(c, c)
  BY <1>1 DEF service, GivenUp
<1>4. QED
  BY <1>1, <1>2, <1>3, ConsoleKeeps

LEMMA SelectedIsACase ==
    ASSUME AnswerInv, HasRow
    PROVE  pane.selected \in Escalation
BY DEF AnswerInv, PaneInv, HasRow, SelectedIn

LEMMA PressIsKept ==
    ASSUME AnswerInv, PaneInv', NEW kind \in Kinds, Press(kind)
    PROVE  AnswerInv'
<1> DEFINE e == pane.selected
           action == ActionOf(kind, e)
           key == IF kind = "handback" THEN None ELSE KeyFor(action)
           as == IF kind = "recover" THEN "start" ELSE kind
           n == Call(as, Me, e, key, presses + 1)
           u == [kind |-> kind, at |-> e, thread |-> Selected.thread, key |-> key,
                 press |-> presses + 1, stage |-> "call", thenThread |-> FALSE]
<1>1. /\ presses' = presses + 1 /\ calls' = calls \cup {n} /\ tasks' = tasks \cup {u}
      /\ keys' = IF key = None THEN keys ELSE Keeping(action, key)
      /\ UNCHANGED <<tables, acknowledged, told>> /\ HasRow
  BY DEF Press, Leaves
<1>2. e \in Escalation /\ action[2] = e
  BY <1>1, SelectedIsACase DEF ActionOf
<1>3. kind \in CaseKind \cup {"recover"} /\ as \in CaseKind
  BY DEF Kinds, CaseKind
<1>4. key \in {None, presses + 1} \/ (action \in DOMAIN keys /\ keys[action] = key)
  BY DEF KeyFor
<1>5. /\ DOMAIN n = CallFields /\ n.kind = as /\ n.at = e /\ n.key = key /\ n.by = Me
      /\ n.press = presses + 1 /\ n.stage = "sent"
  <2> HIDE DEF e, key, as
  <2>1. QED
    BY DEF Call
<1>6. /\ DOMAIN u = TaskFields /\ u.press = presses + 1 /\ u.at = e
  BY DEF TaskFields
<1> HIDE DEF e, action, key, as, n, u
<1>7. OfCase(n)
  BY <1>3, <1>5 DEF OfCase
<1>8. keys' = keys \/ (/\ keys' = Keeping(action, n.key)
                       /\ n.key = presses + 1 \/ (action \in DOMAIN keys /\ keys[action] = n.key))
  BY <1>1, <1>4, <1>5
<1>9. RowsShaped' /\ UNCHANGED <<escalation, acknowledged, stored, told>>
  BY <1>1 DEF AnswerInv, RowsShaped, tables
<1>10. n.key \in {None, presses + 1} \/ \E a \in DOMAIN keys : keys[a] = n.key /\ a[2] = n.at
  BY <1>2, <1>4, <1>5
<1>11. QED
  BY <1>1, <1>2, <1>5, <1>6, <1>7, <1>8, <1>9, <1>10, PressKeeps

LEMMA SendKeeps ==
    ASSUME AnswerInv, PaneInv', HasRow, NEW key, SendWithKey(key)
    PROVE  AnswerInv'
<1> DEFINE e == pane.selected
           n == Call("post", Me, e, key, presses + 1)
           u == [kind |-> "post", at |-> e, thread |-> Selected.thread, key |-> key,
                 press |-> presses + 1, stage |-> "call", thenThread |-> FALSE]
<1>1. /\ presses' = presses + 1 /\ calls' = calls \cup {n} /\ tasks' = tasks \cup {u}
      /\ UNCHANGED <<tables, acknowledged, told, keys>>
  BY DEF SendWithKey, Leaves
<1>2. e \in Escalation
  BY SelectedIsACase
<1>3. /\ DOMAIN n = CallFields /\ n.kind = "post" /\ n.at = e /\ n.by = Me
      /\ n.press = presses + 1 /\ n.stage = "sent"
  <2> HIDE DEF e
  <2>1. QED
    BY DEF Call
<1>4. DOMAIN u = TaskFields /\ u.press = presses + 1 /\ u.at = e /\ u.kind = "post"
  BY DEF TaskFields
<1> HIDE DEF e, n, u
<1>5. ~ OfCase(n)
  BY <1>3 DEF OfCase, CaseKind
<1>6. RowsShaped' /\ UNCHANGED <<escalation, acknowledged, stored, told>>
  BY <1>1 DEF AnswerInv, RowsShaped, tables
<1>7. \E v : /\ tasks' = tasks \cup {v}
             /\ DOMAIN v = TaskFields /\ v.press = presses + 1
             /\ v.at = n.at /\ v.at \in Escalation
             /\ v.kind \in {"acknowledge", "start", "resolve", "cancel"} => OfCase(n)
  BY <1>1, <1>2, <1>3, <1>4
<1>8. QED
  BY <1>1, <1>3, <1>5, <1>6, <1>7, PressKeeps

LEMMA DeskKeeps ==
    ASSUME AnswerInv, PaneInv', DeskStep
    PROVE  AnswerInv'
<1>1. ASSUME NEW kind \in Kinds, Press(kind)
      PROVE  AnswerInv'
  BY <1>1, PressIsKept
<1>2. CASE HandleSendMessage
  BY <1>2, SendKeeps DEF HandleSendMessage
<1>3. ASSUME NEW i, HandleRetryPending(i)
      PROVE  AnswerInv'
  BY <1>3, SendKeeps DEF HandleRetryPending
<1>4. CASE \/ (\E e \in Escalation : Select(e)) \/ FocusOrBlur \/ ApplyArrivals
           \/ DismissLiveChange \/ DismissTakeoverNotice
           \/ (\E i \in DOMAIN talk.pending : HandleDiscardPending(i))
  <2>1. UNCHANGED <<service, tasks, keys, presses, told>>
    BY <1>4 DEF Select, FocusOrBlur, ApplyArrivals, DismissLiveChange, DismissTakeoverNotice,
                HandleDiscardPending
  <2>2. HandlersGoOn /\ UNCHANGED <<tables, acknowledged, calls>> /\ \A c : GivenUp(c, c)
    BY <2>1, HandlersStep, TasksShaped DEF service, GivenUp
  <2>3. QED
    BY <2>1, <2>2, ConsoleKeeps
<1>5. QED
  BY <1>1, <1>2, <1>3, <1>4 DEF DeskStep

LEMMA TaskKeeps ==
    ASSUME AnswerInv, PaneInv', TaskStep
    PROVE  AnswerInv'
<1>1. PICK t \in tasks, c \in calls :
          \/ CaseActionLands(t, c) \/ TakeOverLands(t, c) \/ HandBackLands(t, c)
          \/ RecoverStarted(t, c) \/ PostLands(t, c) \/ CallFails(t, c)
  BY DEF TaskStep
<1>2. t.press \in 1 .. presses /\ t.at \in Escalation /\ presses \in Nat
  BY DEF AnswerInv, TasksNumbered, CallsNumbered
<1>3. ASSUME UNCHANGED <<tables, acknowledged, presses>>,
             HandlersGoOn,
             \A d \in calls' : Second(d) \/ \E b \in calls : GivenUp(b, d),
             keys' = keys \/ \E action : keys' = Without(action),
             \A e \in told' : e \in told \/ (e \in Escalation /\ acknowledged[e] = Me)
      PROVE  AnswerInv'
  <2>1. \A a \in DOMAIN keys' : a \in DOMAIN keys /\ keys'[a] = keys[a]
    BY <1>3 DEF Without
  <2>2. QED
    BY <1>3, <2>1, ConsoleKeeps
<1>4. ASSUME NEW p, NEW notice, NEW thenThread \in BOOLEAN, ThenLoad(t, p, notice, thenThread)
      PROVE  HandlersGoOn /\ UNCHANGED <<tables, acknowledged, presses>>
  BY <1>4, HandlersStep, TasksShaped DEF ThenLoad
<1>5. calls' = calls \ {c} => \A d \in calls' : \E b \in calls : GivenUp(b, d)
  BY DEF GivenUp
<1>6. CASE CaseActionLands(t, c)
  <2>1. HandlersGoOn /\ UNCHANGED <<tables, acknowledged, presses>>
    BY <1>4, <1>6 DEF CaseActionLands
  <2>2. \A e \in told' : e \in told \/ (e \in Escalation /\ acknowledged[e] = Me)
    <3>1. /\ c.press = t.press /\ c.stage = "answered"
          /\ t.kind \in {"acknowledge", "start", "resolve", "cancel"}
          /\ told' = IF c.code = "ACKNOWLEDGED" THEN told \cup {t.at} ELSE told
      BY <1>6 DEF CaseActionLands, Handled
    <3>2. OfCase(c) /\ c.at = t.at /\ c.press # 0
      BY <1>2, <3>1 DEF AnswerInv, TasksNumbered
    <3>3. c.code = "ACKNOWLEDGED" => acknowledged[t.at] = Me
      BY <3>1, <3>2 DEF AnswerInv, AnswersAreTrue, Says
    <3>4. QED
      BY <1>2, <3>1, <3>3
  <2>3. calls' = calls \ {c} /\ keys' = Without(ActionOf(t.kind, t.at))
    BY <1>6 DEF CaseActionLands, Handled
  <2>4. QED
    BY <1>3, <1>5, <2>1, <2>2, <2>3
<1>7. CASE TakeOverLands(t, c) \/ HandBackLands(t, c)
  <2>1. HandlersGoOn /\ UNCHANGED <<tables, acknowledged, presses>>
    BY <1>4, <1>7 DEF TakeOverLands, HandBackLands
  <2>2. /\ calls' = calls \ {c} /\ told' = told
        /\ keys' = keys \/ keys' = Without(ActionOf(t.kind, t.at))
    BY <1>7 DEF TakeOverLands, HandBackLands, Handled
  <2>3. QED
    BY <1>3, <1>5, <2>1, <2>2
<1>8. CASE RecoverStarted(t, c)
  <2>1. keys' = Without(ActionOf(t.kind, t.at)) /\ told' = told
    BY <1>8 DEF RecoverStarted
  <2>2. CASE c.code \in {"NOT_OWNER", "NOT_ACKNOWLEDGED"}
    <3>1. HandlersGoOn /\ UNCHANGED <<tables, acknowledged, presses>> /\ calls' = calls \ {c}
      BY <1>4, <1>8, <2>2 DEF RecoverStarted
    <3>2. QED
      BY <1>3, <1>5, <2>1, <3>1
  <2>3. CASE c.code \notin {"NOT_OWNER", "NOT_ACKNOWLEDGED"}
    <3> DEFINE n == Call("handback", Me, t.at, None, t.press)
    <3>1. calls' = (calls \ {c}) \cup {n} /\ UNCHANGED <<tables, acknowledged, presses, tasks>>
      BY <1>8, <2>3 DEF RecoverStarted
    <3>2. Second(n)
      BY DEF Second, Call, OfCase, CaseKind
    <3> HIDE DEF n
    <3>3. \A d \in calls' : Second(d) \/ \E b \in calls : GivenUp(b, d)
      BY <3>1, <3>2 DEF GivenUp
    <3>4. HandlersGoOn
      BY <3>1, HandlersStep, TasksShaped
    <3>5. QED
      BY <1>3, <2>1, <3>1, <3>3, <3>4
  <2>4. QED
    BY <2>2, <2>3
<1>9. CASE PostLands(t, c)
  <2>1. Done(t) \/ \E stage \in {"load", "thread"} : Proceed(t, stage)
    BY <1>9 DEF PostLands, Proceed
  <2>2. HandlersGoOn
    BY <2>1, HandlersStep, TasksShaped
  <2>3. calls' = calls \ {c} /\ UNCHANGED <<tables, acknowledged, presses, keys, told>>
    BY <1>9 DEF PostLands, Handled
  <2>4. QED
    BY <1>3, <1>5, <2>2, <2>3
<1>10. CASE CallFails(t, c)
  <2>1. HandlersGoOn
    BY <1>10, HandlersStep, TasksShaped DEF CallFails
  <2>2. \A d \in calls' : \E b \in calls : GivenUp(b, d)
    BY <1>10 DEF CallFails, GivenUp
  <2>3. UNCHANGED <<tables, acknowledged, presses, keys, told>>
    BY <1>10 DEF CallFails
  <2>4. QED
    BY <1>3, <2>1, <2>2, <2>3
<1>11. QED
  BY <1>1, <1>6, <1>7, <1>8, <1>9, <1>10

\* A press of Escalate, and of a capacity incident's row: not about a case.
Aside(n) ==
    /\ DOMAIN n = CallFields /\ n.press = presses + 1 /\ n.by = Me /\ n.stage = "sent"
    /\ n.kind \in {"preview", "escalate", "sequence"}

LEMMA AsideKeeps ==
    ASSUME AnswerInv, PaneInv', UNCHANGED <<tables, acknowledged, tasks, keys, told>>,
           \/ presses' = presses /\ \A d \in calls' : \E c \in calls : GivenUp(c, d)
           \/ presses' = presses + 1 /\ \E n : Aside(n) /\ calls' = calls \cup {n}
    PROVE  AnswerInv'
<1>1. CASE presses' = presses /\ \A d \in calls' : \E c \in calls : GivenUp(c, d)
  <2>1. HandlersGoOn
    BY HandlersStep, TasksShaped
  <2>2. QED
    BY <1>1, <2>1, ConsoleKeeps
<1>2. ASSUME NEW n, Aside(n), presses' = presses + 1, calls' = calls \cup {n}
      PROVE  AnswerInv'
  <2>1. /\ DOMAIN n = CallFields /\ n.press = presses + 1 /\ n.by = Me /\ n.stage = "sent"
        /\ ~ OfCase(n)
    BY <1>2 DEF Aside, OfCase, CaseKind
  <2>2. RowsShaped' /\ UNCHANGED <<escalation, acknowledged, stored, told>>
    BY DEF AnswerInv, RowsShaped, tables
  <2>3. QED
    BY <1>2, <2>1, <2>2, PressKeeps
<1>3. QED
  BY <1>1, <1>2

LEMMA DialogKeeps ==
    ASSUME AnswerInv, PaneInv', DialogStep
    PROVE  AnswerInv'
<1>1. UNCHANGED <<tables, acknowledged, tasks, keys, told>>
  BY DEF DialogStep, OpenEscalate, CloseEscalate, Edit, Submit, SubmitLands, SubmitFails, dialogAlone
<1>2. CASE OpenEscalate \/ CloseEscalate \/ \E r \in Reason : Edit(r)
  BY <1>1, <1>2, AsideKeeps DEF OpenEscalate, CloseEscalate, Edit, Click, GivenUp
<1>3. CASE Submit
  <2> DEFINE kind == IF Confirming THEN "escalate" ELSE "preview"
             n == [Call(kind, Me, dialog.at, None, presses + 1) EXCEPT !.reason = dialog.draft]
  <2>1. presses' = presses + 1 /\ calls' = calls \cup {n}
    BY <1>3 DEF Submit
  <2>2. kind \in {"preview", "escalate"}
    OBVIOUS
  <2>3. Aside(n)
    <3> HIDE DEF kind
    <3>1. QED
      BY <2>2 DEF Aside, Call
  <2> HIDE DEF n
  <2>4. QED
    BY <1>1, <2>1, <2>3, AsideKeeps
<1>4. ASSUME NEW c \in calls, SubmitLands(c) \/ SubmitFails(c)
      PROVE  AnswerInv'
  <2>1. presses' = presses /\ \A d \in calls' : \E b \in calls : GivenUp(b, d)
    BY <1>4 DEF SubmitLands, SubmitFails, GivenUp
  <2>2. QED
    BY <1>1, <2>1, AsideKeeps
<1>5. QED
  BY <1>2, <1>3, <1>4 DEF DialogStep

LEMMA ServerKeeps ==
    ASSUME AnswerInv, RowsStep, PaneInv', ServerStep
    PROVE  AnswerInv'
<1>1. ASSUME NEW c \in calls, Serve(c), UNCHANGED client
      PROVE  AnswerInv'
  BY <1>1, ServeKeeps
<1>2. ASSUME Midnight \/ \E t, r : OthersRaise(t, r), UNCHANGED client
      PROVE  AnswerInv'
  <2>1. /\ UNCHANGED <<calls, stored, acknowledged, tasks, keys, told>>
        /\ presses' = presses
    BY <1>2 DEF OthersRaise, Midnight, tables, client
  <2>2. OpenIsNobodys' /\ RowsShaped'
    BY <2>1, OpenStaysNobodys DEF AnswerInv, RowsStep
  <2>3. \A d \in calls' : \E c \in calls :
            Follows(c, d) /\ (Says(d) => Says(c) \/ acknowledged'[d.at] = Me)
    <3>1. \A d \in calls : Follows(d, d)
      BY GoesOn DEF AnswerInv, CallsNumbered, IsCall
    <3>2. QED
      BY <2>1, <3>1
  <2>4. \A u \in tasks' : DOMAIN u = TaskFields /\ \E t2 \in tasks :
            u.press = t2.press /\ u.at = t2.at /\ u.kind = t2.kind
    BY <2>1, TasksShaped
  <2>5. /\ \A a \in DOMAIN keys' : a \in DOMAIN keys /\ keys'[a] = keys[a]
        /\ \A e \in Escalation : acknowledged[e] = Me => acknowledged'[e] = Me
        /\ \A k \in DOMAIN stored' : stored'[k] = "ACKNOWLEDGED" =>
               k \in DOMAIN stored /\ stored[k] = "ACKNOWLEDGED"
        /\ \A e \in told' : e \in told
    BY <2>1
  <2>6. QED
    BY <2>1, <2>2, <2>3, <2>4, <2>5, CarryOver
<1>3. ASSUME NEW u, NEW kind, NEW e \in Escalation, OthersCall(u, kind, e), UNCHANGED client
      PROVE  AnswerInv'
  <2> DEFINE n == Call(kind, u, e, None, 0)
  <2>1. calls' = calls \cup {n} /\ UNCHANGED <<tables, acknowledged, tasks, keys, told, presses>>
    BY <1>3 DEF OthersCall, client
  <2>2. Foreign(n)
    BY DEF Foreign, Call
  <2> HIDE DEF n
  <2>3. \A d \in calls' : Foreign(d) \/ \E c \in calls : GivenUp(c, d)
    BY <2>1, <2>2 DEF GivenUp
  <2>4. HandlersGoOn
    BY <2>1, HandlersStep, TasksShaped
  <2>5. QED
    BY <2>1, <2>3, <2>4, ConsoleKeeps
<1>4. QED
  BY <1>1, <1>2, <1>3 DEF ServerStep, OthersStep

\* The card and the incidents' rows.
LEMMA BesideKeeps ==
    ASSUME AnswerInv, RowsShaped', PaneInv',
           \/ \E f \in fetches : FetchAnswers(f) \/ FetchLands(f) \/ FetchFails(f)
           \/ \E e \in DOMAIN rows : RequestProposal(e)
           \/ \E c \in calls : RequestSequencerProposal(c) \/ ProposalLands(c) \/ ProposalFails(c)
           \/ PlannerActs \/ UNCHANGED allVars
    PROVE  AnswerInv'
<1>1. CASE \/ \E f \in fetches : FetchAnswers(f) \/ FetchLands(f) \/ FetchFails(f)
           \/ PlannerActs \/ UNCHANGED allVars
  <2>1. UNCHANGED <<tables, calls, acknowledged, tasks, keys, told, presses>>
    BY <1>1 DEF FetchAnswers, FetchLands, FetchFails, PlannerActs, allVars, vars, service, client
  <2>2. QED
    BY <2>1, AsideKeeps DEF GivenUp
<1>2. ASSUME NEW e, RequestProposal(e)
      PROVE  AnswerInv'
  <2> DEFINE n == Call("sequence", Me, e, None, presses + 1)
  <2>1. /\ presses' = presses + 1 /\ calls' = calls \cup {n}
        /\ UNCHANGED <<tables, acknowledged, tasks, keys, told>>
    BY <1>2 DEF RequestProposal
  <2>2. Aside(n)
    BY DEF Aside, Call
  <2> HIDE DEF n
  <2>3. QED
    BY <2>1, <2>2, AsideKeeps
<1>3. ASSUME NEW c \in calls, ProposalLands(c) \/ ProposalFails(c)
      PROVE  AnswerInv'
  <2>1. /\ presses' = presses /\ \A d \in calls' : \E b \in calls : GivenUp(b, d)
        /\ UNCHANGED <<tables, acknowledged, tasks, keys, told>>
    BY <1>3 DEF ProposalLands, ProposalFails, rowAlone, client, GivenUp
  <2>2. QED
    BY <2>1, AsideKeeps
<1>4. ASSUME NEW c \in calls, RequestSequencerProposal(c)
      PROVE  AnswerInv'
  <2>1. \E code : code # "ACKNOWLEDGED" /\ AnswerAs(c, code, FALSE, FALSE)
    BY <1>4 DEF RequestSequencerProposal, Answer
  <2>2. UNCHANGED <<tables, acknowledged>> /\ UNCHANGED client
    BY <1>4 DEF RequestSequencerProposal
  <2>3. OpenIsNobodys' /\ stored' = stored
    BY <2>2 DEF AnswerInv, OpenIsNobodys, tables
  <2>4. QED
    BY <2>1, <2>2, <2>3, ServiceKeeps
<1>5. QED
  BY <1>1, <1>2, <1>3, <1>4

LEMMA AnswersStart == ASSUME CopilotInit PROVE AnswerInv
<1>1. /\ calls = {} /\ presses = 0 /\ tasks = {} /\ told = {}
      /\ keys = [a \in {} |-> None] /\ stored = [k \in {} |-> None]
      /\ acknowledged = [e \in Escalation |-> None]
      /\ pane = [selected |-> None, change |-> None, dismissed |-> None, already |-> None]
  BY DEF CopilotInit, Init, ServiceInit
<1>2. RowsShaped /\ PaneInv
  BY <1>1, RowsStart DEF PaneInv
<1>3. CallsNumbered /\ TasksNumbered /\ KeysNumbered /\ OneCasePerKey
  BY <1>1 DEF CallsNumbered, TasksNumbered, KeysNumbered, OneCasePerKey
<1>4. StoredIsTrue /\ AnswersAreTrue /\ OpenIsNobodys /\ ToldInv
  BY <1>1 DEF StoredIsTrue, AnswersAreTrue, OpenIsNobodys, ToldInv, AcknowledgedAsTold
<1>5. QED
  BY <1>2, <1>3, <1>4 DEF AnswerInv

LEMMA AnswersStay ==
    ASSUME AnswerInv, [CopilotNext]_allVars
    PROVE  AnswerInv'
<1>1. RowsStep /\ RowsShaped' /\ PaneInv'
  BY EveryRowsStep, EveryPaneStep DEF AnswerInv, RowsStep
<1>2. CASE Next
  BY <1>1, <1>2, ServerKeeps, ReadKeeps, DeskKeeps, TaskKeeps, DialogKeeps DEF Next
<1>3. QED
  BY <1>1, <1>2, BesideKeeps DEF CopilotNext, ConsoleStep

\* A coordinator who is told that he acknowledged a case did: of two who press
\* at once one is refused, and a press repeated under its key after a lost
\* answer is told what became of that case and of no other (acknowledge's
\* guarded UPDATE, lookup_idempotency, keyFor).
THEOREM ToldHeAcknowledged == CopilotSpec => []AcknowledgedAsTold
<1>1. CopilotInit => AnswerInv
  BY AnswersStart
<1>2. AnswerInv /\ [CopilotNext]_allVars => AnswerInv'
  BY AnswersStay
<1>3. AnswerInv => AcknowledgedAsTold
  BY DEF AnswerInv, ToldInv
<1>4. QED
  BY <1>1, <1>2, <1>3, PTL DEF CopilotSpec
-----------------------------------------------------------------------------
(* What a step does to calls, handlers and keys, whichever it is.           *)

IsPosted(k) == \E j \in DOMAIN posted : posted[j].key = k

SameCall(c, d) ==
    /\ DOMAIN d = CallFields
    /\ d.kind = c.kind /\ d.at = c.at /\ d.thread = c.thread /\ d.key = c.key /\ d.press = c.press

\* What the server answers: a post is done or known, a proposal was handed on.
AnsweredWell(c, code) ==
    /\ c.kind = "post" /\ code \notin {"NOT_TAKEN_OVER", "FAILED"} => IsPosted(c.key)' \/ Known(c)
    /\ c.kind = "sequence" /\ c.key = None /\ code = "PROPOSED" => c.at \in handed'

Passes(c, d) ==
    /\ SameCall(c, d)
    /\ d.stage = "answered" => (c.stage = "answered" /\ d.code = c.code) \/ AnsweredWell(c, d.code)

FromOthers(d) ==
    /\ DOMAIN d = CallFields /\ d.stage = "sent"
    /\ d.press = 0 /\ d.key = None /\ d.kind \in OthersKind /\ d.at \in Escalation /\ Exists(d.at)
FromRecover(d) ==
    /\ DOMAIN d = CallFields /\ d.stage = "sent"
    /\ d.kind = "handback" /\ d.key = None
    /\ \E t \in tasks : t.kind = "recover" /\ d.press = t.press /\ d.at = t.at

CallsPass == \A d \in calls' : FromOthers(d) \/ FromRecover(d) \/ \E c \in calls : Passes(c, d)

SameTask(t, u) == u.press = t.press /\ u.at = t.at /\ u.kind = t.kind /\ u.key = t.key
TasksPass == \A u \in tasks' : \E t \in tasks : SameTask(t, u)
KeysPass == \A a \in DOMAIN keys' : a \in DOMAIN keys /\ keys'[a] = keys[a]

Quiet == presses' = presses /\ CallsPass /\ TasksPass /\ KeysPass

PressOf(n) ==
    /\ presses' = presses + 1 /\ calls' = calls \cup {n}
    /\ DOMAIN n = CallFields /\ n.press = presses + 1 /\ n.stage = "sent"
TaskOf(n) ==
    \E u : /\ tasks' = tasks \cup {u}
           /\ u.press = presses + 1 /\ u.at = n.at
           /\ u.kind = "post" <=> n.kind = "post"
           /\ u.kind = "post" => u.key = n.key

CasePressed(n) ==
    /\ PressOf(n) /\ TaskOf(n)
    /\ n.kind \in CaseKind /\ HasRow /\ n.at = pane.selected
    /\ n.key \in {None, presses + 1} \/ \E a \in DOMAIN keys : keys[a] = n.key
    /\ \A a \in DOMAIN keys' : \/ a \in DOMAIN keys /\ keys'[a] = keys[a]
                               \/ keys'[a] = presses + 1 /\ n.key = presses + 1
PostPressed(n) ==
    /\ PressOf(n) /\ TaskOf(n) /\ keys' = keys
    /\ n.kind = "post" /\ HasRow /\ n.at = pane.selected
    /\ n.key = presses + 1 \/ \E i \in DOMAIN talk.pending : talk.pending[i].key = n.key
RaisePressed(n) ==
    /\ PressOf(n) /\ UNCHANGED <<keys, tasks>>
    /\ n.kind \in {"preview", "escalate"} /\ dialog.open
    /\ n.at = dialog.at /\ n.thread = escalation[dialog.at].thread
ProposalPressed(n) ==
    /\ PressOf(n) /\ UNCHANGED <<keys, tasks>>
    /\ n.kind = "sequence" /\ n.key = None /\ RequestProposal(n.at)

LEMMA CallIs ==
    ASSUME NEW kind, NEW by, NEW e, NEW key, NEW press
    PROVE  LET n == Call(kind, by, e, key, press)
           IN  /\ DOMAIN n = CallFields
               /\ n.kind = kind /\ n.by = by /\ n.at = e /\ n.key = key /\ n.press = press
               /\ n.stage = "sent" /\ n.thread = escalation[e].thread
BY DEF Call

LEMMA PassesOn ==
    ASSUME NEW c, DOMAIN c = CallFields
    PROVE  /\ Passes(c, c)
           /\ Passes(c, [c EXCEPT !.stage = "checked"])
           /\ Passes(c, [c EXCEPT !.waited = FALSE])
BY DEF Passes, SameCall

LEMMA AnsweredPasses ==
    ASSUME NEW c \in calls, DOMAIN c = CallFields, NEW code, NEW delivered, NEW replay,
           AnswerAs(c, code, delivered, replay), AnsweredWell(c, code)
    PROVE  \A d \in calls' : d \in calls \/ Passes(c, d)
<1> DEFINE a == [c EXCEPT !.stage = "answered", !.code = code,
                          !.delivered = delivered, !.replay = replay]
<1>1. \A d \in calls' : d \in calls \/ d = a
  BY DEF AnswerAs
<1>2. SameCall(c, a) /\ a.code = code
  BY DEF SameCall
<1> HIDE DEF a
<1>3. Passes(c, a)
  BY <1>2 DEF Passes
<1>4. QED
  BY <1>1, <1>3

LEMMA ServedPasses ==
    ASSUME NEW c \in calls, DOMAIN c = CallFields, Serve(c) \/ RequestSequencerProposal(c)
    PROVE  \A d \in calls' : d \in calls \/ Passes(c, d)
<1>1. ASSUME NEW code, \E delivered : Answer(c, code, delivered), AnsweredWell(c, code)
      PROVE  \A d \in calls' : d \in calls \/ Passes(c, d)
  BY <1>1, AnsweredPasses DEF Answer
<1>2. ASSUME Checked(c)
      PROVE  \A d \in calls' : d \in calls \/ Passes(c, d)
  <2> DEFINE a == [c EXCEPT !.stage = "checked"]
  <2>1. Passes(c, a)
    BY PassesOn
  <2> HIDE DEF a
  <2>2. \A d \in calls' : d \in calls \/ d = a
    BY <1>2 DEF Checked, a
  <2>3. QED
    BY <2>1, <2>2
<1>3. ASSUME NEW code, Refuse(c, code), c.kind \notin {"post", "sequence"} \/ code = "NOT_TAKEN_OVER"
      PROVE  \A d \in calls' : d \in calls \/ Passes(c, d)
  <2>1. AnsweredWell(c, code)
    BY <1>3 DEF AnsweredWell
  <2>2. QED
    BY <1>1, <1>3, <2>1 DEF Refuse
<1>4. CASE Replay(c)
  <2> DEFINE code == stored[c.key]
  <2>1. AnswerAs(c, code, FALSE, TRUE) /\ Known(c)
    BY <1>4 DEF Replay
  <2>2. AnsweredWell(c, code)
    BY <2>1 DEF AnsweredWell, Known
  <2> HIDE DEF code
  <2>3. QED
    BY <2>1, <2>2, AnsweredPasses
<1>5. CASE \/ AcknowledgeEscalation(c) \/ ResolveEscalation(c) \/ CancelEscalation(c)
           \/ ReassignEscalation(c) \/ Preview(c) \/ EscalateException(c)
  <2>1. c.kind \notin {"post", "sequence"}
    BY <1>5 DEF AcknowledgeEscalation, ResolveEscalation, CancelEscalation, ReassignEscalation,
                Preview, EscalateException, Close, Fresh
  <2>2. \E code : (\E delivered : Answer(c, code, delivered)) /\ AnsweredWell(c, code)
    BY <1>5, <2>1 DEF AcknowledgeEscalation, ResolveEscalation, CancelEscalation, ReassignEscalation,
                Preview, EscalateException, Close, Refuse, AnsweredWell
  <2>3. QED
    BY <1>1, <2>2
<1>6. CASE CheckStart(c) \/ CheckTakeOver(c) \/ CheckHandBack(c)
  <2>1. c.kind \notin {"post", "sequence"}
    BY <1>6 DEF CheckStart, CheckTakeOver, CheckHandBack, Fresh
  <2>2. Checked(c) \/ \E code : Refuse(c, code)
    BY <1>6 DEF CheckStart, CheckTakeOver, CheckHandBack
  <2>3. QED
    BY <1>2, <1>3, <2>1, <2>2
<1>7. CASE CheckPost(c)
  BY <1>2, <1>3, <1>7 DEF CheckPost
<1>8. CASE StartEscalationWork(c) \/ TakeOverThread(c) \/ HandBackThread(c)
  <2>1. c.kind \notin {"post", "sequence"}
    BY <1>8 DEF StartEscalationWork, TakeOverThread, HandBackThread
  <2>2. \E code : (\E delivered : Answer(c, code, delivered)) /\ AnsweredWell(c, code)
    BY <1>8, <2>1 DEF StartEscalationWork, TakeOverThread, HandBackThread, AnsweredWell
  <2>3. QED
    BY <1>1, <2>2
<1>9. CASE PostOperationsMessage(c)
  <2>1. CASE \E i \in DOMAIN posted : posted[i].key = c.key
    <3>1. Answer(c, "FAILED", FALSE) /\ c.kind = "post"
      BY <1>9, <2>1 DEF PostOperationsMessage
    <3>2. AnsweredWell(c, "FAILED")
      BY <3>1 DEF AnsweredWell
    <3>3. QED
      BY <1>1, <3>1, <3>2
  <2>2. CASE ~ \E i \in DOMAIN posted : posted[i].key = c.key
    <3>1. /\ posted' = Append(posted, [thread |-> c.thread, key |-> c.key])
          /\ \E delivered : Answer(c, "POSTED", delivered)
          /\ c.kind = "post"
      BY <1>9, <2>2 DEF PostOperationsMessage
    <3>2. posted'[Len(posted) + 1].key = c.key /\ Len(posted) + 1 \in DOMAIN posted'
      BY <3>1
    <3>3. QED
      BY <1>1, <3>1, <3>2 DEF AnsweredWell, IsPosted
  <2>3. QED
    BY <2>1, <2>2
<1>10. CASE RequestSequencerProposal(c)
  <2>1. PICK code : /\ Answer(c, code, FALSE)
                    /\ handed' = IF code = "PROPOSED" THEN handed \cup {c.at} ELSE handed
    BY <1>10 DEF RequestSequencerProposal
  <2>2. AnsweredWell(c, code)
    BY <1>10, <2>1 DEF AnsweredWell, RequestSequencerProposal, Fresh
  <2>3. QED
    BY <1>1, <2>1, <2>2
<1>11. QED
  BY <1>4, <1>5, <1>6, <1>7, <1>8, <1>9, <1>10 DEF Serve

LEMMA TasksGoOn ==
    ASSUME \A t \in tasks : DOMAIN t = TaskFields
    PROVE  /\ tasks' = tasks => TasksPass
           /\ \A t \in tasks : Done(t) => TasksPass
           /\ \A t \in tasks, stage \in {"load", "thread"} : Proceed(t, stage) => TasksPass
           /\ \A t \in tasks, thenThread \in BOOLEAN :
                  tasks' = (tasks \ {t}) \cup
                               {[t EXCEPT !.stage = "load", !.thenThread = thenThread]}
                  => TasksPass
<1>1. \A t \in tasks : SameTask(t, t)
  BY DEF SameTask
<1>2. ASSUME NEW t \in tasks, NEW u, SameTask(t, u), tasks' = (tasks \ {t}) \cup {u}
      PROVE  TasksPass
  BY <1>1, <1>2 DEF TasksPass
<1>3. ASSUME NEW t \in tasks, NEW stage
      PROVE  SameTask(t, [t EXCEPT !.stage = stage])
  BY DEF SameTask, TaskFields
<1>4. ASSUME NEW t \in tasks, NEW thenThread
      PROVE  SameTask(t, [t EXCEPT !.stage = "load", !.thenThread = thenThread])
  BY DEF SameTask, TaskFields
<1>5. QED
  BY <1>1, <1>2, <1>3, <1>4 DEF TasksPass, Done, Proceed

LEMMA CallsShaped == ASSUME AnswerInv PROVE \A c \in calls : DOMAIN c = CallFields
BY DEF AnswerInv, CallsNumbered, IsCall

LEMMA QuietIs ==
    ASSUME AnswerInv, presses' = presses, TasksPass, KeysPass,
           \A d \in calls' : FromOthers(d) \/ FromRecover(d) \/ \E c \in calls : GivenUp(c, d)
    PROVE  Quiet
<1>1. ASSUME NEW c \in calls, NEW d, GivenUp(c, d)
      PROVE  Passes(c, d)
  <2>1. CASE d = c
    BY <2>1, CallsShaped, PassesOn
  <2>2. CASE d = [c EXCEPT !.waited = FALSE]
    BY <2>2, CallsShaped, PassesOn
  <2>3. QED
    BY <1>1, <2>1, <2>2 DEF GivenUp
<1>2. QED
  BY <1>1 DEF Quiet, CallsPass

LEMMA ServerIsQuiet ==
    ASSUME AnswerInv, UNCHANGED client,
           \/ OthersStep(Me) \/ Midnight
           \/ \E c \in calls : Serve(c) \/ RequestSequencerProposal(c)
    PROVE  Quiet
<1>1. presses' = presses /\ TasksPass /\ KeysPass
  BY TasksShaped, TasksGoOn DEF client, KeysPass
<1>2. CASE Midnight \/ \E t \in Thread, r \in Reason : OthersRaise(t, r)
  BY <1>1, <1>2, QuietIs DEF Midnight, OthersRaise, GivenUp
<1>3. ASSUME NEW u \in User \ {Me}, NEW kind \in OthersKind, NEW e \in Escalation,
             OthersCall(u, kind, e)
      PROVE  Quiet
  <2> DEFINE n == Call(kind, u, e, None, 0)
  <2>1. calls' = calls \cup {n} /\ Exists(e)
    BY <1>3 DEF OthersCall
  <2>2. /\ DOMAIN n = CallFields /\ n.kind = kind /\ n.at = e
        /\ n.press = 0 /\ n.key = None /\ n.stage = "sent"
    BY CallIs
  <2> HIDE DEF n
  <2>3. FromOthers(n)
    BY <2>1, <2>2 DEF FromOthers
  <2>4. QED
    BY <1>1, <2>1, <2>3, QuietIs DEF GivenUp
<1>4. ASSUME NEW c \in calls, Serve(c) \/ RequestSequencerProposal(c)
      PROVE  Quiet
  <2>1. \A d \in calls' : d \in calls \/ Passes(c, d)
    BY <1>4, CallsShaped, ServedPasses
  <2>2. \A d \in calls : Passes(d, d)
    BY CallsShaped, PassesOn
  <2>3. QED
    BY <1>1, <2>1, <2>2 DEF Quiet, CallsPass
<1>5. QED
  BY <1>2, <1>3, <1>4 DEF OthersStep

LEMMA ReadIsQuiet == ASSUME AnswerInv, ReadStep PROVE Quiet
<1>1. UNCHANGED <<calls, keys, presses>>
  BY DEF ReadStep, PollTick, PollAnswered, PollFails, PollLands, QueueAnswers, QueueLands,
         QueueFails, RetryQueue, ThreadRead, awaiting, service
<1>2. TasksPass
  <2>1. ASSUME NEW l, NEW v, NEW p, AfterLoad(l, v, p)
        PROVE  TasksPass
    <3>1. UNCHANGED tasks \/ \E t \in tasks : Done(t) \/ Proceed(t, "thread")
      BY <2>1 DEF AfterLoad
    <3>2. QED
      BY <3>1, TasksGoOn, TasksShaped
  <2>2. ASSUME NEW l, QueueLands(l) \/ QueueFails(l)
        PROVE  TasksPass
    BY <2>1, <2>2 DEF QueueLands, QueueFails
  <2>3. ASSUME NEW t \in tasks, ThreadRead(t)
        PROVE  TasksPass
    BY <2>3, TasksGoOn, TasksShaped DEF ThreadRead
  <2>4. ASSUME \/ PollTick \/ PollAnswered \/ PollFails \/ PollLands \/ RetryQueue
               \/ \E l \in loads : QueueAnswers(l)
        PROVE  UNCHANGED tasks
    BY <2>4 DEF PollTick, PollAnswered, PollFails, PollLands, RetryQueue, QueueAnswers
  <2>5. QED
    BY <2>2, <2>3, <2>4, TasksGoOn, TasksShaped DEF ReadStep
<1>3. QED
  BY <1>1, <1>2, QuietIs DEF KeysPass, GivenUp

LEMMA CaseIsPressed ==
    ASSUME AnswerInv, NEW kind \in Kinds, Press(kind)
    PROVE  \E n : CasePressed(n)
<1> DEFINE e == pane.selected
           action == ActionOf(kind, e)
           key == IF kind = "handback" THEN None ELSE KeyFor(action)
           as == IF kind = "recover" THEN "start" ELSE kind
           n == Call(as, Me, e, key, presses + 1)
           u == [kind |-> kind, at |-> e, thread |-> Selected.thread, key |-> key,
                 press |-> presses + 1, stage |-> "call", thenThread |-> FALSE]
<1>1. /\ presses' = presses + 1 /\ calls' = calls \cup {n} /\ tasks' = tasks \cup {u}
      /\ keys' = IF key = None THEN keys ELSE Keeping(action, key)
      /\ HasRow
  BY DEF Press, Leaves
<1>2. kind \in CaseKind \cup {"recover"} /\ as \in CaseKind
  BY DEF Kinds, CaseKind
<1>3. key \in {None, presses + 1} \/ (action \in DOMAIN keys /\ keys[action] = key)
  BY DEF KeyFor
<1>4. /\ DOMAIN n = CallFields /\ n.kind = as /\ n.at = e /\ n.key = key
      /\ n.press = presses + 1 /\ n.stage = "sent"
  BY CallIs
<1>5. u.press = presses + 1 /\ u.at = e /\ u.kind = kind
  OBVIOUS
<1> HIDE DEF e, action, key, as, n, u
<1>6. \A a \in DOMAIN keys' : \/ a \in DOMAIN keys /\ keys'[a] = keys[a]
                              \/ keys'[a] = presses + 1 /\ n.key = presses + 1
  BY <1>1, <1>3, <1>4 DEF Keeping
<1>7. as # "post" /\ kind # "post"
  BY <1>2 DEF CaseKind
<1>8. PressOf(n)
  BY <1>1, <1>4 DEF PressOf
<1>9. TaskOf(n)
  BY <1>1, <1>4, <1>5, <1>7 DEF TaskOf
<1>10. n.key \in {None, presses + 1} \/ \E a \in DOMAIN keys : keys[a] = n.key
  BY <1>3, <1>4
<1>11. CasePressed(n)
  BY <1>1, <1>2, <1>4, <1>6, <1>8, <1>9, <1>10 DEF CasePressed, e
<1>12. QED
  BY <1>11

LEMMA PostIsPressed ==
    ASSUME NEW key, SendWithKey(key), HasRow,
           key = presses + 1 \/ \E i \in DOMAIN talk.pending : talk.pending[i].key = key
    PROVE  \E n : PostPressed(n) /\ n.key = key
<1> DEFINE e == pane.selected
           n == Call("post", Me, e, key, presses + 1)
           u == [kind |-> "post", at |-> e, thread |-> Selected.thread, key |-> key,
                 press |-> presses + 1, stage |-> "call", thenThread |-> FALSE]
<1>1. /\ presses' = presses + 1 /\ calls' = calls \cup {n} /\ tasks' = tasks \cup {u}
      /\ keys' = keys
  BY DEF SendWithKey, Leaves
<1>2. /\ DOMAIN n = CallFields /\ n.kind = "post" /\ n.at = e /\ n.key = key
      /\ n.press = presses + 1 /\ n.stage = "sent"
  BY CallIs
<1>3. u.press = presses + 1 /\ u.at = e /\ u.kind = "post" /\ u.key = key
  OBVIOUS
<1> HIDE DEF n, u
<1>4. PressOf(n)
  BY <1>1, <1>2 DEF PressOf
<1>5. TaskOf(n)
  BY <1>1, <1>2, <1>3 DEF TaskOf
<1>6. PostPressed(n)
  BY <1>1, <1>2, <1>4, <1>5 DEF PostPressed
<1>7. QED
  BY <1>2, <1>6

LEMMA DeskSteps ==
    ASSUME AnswerInv, DeskStep
    PROVE  Quiet \/ \E n : CasePressed(n) \/ PostPressed(n)
<1>1. ASSUME NEW kind \in Kinds, Press(kind)
      PROVE  \E n : CasePressed(n)
  BY <1>1, CaseIsPressed
<1>2. CASE HandleSendMessage
  BY <1>2, PostIsPressed DEF HandleSendMessage
<1>3. ASSUME NEW i \in DOMAIN talk.pending, HandleRetryPending(i)
      PROVE  \E n : PostPressed(n)
  BY <1>3, PostIsPressed DEF HandleRetryPending
<1>4. CASE \/ (\E e \in Escalation : Select(e)) \/ FocusOrBlur \/ ApplyArrivals
           \/ DismissLiveChange \/ DismissTakeoverNotice
           \/ (\E i \in DOMAIN talk.pending : HandleDiscardPending(i))
  <2>1. UNCHANGED <<calls, tasks, keys, presses>>
    BY <1>4 DEF Select, FocusOrBlur, ApplyArrivals, DismissLiveChange, DismissTakeoverNotice,
                HandleDiscardPending, service
  <2>2. TasksPass /\ KeysPass /\ \A c : GivenUp(c, c)
    BY <2>1, TasksGoOn, TasksShaped DEF KeysPass, GivenUp
  <2>3. QED
    BY <2>1, <2>2, QuietIs
<1>5. QED
  BY <1>1, <1>2, <1>3, <1>4 DEF DeskStep

LEMMA TaskIsQuiet == ASSUME AnswerInv, TaskStep PROVE Quiet
<1>1. PICK t \in tasks, c \in calls :
          \/ CaseActionLands(t, c) \/ TakeOverLands(t, c) \/ HandBackLands(t, c)
          \/ RecoverStarted(t, c) \/ PostLands(t, c) \/ CallFails(t, c)
  BY DEF TaskStep
<1>2. ASSUME presses' = presses, TasksPass,
             \A d \in calls' : FromRecover(d) \/ \E b \in calls : GivenUp(b, d),
             keys' = keys \/ \E action : keys' = Without(action)
      PROVE  Quiet
  <2>1. KeysPass
    BY <1>2 DEF KeysPass, Without
  <2>2. QED
    BY <1>2, <2>1, QuietIs
<1>3. ASSUME NEW p, NEW notice, NEW thenThread \in BOOLEAN, ThenLoad(t, p, notice, thenThread)
      PROVE  TasksPass /\ presses' = presses
  BY <1>3, TasksGoOn, TasksShaped DEF ThenLoad
<1>4. calls' = calls \ {c} => \A d \in calls' : \E b \in calls : GivenUp(b, d)
  BY DEF GivenUp
<1>5. CASE CaseActionLands(t, c) \/ TakeOverLands(t, c) \/ HandBackLands(t, c)
  <2>1. TasksPass /\ presses' = presses
    BY <1>3, <1>5 DEF CaseActionLands, TakeOverLands, HandBackLands
  <2>2. calls' = calls \ {c} /\ (keys' = keys \/ keys' = Without(ActionOf(t.kind, t.at)))
    BY <1>5 DEF CaseActionLands, TakeOverLands, HandBackLands, Handled
  <2>3. QED
    BY <1>2, <1>4, <2>1, <2>2
<1>6. CASE RecoverStarted(t, c)
  <2>1. keys' = Without(ActionOf(t.kind, t.at)) /\ t.kind = "recover"
    BY <1>6 DEF RecoverStarted
  <2>2. CASE c.code \in {"NOT_OWNER", "NOT_ACKNOWLEDGED"}
    <3>1. TasksPass /\ presses' = presses /\ calls' = calls \ {c}
      BY <1>3, <1>6, <2>2 DEF RecoverStarted
    <3>2. QED
      BY <1>2, <1>4, <2>1, <3>1
  <2>3. CASE c.code \notin {"NOT_OWNER", "NOT_ACKNOWLEDGED"}
    <3> DEFINE n == Call("handback", Me, t.at, None, t.press)
    <3>1. calls' = (calls \ {c}) \cup {n} /\ UNCHANGED <<presses, tasks>>
      BY <1>6, <2>3 DEF RecoverStarted
    <3>2. /\ DOMAIN n = CallFields /\ n.kind = "handback" /\ n.at = t.at /\ n.key = None
          /\ n.press = t.press /\ n.stage = "sent"
      BY CallIs
    <3> HIDE DEF n
    <3>3. FromRecover(n)
      BY <2>1, <3>2 DEF FromRecover
    <3>4. \A d \in calls' : FromRecover(d) \/ \E b \in calls : GivenUp(b, d)
      BY <3>1, <3>3 DEF GivenUp
    <3>5. TasksPass
      BY <3>1, TasksGoOn, TasksShaped
    <3>6. QED
      BY <1>2, <2>1, <3>1, <3>4, <3>5
  <2>4. QED
    BY <2>2, <2>3
<1>7. CASE PostLands(t, c)
  <2>1. Done(t) \/ \E stage \in {"load", "thread"} : Proceed(t, stage)
    BY <1>7 DEF PostLands, Proceed
  <2>2. TasksPass
    BY <2>1, TasksGoOn, TasksShaped
  <2>3. calls' = calls \ {c} /\ UNCHANGED <<presses, keys>>
    BY <1>7 DEF PostLands, Handled
  <2>4. QED
    BY <1>2, <1>4, <2>2, <2>3
<1>8. CASE CallFails(t, c)
  <2>1. TasksPass
    BY <1>8, TasksGoOn, TasksShaped DEF CallFails
  <2>2. \A d \in calls' : \E b \in calls : GivenUp(b, d)
    BY <1>8 DEF CallFails, GivenUp
  <2>3. UNCHANGED <<presses, keys>>
    BY <1>8 DEF CallFails
  <2>4. QED
    BY <1>2, <2>1, <2>2, <2>3
<1>9. QED
  BY <1>1, <1>5, <1>6, <1>7, <1>8

LEMMA AsideIsQuiet ==
    ASSUME AnswerInv, UNCHANGED <<tasks, keys, presses>>,
           \A d \in calls' : \E c \in calls : GivenUp(c, d)
    PROVE  Quiet
<1>1. TasksPass /\ KeysPass
  BY TasksGoOn, TasksShaped DEF KeysPass
<1>2. QED
  BY <1>1, QuietIs

LEMMA DialogSteps ==
    ASSUME AnswerInv, DialogStep
    PROVE  Quiet \/ \E n : RaisePressed(n)
<1>1. UNCHANGED <<tasks, keys>>
  BY DEF DialogStep, OpenEscalate, CloseEscalate, Edit, Submit, SubmitLands, SubmitFails, dialogAlone
<1>2. CASE OpenEscalate \/ CloseEscalate \/ \E r \in Reason : Edit(r)
  BY <1>1, <1>2, AsideIsQuiet DEF OpenEscalate, CloseEscalate, Edit, Click, GivenUp
<1>3. CASE Submit
  <2> DEFINE kind == IF Confirming THEN "escalate" ELSE "preview"
             m == Call(kind, Me, dialog.at, None, presses + 1)
             n == [m EXCEPT !.reason = dialog.draft]
  <2>1. presses' = presses + 1 /\ calls' = calls \cup {n} /\ dialog.open
    BY <1>3 DEF Submit
  <2>2. kind \in {"preview", "escalate"}
    OBVIOUS
  <2> HIDE DEF kind
  <2>3. /\ DOMAIN m = CallFields /\ m.kind = kind /\ m.at = dialog.at
        /\ m.press = presses + 1 /\ m.stage = "sent" /\ m.thread = escalation[dialog.at].thread
    BY CallIs
  <2> HIDE DEF m
  <2>4. /\ DOMAIN n = CallFields /\ n.kind = kind /\ n.at = dialog.at
        /\ n.press = presses + 1 /\ n.stage = "sent" /\ n.thread = escalation[dialog.at].thread
    BY <2>3
  <2> HIDE DEF n
  <2>5. RaisePressed(n)
    BY <1>1, <2>1, <2>2, <2>4 DEF RaisePressed, PressOf
  <2>6. QED
    BY <2>5
<1>4. ASSUME NEW c \in calls, SubmitLands(c) \/ SubmitFails(c)
      PROVE  Quiet
  <2>1. presses' = presses /\ \A d \in calls' : \E b \in calls : GivenUp(b, d)
    BY <1>4 DEF SubmitLands, SubmitFails, GivenUp
  <2>2. QED
    BY <1>1, <2>1, AsideIsQuiet
<1>5. QED
  BY <1>2, <1>3, <1>4 DEF DialogStep

LEMMA ProposalIsPressed ==
    ASSUME NEW e, RequestProposal(e)
    PROVE  \E n : ProposalPressed(n)
<1> DEFINE n == Call("sequence", Me, e, None, presses + 1)
<1>1. presses' = presses + 1 /\ calls' = calls \cup {n} /\ UNCHANGED <<keys, tasks>>
  BY DEF RequestProposal
<1>2. /\ DOMAIN n = CallFields /\ n.kind = "sequence" /\ n.at = e /\ n.key = None
      /\ n.press = presses + 1 /\ n.stage = "sent"
  BY CallIs
<1> HIDE DEF n
<1>3. ProposalPressed(n)
  BY <1>1, <1>2 DEF ProposalPressed, PressOf
<1>4. QED
  BY <1>3

LEMMA BesideSteps ==
    ASSUME AnswerInv,
           \/ \E f \in fetches : FetchAnswers(f) \/ FetchLands(f) \/ FetchFails(f)
           \/ \E e \in DOMAIN rows : RequestProposal(e)
           \/ \E c \in calls : RequestSequencerProposal(c) \/ ProposalLands(c) \/ ProposalFails(c)
           \/ PlannerActs \/ UNCHANGED allVars
    PROVE  Quiet \/ \E n : ProposalPressed(n)
<1>1. CASE \/ \E f \in fetches : FetchAnswers(f) \/ FetchLands(f) \/ FetchFails(f)
           \/ PlannerActs \/ UNCHANGED allVars
  <2>1. UNCHANGED <<calls, tasks, keys, presses>>
    BY <1>1 DEF FetchAnswers, FetchLands, FetchFails, PlannerActs, allVars, vars, service, client
  <2>2. QED
    BY <2>1, AsideIsQuiet DEF GivenUp
<1>2. ASSUME NEW c \in calls, ProposalLands(c) \/ ProposalFails(c)
      PROVE  Quiet
  <2>1. /\ \A d \in calls' : \E b \in calls : GivenUp(b, d)
        /\ UNCHANGED <<tasks, keys, presses>>
    BY <1>2 DEF ProposalLands, ProposalFails, rowAlone, client, GivenUp
  <2>2. QED
    BY <2>1, AsideIsQuiet
<1>3. ASSUME NEW c \in calls, RequestSequencerProposal(c)
      PROVE  Quiet
  BY <1>3, ServerIsQuiet DEF RequestSequencerProposal
<1>4. QED
  BY <1>1, <1>2, <1>3, ProposalIsPressed

\* A step is quiet, or it is one press.
LEMMA EveryStep ==
    ASSUME AnswerInv, [CopilotNext]_allVars
    PROVE  \/ Quiet
           \/ \E n : CasePressed(n) \/ PostPressed(n) \/ RaisePressed(n) \/ ProposalPressed(n)
<1>1. ServerStep => Quiet
  BY ServerIsQuiet DEF ServerStep
<1>2. CASE Next
  BY <1>1, <1>2, ReadIsQuiet, DeskSteps, TaskIsQuiet, DialogSteps DEF Next
<1>3. QED
  BY <1>2, BesideSteps DEF CopilotNext, ConsoleStep
-----------------------------------------------------------------------------
(* What is open is nobody's, a case is about a thread, and calls are about  *)
(* cases there are.                                                         *)

CasesAreFit ==
    \A e \in Escalation :
        /\ escalation[e].status = "OPEN" => escalation[e].owner = None
        /\ Exists(e) => escalation[e].thread # None

AboutCases ==
    /\ \A c \in calls : /\ OfCase(c) => c.at \in Escalation /\ Exists(c.at)
                        /\ c.kind = "escalate" => c.thread # None
    /\ \A t \in tasks : t.at \in Escalation /\ Exists(t.at)

DialogIsFit ==
    /\ DOMAIN dialog = {"open", "at", "own", "draft", "preview", "press", "error"}
    /\ dialog.open => dialog.at \in Escalation /\ Exists(dialog.at)

CasesInv == CasesAreFit /\ AboutCases /\ DialogIsFit

\* What there is stays, and so does its thread; it only climbs.
Climbs(e) ==
    Exists(e) => /\ Exists(e)' /\ escalation'[e].thread = escalation[e].thread
                 /\ Position(escalation[e].status) <= Position(escalation'[e].status)

LEMMA CasesClimb == ASSUME RowsStep PROVE \A e \in Escalation : Climbs(e)
<1>1. ASSUME NEW e \in Escalation, Exists(e)
      PROVE  Climbs(e)
  <2>1. Keeps(e) /\ Moves(e)
    BY <1>1 DEF RowsStep, Opens
  <2>2. escalation'[e].thread = escalation[e].thread
    BY <2>1 DEF Keeps
  <2>3. Exists(e)'
    BY <1>1, <2>1 DEF Moves, Exists, Closed
  <2>4. Position(escalation[e].status) <= Position(escalation'[e].status)
    BY <2>1 DEF Moves, Closed, Position
  <2>5. QED
    BY <2>2, <2>3, <2>4 DEF Climbs
<1>2. QED
  BY <1>1 DEF Climbs

LEMMA FitMove ==
    ASSUME RowsShaped, CasesAreFit, NEW x \in Escalation, NEW row,
           escalation' = [escalation EXCEPT ![x] = row],
           row.status = "OPEN" => row.owner = None,
           row.status # "NONE" => row.thread # None
    PROVE  CasesAreFit'
<1>1. \A e \in Escalation : escalation'[e] = IF e = x THEN row ELSE escalation[e]
  BY DEF RowsShaped
<1>2. QED
  BY <1>1 DEF CasesAreFit, Exists

LEMMA FitStay == ASSUME CasesAreFit, UNCHANGED escalation PROVE CasesAreFit'
BY DEF CasesAreFit, Exists

LEMMA FitOpens ==
    ASSUME RowsShaped, CasesAreFit, NEW t, NEW r, NEW day, t # None,
           NEW e \in NextCase, NewCase(e, t, r, day)
    PROVE  CasesAreFit'
<1> DEFINE row == [status |-> "OPEN", owner |-> None, thread |-> t, reason |-> r, day |-> day]
<1>1. e \in Escalation /\ escalation' = [escalation EXCEPT ![e] = row]
  BY DEF NextCase, NewCase
<1>2. row.owner = None /\ row.thread # None
  OBVIOUS
<1> HIDE DEF row
<1>3. QED
  BY <1>1, <1>2, FitMove

LEMMA FitWork ==
    ASSUME RowsShaped, CasesAreFit, NEW x \in Escalation, escalation' = InProgress(x)
    PROVE  CasesAreFit'
<1>1. CASE escalation[x].status = "ACKNOWLEDGED"
  <2> DEFINE row == [escalation[x] EXCEPT !.status = "IN_PROGRESS"]
  <2>1. escalation' = [escalation EXCEPT ![x] = row]
    BY <1>1 DEF InProgress
  <2>2. row.status = "IN_PROGRESS" /\ row.thread = escalation[x].thread
    BY DEF RowsShaped
  <2>3. escalation[x].thread # None
    BY <1>1 DEF CasesAreFit, Exists
  <2> HIDE DEF row
  <2>4. QED
    BY <2>1, <2>2, <2>3, FitMove
<1>2. CASE escalation[x].status # "ACKNOWLEDGED"
  BY <1>2, FitStay DEF InProgress
<1>3. QED
  BY <1>1, <1>2

LEMMA ServeFits ==
    ASSUME RowsShaped, CasesAreFit, AboutCases, NEW c \in calls, Serve(c)
    PROVE  CasesAreFit'
<1>0. /\ OfCase(c) => c.at \in Escalation /\ Exists(c.at) /\ escalation[c.at].thread # None
      /\ c.kind = "escalate" => c.thread # None
  BY DEF AboutCases, CasesAreFit
<1>1. CASE AcknowledgeEscalation(c)
  <2>1. OfCase(c)
    BY <1>1 DEF AcknowledgeEscalation, Fresh, OfCase, CaseKind
  <2>2. CASE escalation[c.at].status = "OPEN"
    <3> DEFINE row == [escalation[c.at] EXCEPT !.status = "ACKNOWLEDGED", !.owner = c.by]
    <3>1. escalation' = [escalation EXCEPT ![c.at] = row]
      BY <1>1, <2>2 DEF AcknowledgeEscalation
    <3>2. row.status = "ACKNOWLEDGED" /\ row.thread = escalation[c.at].thread
      BY <1>0, <2>1 DEF RowsShaped
    <3> HIDE DEF row
    <3>3. QED
      BY <1>0, <2>1, <3>1, <3>2, FitMove
  <2>3. CASE escalation[c.at].status # "OPEN"
    BY <1>1, <2>3, FitStay DEF AcknowledgeEscalation, Refuse, tables
  <2>4. QED
    BY <2>2, <2>3
<1>2. ASSUME NEW kind \in CaseKind, NEW status \in Closed, Close(c, kind, status)
      PROVE  CasesAreFit'
  <2>1. OfCase(c)
    BY <1>2 DEF Close, Fresh, OfCase
  <2> DEFINE row == [escalation[c.at] EXCEPT !.status = status]
  <2>2. escalation' = [escalation EXCEPT ![c.at] = row]
    BY <1>2 DEF Close
  <2>3. row.status = status /\ row.thread = escalation[c.at].thread
    BY <1>0, <2>1 DEF RowsShaped
  <2> HIDE DEF row
  <2>4. row.status # "OPEN"
    BY <1>2, <2>3 DEF Closed
  <2>5. QED
    BY <1>0, <2>1, <2>2, <2>3, <2>4, FitMove
<1>3. CASE ResolveEscalation(c) \/ CancelEscalation(c)
  BY <1>2, <1>3 DEF ResolveEscalation, CancelEscalation, Closed, CaseKind
<1>4. CASE ReassignEscalation(c)
  <2>1. CASE escalation[c.at].owner = None
    BY <1>4, <2>1, FitStay DEF ReassignEscalation, Refuse, tables
  <2>2. ASSUME NEW u \in User, escalation[c.at].owner # None,
               escalation' = [escalation EXCEPT ![c.at].owner = u]
        PROVE  CasesAreFit'
    <3>1. CASE c.at \in Escalation
      <4> DEFINE row == [escalation[c.at] EXCEPT !.owner = u]
      <4>1. escalation' = [escalation EXCEPT ![c.at] = row]
        BY <2>2
      <4>2. row.status = escalation[c.at].status /\ row.thread = escalation[c.at].thread
        BY <3>1 DEF RowsShaped
      <4> HIDE DEF row
      <4>3. row.status # "OPEN" /\ (row.status # "NONE" => row.thread # None)
        BY <2>2, <3>1, <4>2 DEF CasesAreFit, Exists
      <4>4. QED
        BY <3>1, <4>1, <4>3, FitMove
    <3>2. CASE c.at \notin Escalation
      <4>1. \A e \in Escalation : escalation'[e] = escalation[e]
        BY <2>2, <3>2 DEF RowsShaped
      <4>2. QED
        BY <4>1 DEF CasesAreFit, Exists
    <3>3. QED
      BY <3>1, <3>2
  <2>3. QED
    BY <1>4, <2>1, <2>2 DEF ReassignEscalation
<1>5. CASE EscalateException(c)
  <2>1. CASE SameCase(c.thread, c.reason) # {}
    BY <1>5, <2>1, FitStay DEF EscalateException
  <2>2. CASE SameCase(c.thread, c.reason) = {}
    BY <1>0, <1>5, <2>2, FitOpens DEF EscalateException, Fresh
  <2>3. QED
    BY <2>1, <2>2
<1>6. CASE StartEscalationWork(c) \/ TakeOverThread(c)
  <2>1. OfCase(c)
    BY <1>6 DEF StartEscalationWork, TakeOverThread, OfCase, CaseKind
  <2>2. QED
    BY <1>0, <1>6, <2>1, FitWork DEF StartEscalationWork, TakeOverThread
<1>7. CASE \/ Replay(c) \/ Preview(c) \/ CheckStart(c) \/ CheckTakeOver(c) \/ CheckHandBack(c)
           \/ HandBackThread(c) \/ CheckPost(c) \/ PostOperationsMessage(c)
  <2>1. UNCHANGED escalation
    BY <1>7 DEF Replay, Preview, CheckStart, CheckTakeOver, CheckHandBack, HandBackThread,
                CheckPost, PostOperationsMessage, Refuse, Checked, tables
  <2>2. QED
    BY <2>1, FitStay
<1>8. QED
  BY <1>1, <1>3, <1>4, <1>5, <1>6, <1>7 DEF Serve

LEMMA CasesStayFit ==
    ASSUME AnswerInv, CasesAreFit, AboutCases, [CopilotNext]_allVars
    PROVE  CasesAreFit'
<1>1. RowsShaped
  BY DEF AnswerInv
<1>2. ASSUME NEW t \in Thread, NEW r, OthersRaise(t, r)
      PROVE  CasesAreFit'
  BY <1>1, <1>2, FitOpens, EscalationAssumption DEF OthersRaise
<1>3. ASSUME NEW u, NEW kind, NEW e, OthersCall(u, kind, e)
      PROVE  CasesAreFit'
  BY <1>3, FitStay DEF OthersCall, tables
<1>4. CASE OthersStep(Me)
  BY <1>2, <1>3, <1>4 DEF OthersStep
<1>5. CASE UNCHANGED tables
  BY <1>5, FitStay DEF tables
<1>6. QED
  BY <1>1, <1>4, <1>5, ServeFits, OnlyTheServiceWrites

LEMMA StillAboutCases ==
    ASSUME AnswerInv, CasesInv, RowsStep, [CopilotNext]_allVars,
           HasRow => pane.selected \in Escalation /\ Exists(pane.selected)
    PROVE  AboutCases'
<1>1. \A e \in Escalation : Exists(e) => Exists(e)'
  BY CasesClimb DEF Climbs
<1>2. CASE Quiet
  <2>1. ASSUME NEW d \in calls'
        PROVE  /\ OfCase(d) => d.at \in Escalation /\ Exists(d.at)'
               /\ d.kind = "escalate" => d.thread # None
    <3>1. CASE FromOthers(d)
      BY <1>1, <3>1 DEF FromOthers, OthersKind
    <3>2. CASE FromRecover(d)
      BY <1>1, <3>2 DEF FromRecover, CasesInv, AboutCases
    <3>3. ASSUME NEW c \in calls, Passes(c, d)
          PROVE  /\ OfCase(d) => d.at \in Escalation /\ Exists(d.at)'
                 /\ d.kind = "escalate" => d.thread # None
      BY <1>1, <3>3 DEF Passes, SameCall, CasesInv, AboutCases, OfCase
    <3>4. QED
      BY <1>2, <3>1, <3>2, <3>3 DEF Quiet, CallsPass
  <2>2. \A u \in tasks' : u.at \in Escalation /\ Exists(u.at)'
    BY <1>1, <1>2 DEF Quiet, TasksPass, SameTask, CasesInv, AboutCases
  <2>3. QED
    BY <2>1, <2>2 DEF AboutCases, OfCase
<1>3. ASSUME NEW n, PressOf(n), tasks' = tasks \/ (TaskOf(n) /\ n.at \in Escalation /\ Exists(n.at)),
             OfCase(n) => n.at \in Escalation /\ Exists(n.at),
             n.kind = "escalate" => n.thread # None
      PROVE  AboutCases'
  <2>1. \A d \in calls' : /\ OfCase(d) => d.at \in Escalation /\ Exists(d.at)'
                          /\ d.kind = "escalate" => d.thread # None
    BY <1>1, <1>3 DEF PressOf, CasesInv, AboutCases
  <2>2. \A u \in tasks' : u.at \in Escalation /\ Exists(u.at)'
    BY <1>1, <1>3 DEF TaskOf, CasesInv, AboutCases
  <2>3. QED
    BY <2>1, <2>2 DEF AboutCases, OfCase
<1>4. ASSUME NEW n, CasePressed(n) \/ PostPressed(n)
      PROVE  AboutCases'
  <2>1. n.kind # "escalate"
    BY <1>4 DEF CasePressed, PostPressed, CaseKind
  <2>2. QED
    BY <1>3, <1>4, <2>1 DEF CasePressed, PostPressed
<1>5. ASSUME NEW n, RaisePressed(n)
      PROVE  AboutCases'
  <2>1. ~ OfCase(n) /\ n.thread # None
    BY <1>5 DEF RaisePressed, CasesInv, DialogIsFit, CasesAreFit, OfCase, CaseKind
  <2>2. QED
    BY <1>3, <1>5, <2>1 DEF RaisePressed
<1>6. ASSUME NEW n, ProposalPressed(n)
      PROVE  AboutCases'
  <2>1. ~ OfCase(n) /\ n.kind # "escalate"
    BY <1>6 DEF ProposalPressed, OfCase, CaseKind
  <2>2. QED
    BY <1>3, <1>6, <2>1 DEF ProposalPressed
<1>7. QED
  BY <1>2, <1>4, <1>5, <1>6, EveryStep

LEMMA DialogSame ==
    ASSUME [CopilotNext]_allVars
    PROVE  dialog' = dialog \/ (DialogStep /\ UNCHANGED tables)
<1>1. ASSUME ReadStep \/ DeskStep
      PROVE  dialog' = dialog
  BY <1>1 DEF ReadStep, PollTick, PollAnswered, PollFails, PollLands, QueueAnswers, QueueLands,
       QueueFails, RetryQueue, ThreadRead, DeskStep, Select, FocusOrBlur, ApplyArrivals,
       DismissLiveChange, DismissTakeoverNotice, Press, HandleSendMessage, HandleRetryPending,
       HandleDiscardPending, SendWithKey, awaiting
<1>2. ASSUME TaskStep
      PROVE  dialog' = dialog
  <2>1. ASSUME NEW t, NEW p, NEW notice, NEW thenThread, ThenLoad(t, p, notice, thenThread)
        PROVE  dialog' = dialog
    BY <2>1 DEF ThenLoad
  <2>2. PICK t \in tasks, c \in calls :
            \/ CaseActionLands(t, c) \/ TakeOverLands(t, c) \/ HandBackLands(t, c)
            \/ RecoverStarted(t, c) \/ PostLands(t, c) \/ CallFails(t, c)
    BY <1>2 DEF TaskStep
  <2>3. CASE CaseActionLands(t, c)
    BY <2>1, <2>3 DEF CaseActionLands
  <2>4. CASE TakeOverLands(t, c)
    BY <2>1, <2>4 DEF TakeOverLands
  <2>5. CASE HandBackLands(t, c)
    BY <2>1, <2>5 DEF HandBackLands
  <2>6. CASE RecoverStarted(t, c)
    BY <2>1, <2>6 DEF RecoverStarted
  <2>7. CASE PostLands(t, c) \/ CallFails(t, c)
    BY <2>7 DEF PostLands, CallFails
  <2>8. QED
    BY <2>2, <2>3, <2>4, <2>5, <2>6, <2>7
<1>3. ASSUME ServerStep
      PROVE  dialog' = dialog
  BY <1>3 DEF ServerStep, client
<1>4. ASSUME DialogStep
      PROVE  UNCHANGED tables
  BY <1>4 DEF DialogStep, OpenEscalate, CloseEscalate, Submit, Edit, SubmitLands, SubmitFails,
              dialogAlone
<1>5. CASE \/ \E f \in fetches : FetchAnswers(f) \/ FetchLands(f) \/ FetchFails(f)
           \/ \E e \in DOMAIN rows : RequestProposal(e)
           \/ \E c \in calls : RequestSequencerProposal(c) \/ ProposalLands(c) \/ ProposalFails(c)
           \/ PlannerActs \/ UNCHANGED allVars
  BY <1>5 DEF FetchAnswers, FetchLands, FetchFails, RequestProposal, RequestSequencerProposal,
       ProposalLands, ProposalFails, PlannerActs, rowAlone, client, allVars, vars
<1>6. QED
  BY <1>1, <1>2, <1>3, <1>4, <1>5 DEF CopilotNext, ConsoleStep, Next

LEMMA DialogStaysFit ==
    ASSUME CasesInv, RowsStep, [CopilotNext]_allVars,
           HasRow => pane.selected \in Escalation /\ Exists(pane.selected)
    PROVE  DialogIsFit'
<1>1. \A e \in Escalation : Exists(e) => Exists(e)'
  BY CasesClimb DEF Climbs
<1>2. DialogIsFit
  BY DEF CasesInv
<1>3. CASE dialog' = dialog
  BY <1>1, <1>2, <1>3 DEF DialogIsFit
<1>4. CASE OpenEscalate
  BY <1>1, <1>4 DEF OpenEscalate, DialogIsFit, ClosedDialog
<1>5. ClosedDialog.open = FALSE
      /\ DOMAIN ClosedDialog = {"open", "at", "own", "draft", "preview", "press", "error"}
  BY DEF ClosedDialog
<1>6. ASSUME \/ dialog' = ClosedDialog
             \/ \E p, error : dialog' = [dialog EXCEPT !.press = p, !.error = error]
             \/ \E p, w : dialog' = [dialog EXCEPT !.press = p, !.preview = w]
             \/ \E d, w, error : dialog' = [dialog EXCEPT !.draft = d, !.preview = w, !.error = error]
      PROVE  DialogIsFit'
  <2>1. CASE dialog' = ClosedDialog
    BY <1>5, <2>1 DEF DialogIsFit
  <2>2. CASE dialog' # ClosedDialog
    <3>1. DOMAIN dialog' = DOMAIN dialog /\ dialog'.open = dialog.open /\ dialog'.at = dialog.at
      BY <1>2, <1>6, <2>2 DEF DialogIsFit
    <3>2. QED
      BY <1>1, <1>2, <3>1 DEF DialogIsFit
  <2>3. QED
    BY <2>1, <2>2
<1>7. CASE CloseEscalate \/ Submit \/ \E r \in Reason : Edit(r)
  BY <1>6, <1>7 DEF CloseEscalate, Submit, Edit
<1>8. ASSUME NEW c \in calls, SubmitLands(c) \/ SubmitFails(c)
      PROVE  DialogIsFit'
  <2>1. CASE SubmitLands(c)
    BY <1>6, <2>1 DEF SubmitLands
  <2>2. CASE SubmitFails(c)
    BY <1>6, <2>2 DEF SubmitFails
  <2>3. QED
    BY <1>8, <2>1, <2>2
<1>9. QED
  BY <1>3, <1>4, <1>7, <1>8, DialogSame DEF DialogStep
-----------------------------------------------------------------------------
(* The queue's reads are of cases there are, no further than these are now. *)

ItemIsTrue(item) ==
    /\ item.id \in Escalation /\ Exists(item.id)
    /\ item.thread = escalation[item.id].thread
    /\ Position(item.status) <= Position(escalation[item.id].status)

ItemsAreTrue(q) == (\E S : q \in Seq(S)) /\ \A i \in DOMAIN q : ItemIsTrue(q[i])

ViewIsTrue(v) ==
    /\ DOMAIN v = {"items", "staged", "gone", "latest"}
    /\ ItemsAreTrue(v.items)
    /\ v.latest = None \/ ItemsAreTrue(v.latest)

PollIsTrue ==
    /\ DOMAIN poll = {"timer", "flight", "answer", "hidden"}
    /\ poll.flight = "answered" => ItemsAreTrue(poll.answer)

LoadsAreTrue ==
    \A l \in loads : DOMAIN l = {"by", "answer"} /\ (l.answer = None \/ ItemsAreTrue(l.answer))

QueuesAreTrue == ViewIsTrue(view) /\ PollIsTrue /\ LoadsAreTrue

LEMMA PositionIsANumber == \A status : Position(status) \in Nat
BY DEF Position

LEMMA TruthLasts ==
    ASSUME RowsStep
    PROVE  /\ \A q : ItemsAreTrue(q) => ItemsAreTrue(q)'
           /\ \A v : ViewIsTrue(v) => ViewIsTrue(v)'
<1>1. ASSUME NEW item, ItemIsTrue(item)
      PROVE  ItemIsTrue(item)'
  <2>1. Climbs(item.id)
    BY <1>1, CasesClimb DEF ItemIsTrue
  <2>2. QED
    BY <1>1, <2>1, PositionIsANumber DEF ItemIsTrue, Climbs
<1>2. ASSUME NEW q, ItemsAreTrue(q)
      PROVE  ItemsAreTrue(q)'
  BY <1>1, <1>2 DEF ItemsAreTrue
<1>3. QED
  BY <1>2 DEF ViewIsTrue

\* get_exception_queue: what is read is so.
LEMMA ReadIsTrue == ItemsAreTrue(QueueRead)
<1> DEFINE first == Keep(ByAge, Unowned)
           second == Keep(ByAge, OwnedBySome)
           order == first \o second
<1>1. ByAge \in Seq(Escalation)
  BY EscalationAssumption, FS_CardinalityType DEF ByAge
<1>2. /\ first \in Seq(Escalation) /\ Members(first) = Members(ByAge) \cap Unowned
      /\ second \in Seq(Escalation) /\ Members(second) = Members(ByAge) \cap OwnedBySome
  BY <1>1, KeepProperties
<1> HIDE DEF first, second
<1>3. order \in Seq(Escalation)
  BY <1>2
<1>4. ASSUME NEW i \in DOMAIN order
      PROVE  order[i] \in Escalation /\ Live(order[i])
  <2>1. order[i] \in Members(first) \cup Members(second)
    BY <1>2, <1>3 DEF Members
  <2>2. QED
    BY <1>2, <2>1 DEF Unowned, OwnedBySome
<1>5. ASSUME NEW e \in Escalation, Live(e)
      PROVE  ItemIsTrue(EscalationQueueItem(e))
  BY <1>5, PositionIsANumber DEF ItemIsTrue, EscalationQueueItem, Live
<1>6. QueueRead = [i \in DOMAIN order |-> EscalationQueueItem(order[i])]
  BY DEF QueueRead, first, second
<1> HIDE DEF order
<1>7. DOMAIN order = 1 .. Len(order) /\ Len(order) \in Nat
  BY <1>3
<1>8. QueueRead \in Seq({EscalationQueueItem(e) : e \in Escalation})
  BY <1>4, <1>6, <1>7
<1>9. QED
  BY <1>4, <1>5, <1>6, <1>8 DEF ItemsAreTrue

LEMMA RowIsAnItem ==
    ASSUME NEW items, NEW e \in Ids(items)
    PROVE  \E i \in DOMAIN items : Row(items, e) = items[i] /\ Row(items, e).id = e
BY DEF Ids, Row

LEMMA RowIsTrue ==
    ASSUME NEW items, ItemsAreTrue(items), NEW e \in Ids(items)
    PROVE  Row(items, e).id = e /\ ItemIsTrue(Row(items, e)) /\ e \in Escalation /\ Exists(e)
BY RowIsAnItem DEF ItemsAreTrue, ItemIsTrue

LEMMA InsertIsTrue ==
    ASSUME NEW q, ItemsAreTrue(q), NEW at \in 1 .. Len(q) + 1, NEW item, ItemIsTrue(item)
    PROVE  ItemsAreTrue(InsertAt(q, at, item)) /\ item.id \in Ids(InsertAt(q, at, item))
<1>1. PICK S : q \in Seq(S)
  BY DEF ItemsAreTrue
<1> DEFINE T == S \cup {item}
           m == InsertAt(q, at, item)
<1>2. Len(q) \in Nat /\ q \in Seq(T)
  BY <1>1
<1>3. /\ m \in Seq(T) /\ Len(m) = Len(q) + 1
      /\ \A i \in 1 .. Len(m) : m[i] = IF i < at THEN q[i] ELSE IF i = at THEN item ELSE q[i - 1]
  <2> DEFINE a == SubSeq(q, 1, at - 1)
             b == SubSeq(q, at, Len(q))
  <2>1. a \in Seq(T) /\ Len(a) = at - 1 /\ \A i \in 1 .. at - 1 : a[i] = q[i]
    BY <1>2
  <2>2. /\ b \in Seq(T) /\ Len(b) = Len(q) - at + 1
        /\ \A i \in 1 .. Len(q) - at + 1 : b[i] = q[at + i - 1]
    BY <1>2
  <2>3. m = a \o <<item>> \o b
    BY DEF InsertAt
  <2> HIDE DEF a, b, m
  <2>4. a \o <<item>> \in Seq(T) /\ Len(a \o <<item>>) = at
        /\ \A i \in 1 .. at : (a \o <<item>>)[i] = IF i < at THEN q[i] ELSE item
    BY <1>2, <2>1
  <2> DEFINE f == a \o <<item>>
  <2>5. f \in Seq(T) /\ Len(f) = at /\ m = f \o b
    BY <2>3, <2>4
  <2> HIDE DEF f
  <2>6. m \in Seq(T) /\ Len(m) = Len(q) + 1
    BY <1>2, <2>2, <2>5
  <2>7. \A i \in 1 .. Len(m) : m[i] = IF i <= at THEN f[i] ELSE b[i - at]
    BY <1>2, <2>2, <2>5, <2>6
  <2>8. \A i \in 1 .. Len(m) : i > at => b[i - at] = q[i - 1]
    BY <1>2, <2>2, <2>6
  <2>9. \A i \in 1 .. Len(m) : i <= at => f[i] = IF i < at THEN q[i] ELSE item
    BY <2>4 DEF f
  <2>10. QED
    BY <2>6, <2>7, <2>8, <2>9
<1> HIDE DEF m
<1>4. m[at] = item /\ at \in DOMAIN m
  BY <1>2, <1>3
<1>5. \A i \in DOMAIN m : m[i] = item \/ \E j \in DOMAIN q : m[i] = q[j]
  BY <1>2, <1>3
<1>6. QED
  BY <1>3, <1>4, <1>5 DEF ItemsAreTrue, Ids, m

\* mergeOpsQueue: what is merged is true, and the row that is kept stays.
LEMMA MergeIsTrue ==
    ASSUME NEW v, ViewIsTrue(v), NEW q, ItemsAreTrue(q), NEW frozen \in BOOLEAN, NEW keep
    PROVE  /\ ViewIsTrue(MergeOpsQueue(v, q, frozen, keep))
           /\ keep \in Ids(v.items) => keep \in Ids(MergeOpsQueue(v, q, frozen, keep).items)
<1> DEFINE m == MergeOpsQueue(v, q, frozen, keep)
<1>1. ItemsAreTrue(v.items)
  BY DEF ViewIsTrue
<1>2. DOMAIN m = {"items", "staged", "gone", "latest"} /\ m.latest = q
  BY DEF MergeOpsQueue
<1>3. CASE ~ frozen
  <2>1. m.items = KeptInPlace(v.items, q, keep)
    BY <1>3 DEF MergeOpsQueue
  <2>2. CASE keep \notin Ids(v.items) \ Ids(q)
    <3>1. m.items = q
      BY <2>1, <2>2 DEF KeptInPlace
    <3>2. QED
      BY <1>2, <2>2, <3>1 DEF ViewIsTrue
  <2>3. CASE keep \in Ids(v.items) \ Ids(q)
    <3> DEFINE at == CHOOSE i \in DOMAIN v.items : v.items[i].id = keep
               pos == Min({at, Len(q) + 1})
               item == Row(v.items, keep)
    <3>1. m.items = InsertAt(q, pos, item)
      BY <2>1, <2>3 DEF KeptInPlace
    <3>2. ItemIsTrue(item) /\ item.id = keep
      BY <1>1, <2>3, RowIsTrue
    <3>3. at \in DOMAIN v.items
      BY <2>3 DEF Ids
    <3>4. at \in Nat /\ at >= 1 /\ Len(q) \in Nat
      <4>1. (\E S : v.items \in Seq(S)) /\ \E S : q \in Seq(S)
        BY <1>1 DEF ItemsAreTrue
      <4> HIDE DEF at
      <4>2. QED
        BY <3>3, <4>1
    <3> HIDE DEF at, item
    <3>5. pos \in 1 .. Len(q) + 1
      <4>1. \E x \in {at, Len(q) + 1} : \A y \in {at, Len(q) + 1} : x =< y
        BY <3>4
      <4>2. pos \in {at, Len(q) + 1} /\ pos <= Len(q) + 1
        BY <4>1 DEF Min
      <4>3. QED
        BY <3>4, <4>2
    <3> HIDE DEF pos
    <3>6. ItemsAreTrue(m.items) /\ keep \in Ids(m.items)
      BY <3>1, <3>2, <3>5, InsertIsTrue
    <3>7. QED
      BY <1>2, <3>6 DEF ViewIsTrue
  <2>4. QED
    BY <2>2, <2>3
<1>4. CASE frozen
  <2>1. m.items = [i \in DOMAIN v.items |-> IF v.items[i].id \in Ids(q)
                                            THEN Row(q, v.items[i].id) ELSE v.items[i]]
    BY <1>4 DEF MergeOpsQueue
  <2>2. \A i \in DOMAIN v.items : ItemIsTrue(m.items[i]) /\ m.items[i].id = v.items[i].id
    BY <1>1, <2>1, RowIsTrue DEF ItemsAreTrue
  <2>3. \E n \in Nat : DOMAIN v.items = 1 .. n
    BY <1>1 DEF ItemsAreTrue
  <2> HIDE DEF m
  <2>4. DOMAIN m.items = DOMAIN v.items /\ m.items = [i \in DOMAIN m.items |-> m.items[i]]
    BY <2>1
  <2>5. m.items \in Seq({m.items[i] : i \in DOMAIN m.items})
    BY <2>3, <2>4
  <2>6. ItemsAreTrue(m.items)
    BY <2>2, <2>4, <2>5 DEF ItemsAreTrue
  <2>7. keep \in Ids(v.items) => keep \in Ids(m.items)
    BY <2>2, <2>4 DEF Ids
  <2>8. QED
    BY <1>2, <2>6, <2>7 DEF ViewIsTrue, m
<1>5. QED
  BY <1>3, <1>4
-----------------------------------------------------------------------------
(* What a step does to the queue and the pane's messages.                   *)

Message == [key : Nat, state : {"sending", "failed"}]

TalkInv ==
    /\ DOMAIN talk = {"pending", "undelivered", "notice"}
    /\ talk.pending \in Seq(Message)
    /\ talk.pending # <<>> => HasRow

\* A message is sent, or sent again, or it failed, or it is there by now.
Pends(t) ==
    /\ DOMAIN t = DOMAIN talk
    /\ \/ t.pending = talk.pending
       \/ HasRow /\ \E n : PostPressed(n) /\ n.key \in Nat /\ t.pending = Sending(n.key)
       \/ \E key : t.pending = Failed(key)
       \/ \E key : t.pending = Sent(key) /\ IsPosted(key)

\* A handler is told that its post was done: that is so.
PostsAreThere ==
    \A t \in tasks, c \in calls :
        (/\ t.kind = "post" /\ c.press = t.press /\ c.stage = "answered"
         /\ c.code \notin {"NOT_TAKEN_OVER", "FAILED"}) => IsPosted(t.key)

SamePane(p) == DOMAIN p = DOMAIN pane /\ p.selected = pane.selected

Steady == view' = view /\ SamePane(pane') /\ DOMAIN talk' = DOMAIN talk /\ talk'.pending = talk.pending
GoesOnWith(v, p, t) ==
    /\ Render(v, p, t) /\ SamePane(p)
    /\ ViewIsTrue(v) /\ (HasRow => pane.selected \in Ids(v.items)) /\ Pends(t)
Rereads(v, p) ==
    /\ Render(v, p, talk) /\ SamePane(p) /\ ViewIsTrue(v)
    /\ \E l \in loads : loads' = loads \ {l}
Leaving(p) ==
    /\ Render(view, p, talk) /\ DOMAIN p = DOMAIN pane /\ p.selected # pane.selected
Discards == \E i \in DOMAIN talk.pending : HandleDiscardPending(i)

PaneStep ==
    \/ Steady \/ Discards
    \/ \E v, p, t : GoesOnWith(v, p, t)
    \/ \E v, p : Rereads(v, p)
    \/ \E p : Leaving(p)

LEMMA SteadyIs == ASSUME PaneInv, UNCHANGED <<view, pane, talk>> PROVE Steady
BY DEF Steady, SamePane

\* Most steps render the pane as it is, with what the messages have become.
LEMMA SameViewIs ==
    ASSUME QueuesAreTrue, NEW p, NEW t, Render(view, p, t), SamePane(p), Pends(t)
    PROVE  PaneStep
<1>1. HasRow => pane.selected \in Ids(view.items)
  BY DEF HasRow, SelectedIn
<1>2. GoesOnWith(view, p, t)
  BY <1>1 DEF GoesOnWith, QueuesAreTrue
<1>3. QED
  BY <1>2 DEF PaneStep

LEMMA NoticePends ==
    ASSUME TalkInv, NEW notice
    PROVE  Pends(talk) /\ Pends([talk EXCEPT !.notice = notice])
BY DEF Pends, TalkInv

LEMMA AdoptIsTrue == ASSUME NEW q, ItemsAreTrue(q) PROVE ViewIsTrue(AdoptOpsQueue(q))
BY DEF ViewIsTrue, AdoptOpsQueue

LEMMA ResortIsTrue ==
    ASSUME QueuesAreTrue, NEW keep
    PROVE  /\ ViewIsTrue(ApplyOpsResort(view, keep))
           /\ keep \in Ids(view.items) => keep \in Ids(ApplyOpsResort(view, keep).items)
<1>1. ViewIsTrue(view)
  BY DEF QueuesAreTrue
<1>2. CASE view.latest = None
  BY <1>1, <1>2 DEF ApplyOpsResort, ViewIsTrue
<1>3. CASE view.latest # None
  <2>1. ItemsAreTrue(view.latest)
    BY <1>1, <1>3 DEF ViewIsTrue
  <2>2. ApplyOpsResort(view, keep) = MergeOpsQueue(view, view.latest, FALSE, keep)
    BY <1>3 DEF ApplyOpsResort
  <2>3. QED
    BY <1>1, <2>1, <2>2, MergeIsTrue
<1>4. QED
  BY <1>2, <1>3

LEMMA ReadPaneStep ==
    ASSUME AnswerInv, QueuesAreTrue, TalkInv, ReadStep, busy \in BOOLEAN, focus \in BOOLEAN
    PROVE  PaneStep
<1>0. PaneInv
  BY DEF AnswerInv
<1>1. CASE \/ PollTick \/ PollAnswered \/ PollFails \/ RetryQueue
           \/ (\E l \in loads : QueueAnswers(l)) \/ (\E t \in tasks : ThreadRead(t))
  <2>1. UNCHANGED <<view, pane, talk>>
    BY <1>1 DEF PollTick, PollAnswered, PollFails, RetryQueue, QueueAnswers, ThreadRead
  <2>2. QED
    BY <1>0, <2>1, SteadyIs DEF PaneStep
<1>2. CASE PollLands
  <2> DEFINE q == poll.answer
             v == MergeOpsQueue(view, q, Frozen, pane.selected)
             change == ChangeOf(q)
             p == IF change = None \/ pane.dismissed = ChangeKey(change) THEN pane
                  ELSE [pane EXCEPT !.change = change]
  <2>1. Render(v, p, talk) /\ poll.flight = "answered"
    BY <1>2 DEF PollLands, LP!Land
  <2>2. SamePane(p)
    BY <1>0 DEF PaneInv, SamePane
  <2>3. ItemsAreTrue(q) /\ ViewIsTrue(view) /\ Frozen \in BOOLEAN
    BY <2>1 DEF QueuesAreTrue, PollIsTrue, Frozen
  <2> HIDE DEF p, q
  <2>4. ViewIsTrue(v) /\ (pane.selected \in Ids(view.items) => pane.selected \in Ids(v.items))
    BY <2>3, MergeIsTrue
  <2> HIDE DEF v
  <2>5. GoesOnWith(v, p, talk)
    BY <2>1, <2>2, <2>4, NoticePends DEF GoesOnWith, HasRow, SelectedIn
  <2>6. QED
    BY <2>5 DEF PaneStep
<1>3. ASSUME NEW l, NEW v, NEW p, AfterLoad(l, v, p)
      PROVE  Render(v, p, talk)
  BY <1>3 DEF AfterLoad
<1>4. ASSUME NEW l \in loads, QueueLands(l)
      PROVE  PaneStep
  <2> DEFINE v == AdoptOpsQueue(l.answer)
             p == [pane EXCEPT !.change = None]
  <2>1. Render(v, p, talk) /\ loads' = loads \ {l} /\ l.answer # None
    BY <1>3, <1>4 DEF QueueLands
  <2>2. ViewIsTrue(v)
    BY <2>1, AdoptIsTrue DEF QueuesAreTrue, LoadsAreTrue
  <2>3. SamePane(p)
    BY <1>0 DEF PaneInv, SamePane
  <2> HIDE DEF v, p
  <2>4. Rereads(v, p)
    BY <2>1, <2>2, <2>3 DEF Rereads
  <2>5. QED
    BY <2>4 DEF PaneStep
<1>5. ASSUME NEW l \in loads, QueueFails(l)
      PROVE  PaneStep
  <2>1. Render(view, pane, talk) /\ loads' = loads \ {l}
    BY <1>3, <1>5 DEF QueueFails
  <2>2. Rereads(view, pane)
    BY <2>1 DEF Rereads, QueuesAreTrue, SamePane
  <2>3. QED
    BY <2>2 DEF PaneStep
<1>6. QED
  BY <1>1, <1>2, <1>4, <1>5 DEF ReadStep

LEMMA DeskPaneStep ==
    ASSUME AnswerInv, QueuesAreTrue, TalkInv, DeskStep
    PROVE  PaneStep
<1>0. PaneInv /\ presses \in Nat /\ SamePane(pane)
  BY DEF AnswerInv, CallsNumbered, SamePane
<1>1. CASE FocusOrBlur
  BY <1>0, <1>1, SteadyIs DEF FocusOrBlur, PaneStep
<1>2. CASE DismissLiveChange \/ DismissTakeoverNotice
  <2>1. Steady
    BY <1>0, <1>2 DEF DismissLiveChange, DismissTakeoverNotice, Steady, SamePane, PaneInv, TalkInv
  <2>2. QED
    BY <2>1 DEF PaneStep
<1>3. ASSUME NEW e \in Escalation, Select(e)
      PROVE  PaneStep
  <2> DEFINE p == [pane EXCEPT !.selected = e, !.already = None]
  <2>1. Render(view, p, talk) /\ e # pane.selected
    BY <1>3 DEF Select
  <2>2. DOMAIN p = DOMAIN pane /\ p.selected = e
    BY <1>0 DEF PaneInv
  <2> HIDE DEF p
  <2>3. Leaving(p)
    BY <2>1, <2>2 DEF Leaving
  <2>4. QED
    BY <2>3 DEF PaneStep
<1>4. CASE ApplyArrivals
  <2> DEFINE v == ApplyOpsResort(view, pane.selected)
  <2>1. Render(v, pane, talk)
    BY <1>4 DEF ApplyArrivals
  <2>2. ViewIsTrue(v) /\ (pane.selected \in Ids(view.items) => pane.selected \in Ids(v.items))
    BY ResortIsTrue
  <2> HIDE DEF v
  <2>3. GoesOnWith(v, pane, talk)
    BY <1>0, <2>1, <2>2, NoticePends DEF GoesOnWith, HasRow, SelectedIn
  <2>4. QED
    BY <2>3 DEF PaneStep
<1>5. ASSUME NEW kind, Press(kind)
      PROVE  PaneStep
  <2>1. Render(view, pane, talk) \/ Render(view, pane, [talk EXCEPT !.notice = None])
    BY <1>5 DEF Press
  <2>2. QED
    BY <1>0, <2>1, NoticePends, SameViewIs
<1>6. ASSUME NEW key \in Nat, SendWithKey(key), HasRow,
             key = presses + 1 \/ \E i \in DOMAIN talk.pending : talk.pending[i].key = key
      PROVE  PaneStep
  <2> DEFINE t == [talk EXCEPT !.pending = Sending(key)]
  <2>1. Render(view, pane, t)
    BY <1>6 DEF SendWithKey
  <2>2. DOMAIN t = DOMAIN talk /\ t.pending = Sending(key)
    BY DEF TalkInv
  <2> HIDE DEF t
  <2>3. \E n : PostPressed(n) /\ n.key = key
    BY <1>6, PostIsPressed
  <2>4. Pends(t)
    BY <1>6, <2>2, <2>3 DEF Pends
  <2>5. QED
    BY <1>0, <2>1, <2>4, SameViewIs
<1>7. CASE HandleSendMessage
  BY <1>0, <1>6, <1>7 DEF HandleSendMessage
<1>8. ASSUME NEW i \in DOMAIN talk.pending, HandleRetryPending(i)
      PROVE  PaneStep
  <2>1. talk.pending[i] \in Message
    BY DEF TalkInv
  <2>2. talk.pending[i].key \in Nat
    BY <2>1 DEF Message
  <2>3. QED
    BY <1>6, <1>8, <2>2 DEF HandleRetryPending
<1>9. QED
  BY <1>1, <1>2, <1>3, <1>4, <1>5, <1>7, <1>8 DEF DeskStep, PaneStep, Discards

LEMMA TaskPaneStep ==
    ASSUME AnswerInv, QueuesAreTrue, TalkInv, PostsAreThere, TaskStep
    PROVE  PaneStep
<1>0. PaneInv /\ SamePane(pane)
  BY DEF AnswerInv, SamePane
<1>1. PICK t \in tasks, c \in calls :
          \/ CaseActionLands(t, c) \/ TakeOverLands(t, c) \/ HandBackLands(t, c)
          \/ RecoverStarted(t, c) \/ PostLands(t, c) \/ CallFails(t, c)
  BY DEF TaskStep
<1>2. ASSUME NEW p, NEW notice, NEW thenThread, ThenLoad(t, p, notice, thenThread), SamePane(p)
      PROVE  PaneStep
  <2>1. Render(view, p, talk) \/ Render(view, p, [talk EXCEPT !.notice = notice])
    BY <1>2 DEF ThenLoad
  <2>2. QED
    BY <1>2, <2>1, NoticePends, SameViewIs
<1>3. CASE CaseActionLands(t, c)
  <2> DEFINE p == IF c.code = "ALREADY_ACTIONED" THEN [pane EXCEPT !.already = t.at] ELSE pane
  <2>1. SamePane(p)
    BY <1>0 DEF PaneInv, SamePane
  <2>2. \E notice : ThenLoad(t, p, notice, FALSE)
    BY <1>3 DEF CaseActionLands
  <2> HIDE DEF p
  <2>3. QED
    BY <1>2, <2>1, <2>2
<1>4. CASE TakeOverLands(t, c)
  BY <1>0, <1>2, <1>4 DEF TakeOverLands
<1>5. CASE HandBackLands(t, c)
  BY <1>0, <1>2, <1>5 DEF HandBackLands
<1>6. CASE RecoverStarted(t, c)
  <2>1. CASE UNCHANGED <<view, pane, talk>>
    BY <1>0, <2>1, SteadyIs DEF PaneStep
  <2>2. QED
    BY <1>0, <1>2, <1>6, <2>1 DEF RecoverStarted
<1>7. ASSUME NEW u, DOMAIN u = DOMAIN talk,
             \/ \E key : u.pending = Failed(key)
             \/ \E key : u.pending = Sent(key) /\ IsPosted(key)
      PROVE  Pends(u)
  BY <1>7 DEF Pends
<1>8. CASE PostLands(t, c)
  <2>1. t.kind = "post" /\ c.press = t.press /\ c.stage = "answered"
    BY <1>8 DEF PostLands, Handled
  <2>2. CASE c.code = "NOT_TAKEN_OVER"
    <3> DEFINE u == PostRefused(t)
    <3>1. Render(view, pane, u)
      BY <1>8, <2>2 DEF PostLands
    <3>2. DOMAIN u = DOMAIN talk /\ u.pending = Failed(t.key)
      BY DEF TalkInv, PostRefused
    <3> HIDE DEF u
    <3>3. QED
      BY <1>0, <1>7, <3>1, <3>2, SameViewIs
  <2>3. CASE c.code = "FAILED"
    <3> DEFINE u == [talk EXCEPT !.pending = Failed(t.key)]
    <3>1. Render(view, pane, u)
      BY <1>8, <2>3 DEF PostLands
    <3>2. DOMAIN u = DOMAIN talk /\ u.pending = Failed(t.key)
      BY DEF TalkInv
    <3> HIDE DEF u
    <3>3. QED
      BY <1>0, <1>7, <3>1, <3>2, SameViewIs
  <2>4. CASE c.code \notin {"NOT_TAKEN_OVER", "FAILED"}
    <3> DEFINE u == [talk EXCEPT !.pending = Sent(t.key),
                                 !.undelivered = IF c.delivered \/ c.replay THEN @
                                                 ELSE @ \cup {t.key}]
    <3>1. Render(view, pane, u)
      BY <1>8, <2>4 DEF PostLands
    <3>2. DOMAIN u = DOMAIN talk /\ u.pending = Sent(t.key)
      BY DEF TalkInv
    <3>3. IsPosted(t.key)
      BY <2>1, <2>4 DEF PostsAreThere
    <3> HIDE DEF u
    <3>4. QED
      BY <1>0, <1>7, <3>1, <3>2, <3>3, SameViewIs
  <2>5. QED
    BY <2>2, <2>3, <2>4
<1>9. CASE CallFails(t, c)
  <2> DEFINE u == [talk EXCEPT !.pending = Failed(t.key)]
  <2>1. \/ Render(view, pane, u) \/ Render(view, pane, talk)
        \/ Render(view, pane, [talk EXCEPT !.notice = "failed"])
    BY <1>9 DEF CallFails
  <2>2. DOMAIN u = DOMAIN talk /\ u.pending = Failed(t.key)
    BY DEF TalkInv
  <2> HIDE DEF u
  <2>3. QED
    BY <1>0, <1>7, <2>1, <2>2, NoticePends, SameViewIs
<1>10. QED
  BY <1>1, <1>3, <1>4, <1>5, <1>6, <1>8, <1>9

LEMMA EveryPane ==
    ASSUME AnswerInv, QueuesAreTrue, TalkInv, PostsAreThere, busy \in BOOLEAN, focus \in BOOLEAN,
           [CopilotNext]_allVars
    PROVE  PaneStep
<1>0. PaneInv
  BY DEF AnswerInv
<1>1. CASE \/ ServerStep \/ DialogStep
           \/ \E f \in fetches : FetchAnswers(f) \/ FetchLands(f) \/ FetchFails(f)
           \/ \E e \in DOMAIN rows : RequestProposal(e)
           \/ \E c \in calls : RequestSequencerProposal(c) \/ ProposalLands(c) \/ ProposalFails(c)
           \/ PlannerActs \/ UNCHANGED allVars
  <2>1. UNCHANGED <<view, pane, talk>>
    BY <1>1 DEF ServerStep, DialogStep, OpenEscalate, CloseEscalate, Submit, Edit, SubmitLands,
       SubmitFails, dialogAlone, FetchAnswers, FetchLands, FetchFails, RequestProposal,
       RequestSequencerProposal, ProposalLands, ProposalFails, PlannerActs, rowAlone, client,
       allVars, vars
  <2>2. QED
    BY <1>0, <2>1, SteadyIs DEF PaneStep
<1>2. QED
  BY <1>1, ReadPaneStep, DeskPaneStep, TaskPaneStep DEF CopilotNext, ConsoleStep, Next
-----------------------------------------------------------------------------
(* The errand, the flags, and the reads of the queue.                       *)

Flags == busy \in BOOLEAN /\ focus \in BOOLEAN

LEMMA FlagsStay ==
    ASSUME Flags, [CopilotNext]_allVars
    PROVE  Flags' /\ errand' = errand
<1>1. ASSUME ReadStep \/ DeskStep
      PROVE  Flags' /\ errand' = errand
  <2>1. ASSUME NEW l, NEW v, NEW p, AfterLoad(l, v, p)
        PROVE  busy' \in BOOLEAN
    BY <2>1 DEF AfterLoad, Done, Proceed, Flags
  <2>2. ASSUME NEW l, QueueLands(l) \/ QueueFails(l)
        PROVE  Flags' /\ errand' = errand
    BY <2>1, <2>2 DEF QueueLands, QueueFails, awaiting, Flags
  <2>3. CASE ReadStep
    BY <2>2, <2>3 DEF ReadStep, PollTick, PollAnswered, PollFails, PollLands, QueueAnswers,
       RetryQueue, ThreadRead, Done, Click, awaiting, Flags
  <2>4. CASE DeskStep
    BY <2>4 DEF DeskStep, Select, FocusOrBlur, ApplyArrivals, DismissLiveChange,
       DismissTakeoverNotice, Press, HandleSendMessage, HandleRetryPending, HandleDiscardPending,
       SendWithKey, Leaves, Click, Flags
  <2>5. QED
    BY <1>1, <2>3, <2>4
<1>2. ASSUME TaskStep
      PROVE  Flags' /\ errand' = errand
  <2>1. ASSUME NEW t, NEW p, NEW notice, NEW thenThread, ThenLoad(t, p, notice, thenThread)
        PROVE  Flags' /\ errand' = errand
    BY <2>1 DEF ThenLoad, Flags
  <2>2. PICK t \in tasks, c \in calls :
            \/ CaseActionLands(t, c) \/ TakeOverLands(t, c) \/ HandBackLands(t, c)
            \/ RecoverStarted(t, c) \/ PostLands(t, c) \/ CallFails(t, c)
    BY <1>2 DEF TaskStep
  <2>3. CASE CaseActionLands(t, c)
    BY <2>1, <2>3 DEF CaseActionLands
  <2>4. CASE TakeOverLands(t, c)
    BY <2>1, <2>4 DEF TakeOverLands
  <2>5. CASE HandBackLands(t, c)
    BY <2>1, <2>5 DEF HandBackLands
  <2>6. CASE RecoverStarted(t, c)
    BY <2>1, <2>6 DEF RecoverStarted, Flags
  <2>7. CASE PostLands(t, c) \/ CallFails(t, c)
    BY <2>7 DEF PostLands, CallFails, Done, Proceed, Flags
  <2>8. QED
    BY <2>2, <2>3, <2>4, <2>5, <2>6, <2>7
<1>3. ASSUME ServerStep \/ DialogStep
      PROVE  Flags' /\ errand' = errand
  BY <1>3 DEF ServerStep, client, DialogStep, OpenEscalate, CloseEscalate, Submit, Edit,
     SubmitLands, SubmitFails, dialogAlone, Click, Flags
<1>4. CASE \/ \E f \in fetches : FetchAnswers(f) \/ FetchLands(f) \/ FetchFails(f)
           \/ \E e \in DOMAIN rows : RequestProposal(e)
           \/ \E c \in calls : RequestSequencerProposal(c) \/ ProposalLands(c) \/ ProposalFails(c)
           \/ PlannerActs \/ UNCHANGED allVars
  BY <1>4 DEF FetchAnswers, FetchLands, FetchFails, RequestProposal, RequestSequencerProposal,
       ProposalLands, ProposalFails, PlannerActs, rowAlone, client, allVars, vars, Flags
<1>5. QED
  BY <1>1, <1>2, <1>3, <1>4 DEF CopilotNext, ConsoleStep, Next

\* The reads that wait are read, land, fail, or are joined by another.
LoadsGoOn ==
    \/ loads' = loads
    \/ \E l \in loads : loads' = loads \ {l}
    \/ \E l \in loads : loads' = (loads \ {l}) \cup {[l EXCEPT !.answer = QueueRead]}
    \/ \E by : loads' = loads \cup {[by |-> by, answer |-> None]}
PollGoesOn ==
    \/ poll' = poll \/ LP!Fire(busy) \/ LP!Answer(QueueRead) \/ LP!Lose
    \/ LP!Fail \/ LP!Land

LEMMA ReadsGoOn ==
    ASSUME [CopilotNext]_allVars
    PROVE  LoadsGoOn /\ PollGoesOn
<1>1. CASE ReadStep
  BY <1>1 DEF ReadStep, PollTick, PollAnswered, PollFails, PollLands, QueueAnswers, QueueLands,
     QueueFails, RetryQueue, ThreadRead, awaiting, Load, LoadsGoOn, PollGoesOn
<1>2. CASE DeskStep
  BY <1>2 DEF DeskStep, Select, FocusOrBlur, ApplyArrivals, DismissLiveChange,
     DismissTakeoverNotice, Press, HandleSendMessage, HandleRetryPending, HandleDiscardPending,
     SendWithKey, reads, LoadsGoOn, PollGoesOn
<1>3. ASSUME TaskStep
      PROVE  LoadsGoOn /\ PollGoesOn
  <2>1. ASSUME NEW t, NEW p, NEW notice, NEW thenThread, ThenLoad(t, p, notice, thenThread)
        PROVE  LoadsGoOn /\ PollGoesOn
    BY <2>1 DEF ThenLoad, Load, LoadsGoOn, PollGoesOn
  <2>2. PICK t \in tasks, c \in calls :
            \/ CaseActionLands(t, c) \/ TakeOverLands(t, c) \/ HandBackLands(t, c)
            \/ RecoverStarted(t, c) \/ PostLands(t, c) \/ CallFails(t, c)
    BY <1>3 DEF TaskStep
  <2>3. CASE CaseActionLands(t, c)
    BY <2>1, <2>3 DEF CaseActionLands
  <2>4. CASE TakeOverLands(t, c)
    BY <2>1, <2>4 DEF TakeOverLands
  <2>5. CASE HandBackLands(t, c)
    BY <2>1, <2>5 DEF HandBackLands
  <2>6. CASE RecoverStarted(t, c)
    BY <2>1, <2>6 DEF RecoverStarted, reads, LoadsGoOn, PollGoesOn
  <2>7. CASE PostLands(t, c) \/ CallFails(t, c)
    BY <2>7 DEF PostLands, CallFails, Load, reads, LoadsGoOn, PollGoesOn
  <2>8. QED
    BY <2>2, <2>3, <2>4, <2>5, <2>6, <2>7
<1>4. CASE ServerStep \/ DialogStep
  BY <1>4 DEF ServerStep, client, DialogStep, OpenEscalate, CloseEscalate, Submit, Edit,
     SubmitLands, SubmitFails, dialogAlone, Load, reads, LoadsGoOn, PollGoesOn
<1>5. CASE \/ \E f \in fetches : FetchAnswers(f) \/ FetchLands(f) \/ FetchFails(f)
           \/ \E e \in DOMAIN rows : RequestProposal(e)
           \/ \E c \in calls : RequestSequencerProposal(c) \/ ProposalLands(c) \/ ProposalFails(c)
           \/ PlannerActs \/ UNCHANGED allVars
  BY <1>5 DEF FetchAnswers, FetchLands, FetchFails, RequestProposal, RequestSequencerProposal,
       ProposalLands, ProposalFails, PlannerActs, rowAlone, client, reads, allVars, vars,
       LoadsGoOn, PollGoesOn
<1>6. QED
  BY <1>1, <1>2, <1>3, <1>4, <1>5 DEF CopilotNext, ConsoleStep, Next

LEMMA ReadsStayTrue ==
    ASSUME QueuesAreTrue, RowsStep, LoadsGoOn, PollGoesOn
    PROVE  LoadsAreTrue' /\ PollIsTrue'
<1>1. \A q : ItemsAreTrue(q) => ItemsAreTrue(q)'
  BY TruthLasts
<1>2. PICK q : q = QueueRead
  OBVIOUS
<1>3. ItemsAreTrue(q) /\ ItemsAreTrue(q)'
  BY <1>1, <1>2, ReadIsTrue
<1>4. LoadsAreTrue /\ PollIsTrue
  BY DEF QueuesAreTrue
<1>5. \A l \in loads' : DOMAIN l = {"by", "answer"} /\ (l.answer \in {None, q} \/ ItemsAreTrue(l.answer))
  <2>1. \A l \in loads : DOMAIN [l EXCEPT !.answer = q] = {"by", "answer"} /\ [l EXCEPT !.answer = q].answer = q
    BY <1>4 DEF LoadsAreTrue
  <2>2. QED
    BY <1>2, <1>4, <2>1 DEF LoadsGoOn, LoadsAreTrue
<1>6. LoadsAreTrue'
  BY <1>1, <1>3, <1>5 DEF LoadsAreTrue
<1>7. DOMAIN poll' = {"timer", "flight", "answer", "hidden"}
      /\ (poll'.flight = "answered" => poll'.answer = q
                                       \/ (poll.flight = "answered" /\ poll'.answer = poll.answer))
  BY <1>2, <1>4 DEF PollGoesOn, PollIsTrue, LP!Fire, LP!Run, LP!Answer, LP!Lose, LP!Fail, LP!Land,
     LP!Settled
<1>8. poll.flight = "answered" => ItemsAreTrue(poll.answer)
  BY <1>4 DEF PollIsTrue
<1>9. PICK a : a = poll.answer
  OBVIOUS
<1>10. poll.flight = "answered" => ItemsAreTrue(a)'
  BY <1>1, <1>8, <1>9
<1>11. PICK b : b = poll'.answer
  OBVIOUS
<1>12. poll'.flight = "answered" => ItemsAreTrue(b)'
  BY <1>3, <1>7, <1>9, <1>10, <1>11
<1>13. PollIsTrue'
  BY <1>7, <1>11, <1>12 DEF PollIsTrue, ItemsAreTrue, ItemIsTrue, Exists
<1>14. QED
  BY <1>6, <1>13

LEMMA QueuesStayTrue ==
    ASSUME QueuesAreTrue, RowsStep, PaneStep, [CopilotNext]_allVars
    PROVE  QueuesAreTrue'
<1>1. \E v : view' = v /\ ViewIsTrue(v)
  BY DEF PaneStep, Steady, Discards, HandleDiscardPending, GoesOnWith, Rereads, Leaving, Render,
     QueuesAreTrue
<1>2. PICK v : view' = v /\ ViewIsTrue(v)
  BY <1>1
<1>3. ViewIsTrue(v)'
  BY <1>2, TruthLasts
<1>4. ViewIsTrue(view)'
  BY <1>2, <1>3 DEF ViewIsTrue, ItemsAreTrue, ItemIsTrue, Exists
<1>5. QED
  BY <1>4, ReadsGoOn, ReadsStayTrue DEF QueuesAreTrue

\* What becomes of the messages, by key.
LEMMA SendingKeys ==
    ASSUME TalkInv, NEW key \in Nat
    PROVE  /\ Sending(key) \in Seq(Message)
           /\ \A j \in DOMAIN Sending(key) :
                 \/ Sending(key)[j].key = key
                 \/ \E i \in DOMAIN talk.pending : talk.pending[i].key = Sending(key)[j].key
           /\ \A i \in DOMAIN talk.pending :
                 \E j \in DOMAIN Sending(key) : Sending(key)[j].key = talk.pending[i].key
<1> DEFINE p == talk.pending
           m == [key |-> key, state |-> "sending"]
           s == Sending(key)
<1>1. p \in Seq(Message) /\ m \in Message
  BY DEF TalkInv, Message
<1>2. CASE \E i \in DOMAIN p : p[i].key = key
  <2>1. s = [i \in DOMAIN p |-> IF p[i].key = key THEN m ELSE p[i]]
    BY <1>2 DEF Sending
  <2>2. \A i \in DOMAIN p : s[i] \in Message /\ s[i].key = p[i].key
    <3> SUFFICES ASSUME NEW i \in DOMAIN p PROVE s[i] \in Message /\ s[i].key = p[i].key
      OBVIOUS
    <3>1. p[i] \in Message
      BY <1>1
    <3>2. s[i] = IF p[i].key = key THEN m ELSE p[i]
      BY <2>1
    <3>3. m.key = key
      OBVIOUS
    <3> HIDE DEF s, p, m
    <3>4. QED
      BY <1>1, <3>1, <3>2, <3>3
  <2>3. DOMAIN s = DOMAIN p /\ s = [i \in DOMAIN p |-> s[i]]
    BY <2>1
  <2>4. DOMAIN p = 1 .. Len(p) /\ Len(p) \in Nat
    BY <1>1
  <2> HIDE DEF s, p
  <2>5. s \in Seq(Message)
    BY <2>2, <2>3, <2>4
  <2>6. QED
    BY <2>2, <2>3, <2>5 DEF s, p
<1>3. CASE ~ \E i \in DOMAIN p : p[i].key = key
  <2>1. s = Append(p, m) /\ m.key = key
    BY <1>3 DEF Sending
  <2> HIDE DEF s, p, m
  <2>2. /\ s \in Seq(Message)
        /\ DOMAIN s = DOMAIN p \cup {Len(p) + 1}
        /\ \A i \in DOMAIN p : s[i] = p[i]
        /\ s[Len(p) + 1] = m
    BY <1>1, <2>1
  <2>3. QED
    BY <2>1, <2>2 DEF s, p
<1>4. QED
  BY <1>2, <1>3

LEMMA FailedKeys ==
    ASSUME TalkInv, NEW key
    PROVE  /\ Failed(key) \in Seq(Message) /\ DOMAIN Failed(key) = DOMAIN talk.pending
           /\ \A i \in DOMAIN talk.pending : Failed(key)[i].key = talk.pending[i].key
<1> DEFINE p == talk.pending
           s == Failed(key)
<1>1. p \in Seq(Message)
  BY DEF TalkInv
<1>2. \A i \in DOMAIN p : s[i] = IF p[i].key = key THEN [p[i] EXCEPT !.state = "failed"] ELSE p[i]
  BY DEF Failed
<1>3. DOMAIN p = 1 .. Len(p) /\ Len(p) \in Nat
  BY <1>1
<1>4. DOMAIN s = DOMAIN p /\ s = [i \in DOMAIN p |-> s[i]]
  BY DEF Failed
<1> HIDE DEF s, p
<1>5. \A i \in DOMAIN p : s[i] \in Message /\ s[i].key = p[i].key
  <2> SUFFICES ASSUME NEW i \in DOMAIN p PROVE s[i] \in Message /\ s[i].key = p[i].key
    OBVIOUS
  <2>1. p[i] \in Message
    BY <1>1
  <2>2. QED
    BY <1>2, <2>1 DEF Message
<1>6. s \in Seq(Message)
  BY <1>3, <1>4, <1>5
<1>7. QED
  BY <1>4, <1>5, <1>6 DEF s, p

LEMMA SentKeys ==
    ASSUME TalkInv, NEW key
    PROVE  /\ Sent(key) \in Seq(Message)
           /\ \A j \in DOMAIN Sent(key) :
                 \E i \in DOMAIN talk.pending : talk.pending[i].key = Sent(key)[j].key
           /\ \A i \in DOMAIN talk.pending : talk.pending[i].key # key =>
                 \E j \in DOMAIN Sent(key) : Sent(key)[j].key = talk.pending[i].key
<1> DEFINE p == talk.pending
           S == {m \in Members(p) : m.key # key}
           s == Keep(p, S)
<1>1. p \in Seq(Message) /\ Sent(key) = s
  BY DEF TalkInv, Sent
<1> HIDE DEF p, s, S
<1>2. s \in Seq(Message) /\ Members(s) = Members(p) \cap S
  BY <1>1, KeepProperties DEF s
<1>3. \A j \in DOMAIN s : \E i \in DOMAIN p : p[i] = s[j]
  BY <1>2 DEF Members
<1>4. \A i \in DOMAIN p : p[i].key # key => \E j \in DOMAIN s : s[j] = p[i]
  BY <1>2 DEF Members, S
<1>5. QED
  BY <1>1, <1>2, <1>3, <1>4 DEF p

LEMMA DiscardKeys ==
    ASSUME TalkInv, NEW i \in DOMAIN talk.pending
    PROVE  /\ RemoveAt(talk.pending, i) \in Seq(Message)
           /\ \A j \in DOMAIN RemoveAt(talk.pending, i) :
                 \E n \in DOMAIN talk.pending : talk.pending[n] = RemoveAt(talk.pending, i)[j]
           /\ \A n \in DOMAIN talk.pending \ {i} :
                 \E j \in DOMAIN RemoveAt(talk.pending, i) :
                    RemoveAt(talk.pending, i)[j] = talk.pending[n]
<1> DEFINE p == talk.pending
           s == RemoveAt(p, i)
           a == SubSeq(p, 1, i - 1)
           b == SubSeq(p, i + 1, Len(p))
<1>1. p \in Seq(Message) /\ i \in 1 .. Len(p) /\ Len(p) \in Nat
  BY DEF TalkInv
<1>2. s = a \o b
  BY DEF RemoveAt
<1> HIDE DEF p, s
<1>3. a \in Seq(Message) /\ Len(a) = i - 1 /\ \A j \in 1 .. i - 1 : a[j] = p[j]
  BY <1>1
<1>4. /\ b \in Seq(Message) /\ Len(b) = Len(p) - i
      /\ \A j \in 1 .. Len(p) - i : b[j] = p[i + j]
  BY <1>1
<1> HIDE DEF a, b
<1>5. s \in Seq(Message) /\ Len(s) = Len(p) - 1
  BY <1>1, <1>2, <1>3, <1>4
<1>6. \A j \in 1 .. Len(p) - 1 : s[j] = IF j < i THEN p[j] ELSE p[j + 1]
  <2> SUFFICES ASSUME NEW j \in 1 .. Len(p) - 1
               PROVE  s[j] = IF j < i THEN p[j] ELSE p[j + 1]
    OBVIOUS
  <2>1. CASE j < i
    BY <1>1, <1>2, <1>3, <1>4, <2>1
  <2>2. CASE ~ j < i
    <3>1. s[j] = b[j - (i - 1)]
      BY <1>1, <1>2, <1>3, <1>4, <2>2, SMTT(20)
    <3>2. j - (i - 1) \in 1 .. Len(p) - i /\ i + (j - (i - 1)) = j + 1
      BY <1>1, <2>2
    <3>3. QED
      BY <1>4, <2>2, <3>1, <3>2
  <2>3. QED
    BY <2>1, <2>2
<1>7. \A j \in DOMAIN s : \E n \in DOMAIN p : p[n] = s[j]
  BY <1>1, <1>5, <1>6
<1>8. ASSUME NEW n \in DOMAIN p \ {i}
      PROVE  \E j \in DOMAIN s : s[j] = p[n]
  <2>1. CASE n < i
    BY <1>1, <1>5, <1>6, <2>1
  <2>2. CASE ~ n < i
    <3>1. n - 1 \in 1 .. Len(p) - 1 /\ ~ (n - 1 < i) /\ (n - 1) + 1 = n
      BY <1>1, <2>2
    <3>2. s[n - 1] = p[n]
      BY <1>6, <3>1
    <3>3. QED
      BY <1>5, <3>1, <3>2
  <2>3. QED
    BY <2>1, <2>2
<1>9. QED
  BY <1>5, <1>7, <1>8 DEF p, s

LEMMA SomethingPends ==
    ASSUME NEW M, NEW s \in Seq(M), NEW r \in Seq(M), s # << >>,
           \A j \in DOMAIN s : \E i \in DOMAIN r : r[i].key = s[j].key
    PROVE  r # << >>
<1>1. 1 \in DOMAIN s
  OBVIOUS
<1>2. QED
  BY <1>1

\* The messages stay those of a case that is shown.
LEMMA TalkGoesOn ==
    ASSUME TalkInv, NEW t, Pends(t)
    PROVE  /\ DOMAIN t = DOMAIN talk /\ t.pending \in Seq(Message)
           /\ t.pending # << >> => HasRow
<1>1. talk.pending \in Seq(Message) /\ (talk.pending # << >> => HasRow)
  BY DEF TalkInv
<1>2. CASE t.pending = talk.pending
  BY <1>1, <1>2 DEF Pends
<1>3. ASSUME HasRow, NEW key \in Nat, t.pending = Sending(key)
      PROVE  t.pending \in Seq(Message)
  BY <1>3, SendingKeys
<1>4. ASSUME NEW key, t.pending = Failed(key)
      PROVE  t.pending \in Seq(Message) /\ (t.pending # << >> => HasRow)
  BY <1>1, <1>4, FailedKeys, SomethingPends
<1>5. ASSUME NEW key, t.pending = Sent(key)
      PROVE  t.pending \in Seq(Message) /\ (t.pending # << >> => HasRow)
  BY <1>1, <1>5, SentKeys, SomethingPends
<1>6. QED
  BY <1>2, <1>3, <1>4, <1>5 DEF Pends

LEMMA ForgottenPends ==
    ASSUME NEW t, DOMAIN t = {"pending", "undelivered", "notice"}
    PROVE  /\ DOMAIN ForgetTheThread(t) = {"pending", "undelivered", "notice"}
           /\ ForgetTheThread(t).pending = << >>
BY DEF ForgetTheThread

\* A thread that is shown is that of a case that is shown.
LEMMA ThreadIsShown ==
    ASSUME CasesAreFit, QueuesAreTrue, HasRow
    PROVE  \A v, p : ThreadIn(v, p) = ThreadIn(view, pane) => SelectedIn(v, p)
<1>1. pane.selected \in Ids(view.items) /\ ItemsAreTrue(view.items)
  BY DEF HasRow, SelectedIn, QueuesAreTrue, ViewIsTrue
<1>2. ItemIsTrue(Row(view.items, pane.selected))
  BY <1>1, RowIsTrue
<1>3. Row(view.items, pane.selected).thread # None
  BY <1>2 DEF ItemIsTrue, CasesAreFit
<1>4. QED
  BY <1>3 DEF ThreadIn, HasRow

LEMMA TalkStays ==
    ASSUME AnswerInv, CasesAreFit, QueuesAreTrue, TalkInv, PaneStep
    PROVE  TalkInv'
<1>1. /\ DOMAIN talk = {"pending", "undelivered", "notice"}
      /\ talk.pending \in Seq(Message) /\ (talk.pending # << >> => HasRow)
  BY DEF TalkInv
<1>2. << >> \in Seq(Message)
  OBVIOUS
<1>3. CASE Steady
  BY <1>1, <1>3 DEF Steady, TalkInv, HasRow, SelectedIn, SamePane
<1>4. ASSUME NEW i \in DOMAIN talk.pending, HandleDiscardPending(i)
      PROVE  TalkInv'
  <2>1. UNCHANGED <<view, pane>> /\ talk' = [talk EXCEPT !.pending = RemoveAt(@, i)]
    BY <1>4 DEF HandleDiscardPending
  <2>2. DOMAIN talk' = DOMAIN talk /\ talk'.pending = RemoveAt(talk.pending, i)
    BY <1>1, <2>1
  <2>3. talk'.pending \in Seq(Message)
    BY <2>2, DiscardKeys
  <2>4. HasRow /\ HasRow'
    BY <1>1, <2>1 DEF HasRow, SelectedIn
  <2>5. QED
    BY <1>1, <2>2, <2>3, <2>4 DEF TalkInv
<1>5. ASSUME NEW v, NEW p, NEW t, GoesOnWith(v, p, t)
      PROVE  TalkInv'
  <2>1. view' = v /\ pane'.selected = pane.selected /\ talk' \in {t, ForgetTheThread(t)}
    BY <1>5 DEF GoesOnWith, Render, SamePane
  <2>2. DOMAIN t = DOMAIN talk /\ t.pending \in Seq(Message) /\ (t.pending # << >> => HasRow)
    BY <1>5, TalkGoesOn DEF GoesOnWith
  <2>3. HasRow => HasRow'
    BY <1>5, <2>1 DEF GoesOnWith, HasRow, SelectedIn
  <2>4. CASE talk' = t
    BY <1>1, <2>2, <2>3, <2>4 DEF TalkInv
  <2>5. CASE talk' = ForgetTheThread(t)
    BY <1>1, <1>2, <2>2, <2>5, ForgottenPends DEF TalkInv
  <2>6. QED
    BY <2>1, <2>4, <2>5
<1>6. ASSUME NEW v, NEW p, Render(v, p, talk), DOMAIN p = DOMAIN pane
      PROVE  TalkInv'
  <2>1. view' = v /\ pane'.selected = p.selected
    <3>1. CASE p.selected = pane.selected
      BY <1>6, <3>1 DEF Render
    <3>2. CASE p.selected # pane.selected
      BY <1>6, <3>2 DEF Render, AnswerInv, PaneInv
    <3>3. QED
      BY <3>1, <3>2
  <2>2. CASE ThreadIn(v, p) = ThreadIn(view, pane)
    <3>1. talk' = talk
      BY <1>6, <2>2 DEF Render
    <3>2. HasRow => HasRow'
      BY <2>1, <2>2, ThreadIsShown DEF HasRow, SelectedIn
    <3>3. QED
      BY <1>1, <3>1, <3>2 DEF TalkInv
  <2>3. CASE ThreadIn(v, p) # ThreadIn(view, pane)
    <3>1. talk' = ForgetTheThread(talk)
      BY <1>6, <2>3 DEF Render
    <3>2. QED
      BY <1>1, <1>2, <3>1, ForgottenPends DEF TalkInv
  <2>4. QED
    BY <2>2, <2>3
<1>7. QED
  BY <1>3, <1>4, <1>5, <1>6 DEF PaneStep, Discards, Rereads, Leaving, SamePane
-----------------------------------------------------------------------------
(* What is posted stays posted, and what is newly stored is an action's     *)
(* answer, or that of a post that is there.                                 *)

StoredPass ==
    \A k \in DOMAIN stored' :
        \/ k \in DOMAIN stored
        \/ \E c \in calls : Keyed(c) /\ c.key = k
        \/ IsPosted(k)' /\ \E c \in calls : c.kind = "post" /\ c.key = k

LEMMA AppendPosts ==
    ASSUME PostedShaped, NEW m, posted' = Append(posted, m)
    PROVE  /\ PostedShaped' /\ (\A k : IsPosted(k) => IsPosted(k)')
           /\ IsPosted(m.key)'
<1>1. PICK S : posted \in Seq(S)
  BY DEF PostedShaped
<1>2. posted \in Seq(S \cup {m}) /\ m \in S \cup {m}
  BY <1>1, SeqMonotonic
<1>3. posted' \in Seq(S \cup {m})
  BY <1>2
<1>4. /\ \A i \in DOMAIN posted : i \in DOMAIN posted' /\ posted'[i] = posted[i]
      /\ Len(posted) + 1 \in DOMAIN posted' /\ posted'[Len(posted) + 1] = m
  BY <1>2
<1>5. QED
  BY <1>3, <1>4 DEF PostedShaped, IsPosted

LEMMA StoredIs ==
    ASSUME NEW c \in calls, NEW code, Store(c, code),
           Keyed(c) \/ c.key = None \/ (c.kind = "post" /\ IsPosted(c.key)')
    PROVE  StoredPass
<1>1. CASE c.key = None
  BY <1>1 DEF Store, StoredPass
<1>2. CASE c.key # None
  <2>1. DOMAIN stored' = DOMAIN stored \cup {c.key}
    BY <1>2 DEF Store
  <2>2. QED
    BY <1>2, <2>1 DEF StoredPass
<1>3. QED
  BY <1>1, <1>2

LEMMA PostsStay ==
    ASSUME PostedShaped, [CopilotNext]_allVars
    PROVE  PostedShaped' /\ (\A k : IsPosted(k) => IsPosted(k)') /\ StoredPass
<1>1. ASSUME UNCHANGED posted
      PROVE  PostedShaped' /\ (\A k : IsPosted(k) => IsPosted(k)')
  BY <1>1 DEF PostedShaped, IsPosted
<1>2. UNCHANGED stored => StoredPass
  BY DEF StoredPass
<1>3. ASSUME NEW c \in calls, PostOperationsMessage(c)
      PROVE  PostedShaped' /\ (\A k : IsPosted(k) => IsPosted(k)') /\ StoredPass
  <2>1. CASE \E i \in DOMAIN posted : posted[i].key = c.key
    BY <1>1, <1>2, <1>3, <2>1 DEF PostOperationsMessage
  <2>2. CASE ~ \E i \in DOMAIN posted : posted[i].key = c.key
    <3> DEFINE m == [thread |-> c.thread, key |-> c.key]
    <3>1. posted' = Append(posted, m) /\ Store(c, "POSTED") /\ m.key = c.key /\ c.kind = "post"
      BY <1>3, <2>2 DEF PostOperationsMessage
    <3> HIDE DEF m
    <3>2. PostedShaped' /\ (\A k : IsPosted(k) => IsPosted(k)') /\ IsPosted(m.key)'
      BY <3>1, AppendPosts
    <3>3. c.kind = "post" /\ IsPosted(c.key)'
      BY <3>1, <3>2
    <3>4. StoredPass
      BY <3>1, <3>3, StoredIs
    <3>5. QED
      BY <3>2, <3>4
  <2>3. QED
    BY <2>1, <2>2
<1>4. ASSUME NEW c \in calls, Serve(c), ~ PostOperationsMessage(c)
      PROVE  UNCHANGED posted /\ StoredPass
  <2>1. UNCHANGED posted
    BY <1>4 DEF Serve, Replay, AcknowledgeEscalation, ResolveEscalation, CancelEscalation, Close,
       ReassignEscalation, Preview, EscalateException, CheckStart, StartEscalationWork,
       CheckTakeOver, TakeOverThread, CheckHandBack, HandBackThread, CheckPost, Refuse, Checked,
       tables
  <2>2. CASE UNCHANGED stored
    BY <1>2, <2>1, <2>2
  <2>3. CASE ~ UNCHANGED stored
    <3>1. (\E code : Store(c, code)) /\ c.kind \in CaseKind
      BY <1>4, <2>3 DEF Serve, Replay, AcknowledgeEscalation, ResolveEscalation, CancelEscalation, Close,
         ReassignEscalation, Preview, EscalateException, CheckStart, StartEscalationWork,
         CheckTakeOver, TakeOverThread, CheckHandBack, HandBackThread, CheckPost, Refuse, Checked,
         tables, Fresh, CaseKind
    <3>2. QED
      BY <2>1, <3>1, StoredIs DEF Keyed, OfCase
  <2>4. QED
    BY <2>2, <2>3
<1>5. ASSUME OthersStep(Me) \/ UNCHANGED tables
      PROVE  UNCHANGED <<posted, stored>>
  BY <1>5 DEF OthersStep, OthersRaise, OthersCall, tables
<1>6. QED
  BY <1>1, <1>2, <1>3, <1>4, <1>5, OnlyTheServiceWrites
-----------------------------------------------------------------------------
(* A message's key is no action's, and what is stored under it was posted:  *)
(* an answer to a post that says nothing else says that it is there.        *)

OfAPost(k) ==
    \/ \E c \in calls : c.kind = "post" /\ c.key = k
    \/ \E t \in tasks : t.kind = "post" /\ t.key = k
    \/ \E i \in DOMAIN talk.pending : talk.pending[i].key = k
OfAnAction(k) == (\E c \in calls : Keyed(c) /\ c.key = k) \/ (\E a \in DOMAIN keys : keys[a] = k)

Answered(c) == c.stage = "answered" /\ c.code \notin {"NOT_TAKEN_OVER", "FAILED"}

KeysInRange ==
    /\ DOMAIN stored \subseteq 1 .. presses
    /\ \A k : OfAPost(k) => k \in 1 .. presses
KeysApart ==
    \A k : OfAPost(k) => ~ OfAnAction(k) /\ (k \in DOMAIN stored => IsPosted(k))
HandlersApart ==
    /\ \A c \in calls : c.kind = "post" => c.press # 0
    /\ \A t, u \in tasks : t.press = u.press => t.kind = u.kind
    /\ \A t \in tasks, c \in calls :
           t.kind = "post" /\ c.press = t.press => c.kind = "post" /\ c.key = t.key
PostsAnswered == \A c \in calls : c.kind = "post" /\ Answered(c) => IsPosted(c.key)

PostInv == PostedShaped /\ KeysInRange /\ KeysApart /\ HandlersApart /\ PostsAnswered

LEMMA PostsTellTruth == ASSUME PostInv PROVE PostsAreThere
BY DEF PostInv, HandlersApart, PostsAnswered, Answered, PostsAreThere

LEMMA ActionKeysInRange == ASSUME AnswerInv, NEW k, OfAnAction(k) PROVE k \in 1 .. presses
BY DEF OfAnAction, AnswerInv, CallsNumbered, IsCall, KeysNumbered

LEMMA OnePress ==
    ASSUME AnswerInv, NEW n, PressOf(n)
    PROVE  /\ ~ Quiet
           /\ \A m : PressOf(m) => m = n
<1>1. presses \in Nat /\ \A c \in calls : c.press \in 0 .. presses
  BY DEF AnswerInv, CallsNumbered, IsCall
<1>2. n \in calls' /\ n.press = presses + 1 /\ presses' = presses + 1
  BY DEF PressOf
<1>3. QED
  BY <1>1, <1>2 DEF PressOf, Quiet

\* A key that is a message's is one that was, or that of the press that sends it.
LEMMA PostKeysPass ==
    ASSUME AnswerInv, TalkInv, PaneStep, [CopilotNext]_allVars, NEW k, OfAPost(k)'
    PROVE  OfAPost(k) \/ \E n : PostPressed(n) /\ n.key = k
<1>1. PICK q : q = talk'.pending
  OBVIOUS
<1>2. ASSUME NEW j \in DOMAIN q, q[j].key = k
      PROVE  OfAPost(k) \/ \E n : PostPressed(n) /\ n.key = k
  <2>1. CASE Steady
    BY <1>1, <1>2, <2>1 DEF Steady, OfAPost
  <2>2. ASSUME NEW i \in DOMAIN talk.pending, HandleDiscardPending(i)
        PROVE  OfAPost(k)
    <3>1. q = RemoveAt(talk.pending, i)
      BY <1>1, <2>2 DEF HandleDiscardPending, TalkInv
    <3>2. QED
      BY <1>2, <3>1, DiscardKeys DEF OfAPost
  <2>3. ASSUME NEW v, NEW p, NEW t, Render(v, p, t), DOMAIN t = DOMAIN talk
        PROVE  q = t.pending \/ q = << >>
    BY <1>1, <2>3 DEF Render, ForgetTheThread, TalkInv
  <2>4. q # << >>
    BY <1>2
  <2>5. ASSUME NEW v, NEW p, NEW t, GoesOnWith(v, p, t)
        PROVE  OfAPost(k) \/ \E n : PostPressed(n) /\ n.key = k
    <3>1. Pends(t) /\ q = t.pending
      BY <2>3, <2>4, <2>5 DEF GoesOnWith, Pends
    <3>2. CASE q = talk.pending
      BY <1>2, <3>2 DEF OfAPost
    <3>3. ASSUME NEW n, PostPressed(n), n.key \in Nat, q = Sending(n.key)
          PROVE  OfAPost(k) \/ \E m : PostPressed(m) /\ m.key = k
      <4>1. CASE q[j].key = n.key
        BY <1>2, <3>3, <4>1
      <4>2. ASSUME NEW i \in DOMAIN talk.pending, talk.pending[i].key = q[j].key
            PROVE  OfAPost(k)
        BY <1>2, <4>2 DEF OfAPost
      <4>3. \/ q[j].key = n.key
            \/ \E i \in DOMAIN talk.pending : talk.pending[i].key = q[j].key
        <5>1. Sending(n.key)[j].key = q[j].key /\ j \in DOMAIN Sending(n.key)
          BY <1>2, <3>3
        <5>2. QED
          BY <3>3, <5>1, SendingKeys
      <4>4. QED
        BY <4>1, <4>2, <4>3
    <3>4. ASSUME NEW key, q = Failed(key)
          PROVE  OfAPost(k)
      <4>1. j \in DOMAIN talk.pending /\ q[j].key = talk.pending[j].key
        BY <1>2, <3>4, FailedKeys
      <4>2. QED
        BY <1>2, <4>1 DEF OfAPost
    <3>5. ASSUME NEW key, q = Sent(key)
          PROVE  OfAPost(k)
      BY <1>2, <3>5, SentKeys DEF OfAPost
    <3>6. QED
      BY <3>1, <3>2, <3>3, <3>4, <3>5 DEF Pends
  <2>6. ASSUME NEW v, NEW p, Render(v, p, talk)
        PROVE  OfAPost(k)
    BY <1>2, <2>3, <2>4, <2>6 DEF OfAPost
  <2>7. QED
    BY <2>1, <2>2, <2>5, <2>6 DEF PaneStep, Discards, Rereads, Leaving
<1>3. ASSUME NEW d \in calls', d.kind = "post", d.key = k
      PROVE  OfAPost(k) \/ \E n : PostPressed(n) /\ n.key = k
  <2>1. CASE Quiet
    BY <1>3, <2>1 DEF Quiet, CallsPass, FromOthers, OthersKind, FromRecover, Passes, SameCall, OfAPost
  <2>2. ASSUME NEW n, CasePressed(n) \/ PostPressed(n) \/ RaisePressed(n) \/ ProposalPressed(n)
        PROVE  OfAPost(k) \/ \E m : PostPressed(m) /\ m.key = k
    <3>1. d \in calls \/ d = n
      BY <1>3, <2>2 DEF CasePressed, PostPressed, RaisePressed, ProposalPressed, PressOf
    <3>2. d = n => PostPressed(n)
      BY <1>3, <2>2 DEF CasePressed, CaseKind, RaisePressed, ProposalPressed
    <3>3. QED
      BY <1>3, <3>1, <3>2 DEF OfAPost
  <2>3. QED
    BY <2>1, <2>2, EveryStep
<1>4. ASSUME NEW u \in tasks', u.kind = "post", u.key = k
      PROVE  OfAPost(k) \/ \E n : PostPressed(n) /\ n.key = k
  <2>1. CASE TasksPass
    BY <1>4, <2>1 DEF TasksPass, SameTask, OfAPost
  <2>2. ASSUME NEW n, CasePressed(n) \/ PostPressed(n), u \notin tasks
        PROVE  PostPressed(n) /\ n.key = k
    BY <1>4, <2>2 DEF CasePressed, PostPressed, TaskOf, CaseKind
  <2>3. ASSUME NEW n, RaisePressed(n) \/ ProposalPressed(n)
        PROVE  u \in tasks
    BY <2>3 DEF RaisePressed, ProposalPressed
  <2>4. u \in tasks => OfAPost(k)
    BY <1>4 DEF OfAPost
  <2>5. QED
    BY <2>1, <2>2, <2>3, <2>4, EveryStep DEF Quiet
<1>5. QED
  BY <1>1, <1>2, <1>3, <1>4 DEF OfAPost

LEMMA ActionKeysPass ==
    ASSUME AnswerInv, [CopilotNext]_allVars, NEW k, OfAnAction(k)'
    PROVE  OfAnAction(k) \/ (k = presses + 1 /\ \E n : CasePressed(n))
<1>1. CASE Quiet
  <2>1. ASSUME NEW d \in calls', Keyed(d), d.key = k
        PROVE  OfAnAction(k)
    BY <1>1, <2>1 DEF Quiet, CallsPass, FromOthers, FromRecover, Passes, SameCall, OfAnAction,
       Keyed, OfCase
  <2>2. ASSUME NEW a \in DOMAIN keys', keys'[a] = k
        PROVE  OfAnAction(k)
    BY <1>1, <2>2 DEF Quiet, KeysPass, OfAnAction
  <2>3. QED
    BY <2>1, <2>2 DEF OfAnAction, Keyed, OfCase
<1>2. ASSUME NEW n, CasePressed(n)
      PROVE  OfAnAction(k) \/ k = presses + 1
  <2>1. ASSUME NEW d \in calls', Keyed(d), d.key = k
        PROVE  OfAnAction(k) \/ k = presses + 1
    BY <1>2, <2>1 DEF CasePressed, PressOf, OfAnAction, Keyed
  <2>2. ASSUME NEW a \in DOMAIN keys', keys'[a] = k
        PROVE  OfAnAction(k) \/ k = presses + 1
    BY <1>2, <2>2 DEF CasePressed, OfAnAction
  <2>3. QED
    BY <2>1, <2>2 DEF OfAnAction, Keyed, OfCase
<1>3. ASSUME NEW n, PostPressed(n) \/ RaisePressed(n) \/ ProposalPressed(n)
      PROVE  OfAnAction(k)
  <2>1. ~ Keyed(n) /\ keys' = keys /\ calls' = calls \cup {n}
    BY <1>3 DEF PostPressed, RaisePressed, ProposalPressed, PressOf, Keyed, OfCase, CaseKind
  <2>2. QED
    BY <2>1 DEF OfAnAction, Keyed, OfCase
<1>4. QED
  BY <1>1, <1>2, <1>3, EveryStep

LEMMA HandlersStayApart ==
    ASSUME AnswerInv, HandlersApart, [CopilotNext]_allVars
    PROVE  HandlersApart'
<1>1. /\ presses \in Nat
      /\ \A c \in calls : c.press \in 0 .. presses
      /\ \A t \in tasks : t.press \in 1 .. presses
  BY DEF AnswerInv, CallsNumbered, IsCall, TasksNumbered
<1>2. CASE Quiet
  <2>1. \A d \in calls' : d.kind = "post" => \E c \in calls : SameCall(c, d)
    BY <1>2 DEF Quiet, CallsPass, FromOthers, OthersKind, FromRecover, Passes
  <2>2. \A u \in tasks' : \E t \in tasks : SameTask(t, u)
    BY <1>2 DEF Quiet, TasksPass
  <2>3. ASSUME NEW c \in calls', c.kind = "post" PROVE c.press # 0
    BY <2>1, <2>3 DEF HandlersApart, SameCall
  <2>4. ASSUME NEW t \in tasks', NEW u \in tasks', t.press = u.press PROVE t.kind = u.kind
    BY <2>2, <2>4 DEF HandlersApart, SameTask
  <2>5. ASSUME NEW u \in tasks', NEW d \in calls', u.kind = "post", d.press = u.press
        PROVE  d.kind = "post" /\ d.key = u.key
    <3>1. PICK t \in tasks : SameTask(t, u)
      BY <2>2
    <3>2. t.kind = "post" /\ t.press = d.press /\ t.key = u.key /\ d.press # 0
      BY <1>1, <2>5, <3>1 DEF SameTask
    <3>3. ~ FromOthers(d) /\ ~ FromRecover(d)
      BY <3>2 DEF FromOthers, FromRecover, HandlersApart
    <3>4. PICK c \in calls : Passes(c, d)
      BY <1>2, <3>3 DEF Quiet, CallsPass
    <3>5. QED
      BY <3>2, <3>4 DEF Passes, SameCall, HandlersApart
  <2>6. QED
    BY <2>3, <2>4, <2>5 DEF HandlersApart
<1>3. ASSUME NEW n, PressOf(n), UNCHANGED tasks \/ TaskOf(n)
      PROVE  HandlersApart'
  <2>1. calls' = calls \cup {n} /\ n.press = presses + 1
    BY <1>3 DEF PressOf
  <2>2. ASSUME NEW c \in calls', c.kind = "post" PROVE c.press # 0
    BY <1>1, <2>1, <2>2 DEF HandlersApart
  <2>3. CASE UNCHANGED tasks
    <3>1. \A t \in tasks : t.press # n.press
      BY <1>1, <2>1
    <3>2. QED
      BY <2>1, <2>2, <2>3, <3>1 DEF HandlersApart
  <2>4. CASE TaskOf(n)
    <3>1. PICK u : /\ tasks' = tasks \cup {u} /\ u.press = presses + 1
                   /\ u.kind = "post" <=> n.kind = "post"
                   /\ u.kind = "post" => u.key = n.key
      BY <2>4 DEF TaskOf
    <3>2. \A t \in tasks : t.press # presses + 1
      BY <1>1
    <3>3. \A c \in calls : c.press # presses + 1
      BY <1>1
    <3>4. \A t, v \in tasks' : t.press = v.press => t.kind = v.kind
      BY <3>1, <3>2 DEF HandlersApart
    <3>5. \A t \in tasks', c \in calls' :
              t.kind = "post" /\ c.press = t.press => c.kind = "post" /\ c.key = t.key
      BY <2>1, <3>1, <3>2, <3>3 DEF HandlersApart
    <3>6. QED
      BY <2>2, <3>4, <3>5 DEF HandlersApart
  <2>5. QED
    BY <1>3, <2>3, <2>4
<1>4. QED
  BY <1>2, <1>3, EveryStep DEF CasePressed, PostPressed, RaisePressed, ProposalPressed

LEMMA PostsStayAnswered ==
    ASSUME AnswerInv, PostInv, [CopilotNext]_allVars
    PROVE  PostsAnswered'
<1>1. SUFFICES ASSUME NEW d \in calls', d.kind = "post", Answered(d)
               PROVE  IsPosted(d.key)'
  BY DEF PostsAnswered, Answered
<1>2. \A k : IsPosted(k) => IsPosted(k)'
  BY PostsStay DEF PostInv
<1>3. \A n : PressOf(n) => n # d
  BY <1>1 DEF PressOf, Answered
<1>4. CASE d \in calls
  BY <1>1, <1>2, <1>4 DEF PostInv, PostsAnswered
<1>5. ASSUME NEW c \in calls, Passes(c, d)
      PROVE  IsPosted(d.key)'
  <2>1. c.kind = "post" /\ c.key = d.key
    BY <1>1, <1>5 DEF Passes, SameCall
  <2>2. CASE Answered(c)
    BY <1>2, <2>1, <2>2 DEF PostInv, PostsAnswered
  <2>3. CASE ~ Answered(c)
    <3>1. AnsweredWell(c, d.code)
      BY <1>1, <1>5, <2>3 DEF Passes, Answered
    <3>2. IsPosted(c.key)' \/ Known(c)
      BY <1>1, <2>1, <3>1 DEF AnsweredWell, Answered
    <3>3. Known(c) => IsPosted(c.key)
      BY <2>1 DEF Known, PostInv, KeysApart, OfAPost
    <3>4. QED
      BY <1>2, <2>1, <3>2, <3>3
  <2>4. QED
    BY <2>2, <2>3
<1>6. CASE Quiet
  BY <1>1, <1>5, <1>6 DEF Quiet, CallsPass, FromOthers, OthersKind, FromRecover
<1>7. ASSUME NEW n, PressOf(n)
      PROVE  IsPosted(d.key)'
  BY <1>3, <1>4, <1>7 DEF PressOf
<1>8. QED
  BY <1>6, <1>7, EveryStep DEF CasePressed, PostPressed, RaisePressed, ProposalPressed

LEMMA PostsStayTrue ==
    ASSUME AnswerInv, TalkInv, PaneStep, PostInv, [CopilotNext]_allVars
    PROVE  PostInv'
<1>1. PostedShaped' /\ (\A k : IsPosted(k) => IsPosted(k)') /\ StoredPass
  BY PostsStay DEF PostInv
<1>2. /\ presses \in Nat /\ presses' \in Nat /\ 1 .. presses \subseteq 1 .. presses'
      /\ \A n : PressOf(n) => presses' = presses + 1
  <2>1. presses \in Nat
    BY DEF AnswerInv, CallsNumbered
  <2>2. presses' = presses \/ presses' = presses + 1
    BY EveryStep DEF Quiet, CasePressed, PostPressed, RaisePressed, ProposalPressed, PressOf
  <2>3. QED
    BY <2>1, <2>2 DEF PressOf
<1>3. ASSUME NEW n, PostPressed(n)
      PROVE  n.key = presses + 1 \/ OfAPost(n.key)
  BY <1>3 DEF PostPressed, OfAPost
<1>4. KeysInRange'
  <2>1. ASSUME NEW k, OfAPost(k)'
        PROVE  k \in 1 .. presses'
    <3>1. CASE OfAPost(k)
      BY <1>2, <3>1 DEF PostInv, KeysInRange
    <3>2. ASSUME NEW n, PostPressed(n), n.key = k, k = presses + 1
          PROVE  k \in 1 .. presses'
      BY <1>2, <3>2 DEF PostPressed
    <3>3. QED
      BY <1>3, <2>1, <3>1, <3>2, PostKeysPass
  <2>2. ASSUME NEW k \in DOMAIN stored'
        PROVE  k \in 1 .. presses'
    <3>1. CASE k \in DOMAIN stored
      BY <1>2, <3>1 DEF PostInv, KeysInRange
    <3>2. ASSUME OfAPost(k) \/ OfAnAction(k)
          PROVE  k \in 1 .. presses'
      BY <1>2, <3>2, ActionKeysInRange DEF PostInv, KeysInRange
    <3>3. QED
      BY <1>1, <2>2, <3>1, <3>2 DEF StoredPass, OfAPost, OfAnAction
  <2>3. QED
    BY <2>1, <2>2 DEF KeysInRange
<1>5. \A k : OfAPost(k) \/ OfAnAction(k) \/ k \in DOMAIN stored => k # presses + 1
  BY <1>2, ActionKeysInRange DEF PostInv, KeysInRange
<1>6. ASSUME NEW k, OfAPost(k)'
      PROVE  (k = presses + 1 /\ \E n : PostPressed(n)) \/ OfAPost(k)
  BY <1>3, <1>6, PostKeysPass
<1>7. ASSUME NEW n, NEW m, PostPressed(n), CasePressed(m)
      PROVE  FALSE
  <2>1. n = m
    BY <1>7, OnePress DEF PostPressed, CasePressed
  <2>2. QED
    BY <1>7, <2>1 DEF PostPressed, CasePressed, CaseKind
<1>8. ASSUME NEW k, OfAPost(k)', OfAnAction(k)'
      PROVE  FALSE
  BY <1>5, <1>6, <1>7, <1>8, ActionKeysPass DEF PostInv, KeysApart
<1>9. ASSUME NEW k, OfAPost(k)', k \in DOMAIN stored'
       PROVE  IsPosted(k)'
  <2>1. CASE k \in DOMAIN stored
    BY <1>1, <1>5, <1>6, <1>9, <2>1 DEF PostInv, KeysApart
  <2>2. CASE \E c \in calls : Keyed(c) /\ c.key = k
    BY <1>5, <1>6, <1>9, <2>2 DEF PostInv, KeysApart, OfAnAction
  <2>3. QED
    BY <1>1, <1>9, <2>1, <2>2 DEF StoredPass
<1>10. KeysApart'
  BY <1>8, <1>9 DEF KeysApart
<1>11. QED
  BY <1>1, <1>4, <1>10, HandlersStayApart, PostsStayAnswered DEF PostInv

\* What he wrote leaves the pane as NothingTypedIsLost says.
Kept ==
    \A i \in DOMAIN talk.pending :
        LET key == talk.pending[i].key
        IN  \/ \E j \in DOMAIN talk'.pending : talk'.pending[j].key = key
            \/ \E j \in DOMAIN posted : posted[j].key = key
            \/ talk.pending[i].state = "failed" /\ UNCHANGED <<reads, pane, tasks>>
            \/ pane'.selected # pane.selected
            \/ \E l \in loads : loads' = loads \ {l}

LEMMA WhatIsTypedIsKept ==
    ASSUME AnswerInv, CasesAreFit, QueuesAreTrue, TalkInv, PaneStep
    PROVE  Kept
<1>1. /\ DOMAIN talk = {"pending", "undelivered", "notice"}
      /\ talk.pending # << >> => HasRow
  BY DEF TalkInv
<1>2. SUFFICES ASSUME NEW i \in DOMAIN talk.pending, pane'.selected = pane.selected,
                      ~ (\E l \in loads : loads' = loads \ {l}),
                      ~ (\E j \in DOMAIN talk'.pending : talk'.pending[j].key = talk.pending[i].key),
                      ~ IsPosted(talk.pending[i].key)
               PROVE  talk.pending[i].state = "failed" /\ UNCHANGED <<reads, pane, tasks>>
  BY DEF Kept, IsPosted
<1>3. HasRow
  BY <1>1, <1>2
<1>4. CASE Steady
  BY <1>2, <1>4 DEF Steady
<1>5. ASSUME NEW n \in DOMAIN talk.pending, HandleDiscardPending(n)
      PROVE  talk.pending[i].state = "failed" /\ UNCHANGED <<reads, pane, tasks>>
  <2>1. talk'.pending = RemoveAt(talk.pending, n)
    BY <1>1, <1>5 DEF HandleDiscardPending
  <2>2. i = n
    BY <1>2, <2>1, DiscardKeys
  <2>3. QED
    BY <1>5, <2>2 DEF HandleDiscardPending, Retryable
<1>6. ASSUME NEW v, NEW p, NEW t, GoesOnWith(v, p, t)
      PROVE  FALSE
  <2>1. Row(v.items, pane.selected).thread = Row(view.items, pane.selected).thread
    <3>1. pane.selected \in Ids(view.items) /\ pane.selected \in Ids(v.items)
      BY <1>3, <1>6 DEF GoesOnWith, HasRow, SelectedIn
    <3>2. ItemsAreTrue(view.items) /\ ItemsAreTrue(v.items)
      BY <1>6 DEF GoesOnWith, QueuesAreTrue, ViewIsTrue
    <3>3. /\ ItemIsTrue(Row(view.items, pane.selected)) /\ Row(view.items, pane.selected).id = pane.selected
          /\ ItemIsTrue(Row(v.items, pane.selected)) /\ Row(v.items, pane.selected).id = pane.selected
      BY <3>1, <3>2, RowIsTrue
    <3>4. QED
      BY <3>3 DEF ItemIsTrue
  <2>2. ThreadIn(v, p) = ThreadIn(view, pane)
    <3>1. p.selected = pane.selected
      BY <1>6 DEF GoesOnWith, SamePane
    <3>2. SelectedIn(v, p) /\ SelectedIn(view, pane)
      BY <1>3, <1>6, <3>1 DEF GoesOnWith, SelectedIn, HasRow
    <3>3. QED
      BY <2>1, <3>1, <3>2 DEF ThreadIn
  <2>3. talk' = t /\ Pends(t)
    BY <1>6, <2>2 DEF GoesOnWith, Render
  <2>4. CASE t.pending = talk.pending
    BY <1>2, <2>3, <2>4
  <2>5. ASSUME NEW key \in Nat, t.pending = Sending(key)
        PROVE  FALSE
    BY <1>2, <2>3, <2>5, SendingKeys
  <2>6. ASSUME NEW key, t.pending = Failed(key)
        PROVE  FALSE
    BY <1>2, <2>3, <2>6, FailedKeys
  <2>7. ASSUME NEW key, t.pending = Sent(key), IsPosted(key)
        PROVE  FALSE
    BY <1>2, <2>3, <2>7, SentKeys
  <2>8. \/ t.pending = talk.pending
        \/ \E key \in Nat : t.pending = Sending(key)
        \/ \E key : t.pending = Failed(key)
        \/ \E key : t.pending = Sent(key) /\ IsPosted(key)
    BY <2>3 DEF Pends
  <2>9. QED
    BY <2>4, <2>5, <2>6, <2>7, <2>8
<1>7. ASSUME NEW v, NEW p, Rereads(v, p)
      PROVE  FALSE
  BY <1>2, <1>7 DEF Rereads
<1>8. ASSUME NEW p, Leaving(p)
      PROVE  FALSE
  BY <1>2, <1>8 DEF Leaving, Render, AnswerInv, PaneInv
<1>9. QED
  BY <1>4, <1>5, <1>6, <1>7, <1>8 DEF PaneStep, Discards
-----------------------------------------------------------------------------
(* The card.  What a suggestion says was fit as the case was found, and it  *)
(* was found no earlier than the row beside it was read.                    *)

IsFit(of, advice) ==
    /\ advice = "acknowledge" => of.status = "OPEN" /\ of.owner = None
    /\ advice = "takeover" =>
           of.status \in {"ACKNOWLEDGED", "IN_PROGRESS"} /\ of.owner # None /\ ~ of.taken
    /\ advice = "post" => of.taken
    /\ advice = "sequence" =>
           of.status \in {"ACKNOWLEDGED", "IN_PROGRESS"} /\ of.owner = Me
    /\ advice \in {None, "cancel", "resolve", "acknowledge", "takeover", "post", "sequence"}

NoOlder(of) ==
    HasRow /\ of.case = pane.selected /\ Position(of.status) >= Position(Selected.status)

FetchIsFit(f) ==
    /\ DOMAIN f = {"case", "live", "answer"} /\ f.case \in Escalation
    /\ f.answer # None => IsFit(f.answer.of, f.answer.advice)
    /\ f.live => /\ HasRow /\ f.case = pane.selected
                 /\ f.answer # None => NoOlder(f.answer.of)

CardInv ==
    /\ ~ Advising => fetches = {} /\ card.state # "ready"
    /\ \A f \in fetches : FetchIsFit(f)
    /\ card.state = "ready" => IsFit(card.of, card.advice) /\ NoOlder(card.of)

LEMMA AdviceIsFit ==
    ASSUME CasesAreFit, NEW e \in Escalation, NEW advice \in Advice(e)
    PROVE  IsFit(Found(e), advice)
<1>1. Found(e).status = escalation[e].status /\ Found(e).owner = escalation[e].owner
      /\ Found(e).taken = Taken(e)
  BY DEF Found
<1>2. advice \in {None, "cancel", "resolve", "acknowledge", "takeover", "post", "sequence"}
  BY DEF Advice
<1>3. None \notin {"acknowledge", "takeover", "post", "sequence"}
  BY CodeAssumption
<1>4. advice = "acknowledge" => escalation[e].status = "OPEN"
  BY <1>3 DEF Advice, Available
<1>5. advice = "takeover" => ~ Taken(e) /\ Works(e)
  BY <1>3 DEF Advice, Available
<1>6. advice = "post" => Taken(e)
  BY <1>3 DEF Advice, Available
<1>7. advice = "sequence" => Works(e) /\ Mine(e)
  BY <1>3 DEF Advice, Available
<1>8. QED
  BY <1>1, <1>2, <1>4, <1>5, <1>6, <1>7 DEF IsFit, Works, Owned, Mine, CasesAreFit

LEMMA RowShown ==
    ASSUME QueuesAreTrue, HasRow
    PROVE  /\ Selected.id = pane.selected /\ pane.selected \in Escalation /\ Exists(pane.selected)
           /\ Position(Selected.status) <= Position(escalation[pane.selected].status)
<1>1. pane.selected \in Ids(view.items) /\ ItemsAreTrue(view.items)
  BY DEF HasRow, SelectedIn, QueuesAreTrue, ViewIsTrue
<1>2. Row(view.items, pane.selected).id = pane.selected /\ ItemIsTrue(Row(view.items, pane.selected))
      /\ pane.selected \in Escalation /\ Exists(pane.selected)
  BY <1>1, RowIsTrue
<1>3. QED
  BY <1>2 DEF ItemIsTrue, Selected

LEMMA RowShownThen ==
    ASSUME QueuesAreTrue', HasRow'
    PROVE  Selected'.id = pane'.selected /\ pane'.selected \in Escalation
<1>1. PICK items, e : items = view'.items /\ e = pane'.selected
  OBVIOUS
<1>2. e \in Ids(items) /\ \A i \in DOMAIN items : items[i].id \in Escalation
  BY <1>1 DEF HasRow, SelectedIn, QueuesAreTrue, ViewIsTrue, ItemsAreTrue, ItemIsTrue
<1>3. Row(items, e).id = e /\ e \in Escalation
  BY <1>2, RowIsAnItem
<1>4. QED
  BY <1>1, <1>3 DEF Selected

LEMMA CardOfSameRow ==
    ASSUME HasRow => HasRow' /\ pane'.selected = pane.selected /\ Selected'.status = Selected.status
    PROVE  /\ \A of : NoOlder(of) => NoOlder(of)'
           /\ \A f : FetchIsFit(f) => FetchIsFit(f)'
<1>1. \A of : NoOlder(of) => NoOlder(of)'
  BY DEF NoOlder
<1>2. QED
  BY <1>1 DEF FetchIsFit

LEMMA ConsoleCard ==
    ASSUME QueuesAreTrue, QueuesAreTrue', CardInv, errand' = errand, CopilotEffect
    PROVE  CardInv'
<1>1. CASE ~ Advising \/ CopilotKey' = CopilotKey
  <2>1. UNCHANGED <<card, fetches>>
    BY <1>1 DEF CopilotEffect
  <2>2. CASE ~ Advising
    <3>1. fetches' = {} /\ card' = card /\ ~ Advising'
      BY <2>1, <2>2 DEF CardInv, Advising
    <3>2. QED
      BY <2>2, <3>1 DEF CardInv
  <2>3. CASE CopilotKey' = CopilotKey
    <3>1. HasRow => HasRow' /\ pane'.selected = pane.selected /\ Selected'.status = Selected.status
      <4>1. SUFFICES ASSUME HasRow
                     PROVE  HasRow' /\ pane'.selected = pane.selected
                            /\ Selected'.status = Selected.status
        OBVIOUS
      <4>2. CopilotKey = {<<Selected.id, Selected.status>>}
        BY <4>1 DEF CopilotKey
      <4>3. HasRow' /\ CopilotKey' = {<<Selected'.id, Selected'.status>>}
        <5>1. CopilotKey' = IF HasRow' THEN {<<Selected'.id, Selected'.status>>} ELSE {}
          BY DEF CopilotKey
        <5>2. CopilotKey' # {}
          BY <2>3, <4>2
        <5>3. QED
          BY <5>1, <5>2
      <4>4. Selected'.id = Selected.id /\ Selected'.status = Selected.status
        <5>1. PICK a, b, c, d : /\ a = Selected.id /\ b = Selected.status
                                /\ c = Selected'.id /\ d = Selected'.status
          OBVIOUS
        <5>2. {<<a, b>>} = {<<c, d>>}
          BY <2>3, <4>2, <4>3, <5>1
        <5>3. <<a, b>> = <<c, d>>
          BY <5>2
        <5>4. QED
          BY <5>1, <5>3
      <4>5. Selected.id = pane.selected
        BY <4>1, RowShown
      <4>6. Selected'.id = pane'.selected
        BY <4>3, RowShownThen
      <4>7. QED
        BY <4>3, <4>4, <4>5, <4>6
    <3>2. QED
      BY <2>1, <3>1, CardOfSameRow DEF CardInv, Advising
  <2>4. QED
    BY <1>1, <2>2, <2>3
<1>2. CASE Advising /\ CopilotKey' # CopilotKey
  <2> DEFINE new == [case |-> pane'.selected, live |-> TRUE, answer |-> None]
  <2>1. /\ card' = IF HasRow' THEN [NoCard EXCEPT !.state = "loading"] ELSE NoCard
        /\ \A f \in fetches' : f \in Ignored \/ (HasRow' /\ f = new)
    BY <1>2 DEF CopilotEffect
  <2>2. card'.state # "ready"
    BY <2>1 DEF NoCard
  <2>3. ASSUME NEW f \in Ignored
        PROVE  FetchIsFit(f)'
    <3>1. PICK g \in fetches : f = [g EXCEPT !.live = FALSE]
      BY <2>3 DEF Ignored
    <3>2. /\ DOMAIN g = {"case", "live", "answer"} /\ g.case \in Escalation
          /\ g.answer # None => IsFit(g.answer.of, g.answer.advice)
      BY DEF CardInv, FetchIsFit
    <3>3. DOMAIN f = DOMAIN g /\ f.case = g.case /\ f.live = FALSE /\ f.answer = g.answer
      BY <3>1, <3>2
    <3>4. QED
      BY <3>2, <3>3 DEF FetchIsFit
  <2>4. ASSUME NEW f, HasRow', f = new
        PROVE  FetchIsFit(f)'
    <3>1. DOMAIN f = {"case", "live", "answer"} /\ f.case = pane'.selected /\ f.answer = None
      BY <2>4
    <3>2. pane'.selected \in Escalation
      BY <2>4, RowShownThen
    <3>3. QED
      BY <2>4, <3>1, <3>2 DEF FetchIsFit
  <2>5. \A f \in fetches' : FetchIsFit(f)'
    BY <2>1, <2>3, <2>4
  <2>6. Advising'
    BY <1>2 DEF Advising
  <2>7. QED
    BY <2>2, <2>5, <2>6 DEF CardInv
<1>3. QED
  BY <1>1, <1>2

\* A read of the co-pilot is answered, shown, or given up.
LEMMA FetchedCard ==
    ASSUME CasesAreFit, QueuesAreTrue, CardInv, NEW f \in fetches,
           FetchAnswers(f) \/ FetchLands(f) \/ FetchFails(f)
    PROVE  CardInv'
<1>1. UNCHANGED <<view, pane, errand>>
  BY DEF FetchAnswers, FetchLands, FetchFails, vars
<1>2. HasRow => HasRow' /\ pane'.selected = pane.selected /\ Selected'.status = Selected.status
  BY <1>1 DEF HasRow, SelectedIn, Selected
<1>3. Advising /\ Advising'
  BY <1>1 DEF CardInv, Advising
<1>4. /\ \A of : NoOlder(of) => NoOlder(of)'
      /\ \A g : FetchIsFit(g) => FetchIsFit(g)'
  BY <1>2, CardOfSameRow
<1>5. FetchIsFit(f)
  BY DEF CardInv
<1>6. PICK of : of = card.of /\ (card.state = "ready" => IsFit(of, card.advice) /\ NoOlder(of)')
  BY <1>4 DEF CardInv
<1>7. CASE FetchAnswers(f)
  <2>1. PICK advice \in Advice(f.case) :
            /\ fetches' = (fetches \ {f}) \cup {[f EXCEPT !.answer = Suggestion(f.case, advice)]}
            /\ UNCHANGED card
    BY <1>7 DEF FetchAnswers
  <2> DEFINE a == Suggestion(f.case, advice)
             g == [f EXCEPT !.answer = a]
  <2>2. f.case \in Escalation /\ DOMAIN f = {"case", "live", "answer"}
    BY <1>5 DEF FetchIsFit
  <2>3. a.of = Found(f.case) /\ a.advice = advice
    BY DEF Suggestion
  <2>4. IsFit(a.of, a.advice)
    BY <2>2, <2>3, AdviceIsFit
  <2>5. f.live => NoOlder(a.of)
    <3>1. Found(f.case).case = f.case /\ Found(f.case).status = escalation[f.case].status
      BY DEF Found
    <3>2. \A status : Position(status) \in Nat
      BY PositionIsANumber
    <3>3. QED
      BY <1>5, <2>3, <3>1, <3>2, RowShown DEF FetchIsFit, NoOlder
  <2>6. DOMAIN g = DOMAIN f /\ g.case = f.case /\ g.live = f.live /\ g.answer = a
    BY <2>2
  <2>7. fetches' = (fetches \ {f}) \cup {g}
    BY <2>1
  <2> HIDE DEF a, g
  <2>8. FetchIsFit(g)
    BY <1>5, <2>4, <2>5, <2>6 DEF FetchIsFit
  <2>9. \A h \in fetches' : FetchIsFit(h)'
    BY <1>4, <2>7, <2>8 DEF CardInv
  <2>10. card'.state = "ready" => IsFit(card'.of, card'.advice) /\ NoOlder(card.of)'
    BY <1>6, <2>1 DEF NoOlder
  <2>11. QED
    BY <1>3, <2>9, <2>10 DEF CardInv
<1>8. CASE FetchLands(f) \/ FetchFails(f)
  <2>1. fetches' = fetches \ {f}
    BY <1>8 DEF FetchLands, FetchFails
  <2>2. \A h \in fetches' : FetchIsFit(h)'
    BY <1>4, <2>1 DEF CardInv
  <2>3. \/ card' = card \/ card'.state # "ready"
        \/ /\ f.live /\ f.answer # None
           /\ card'.of = f.answer.of /\ card'.advice = f.answer.advice
    BY <1>8 DEF FetchLands, FetchFails, NoCard
  <2>4. card'.state = "ready" => IsFit(card'.of, card'.advice) /\ NoOlder(card.of)'
    <3>1. CASE card' = card \/ card'.state # "ready"
      BY <1>6, <3>1 DEF NoOlder
    <3>2. CASE f.live /\ f.answer # None
               /\ card'.of = f.answer.of /\ card'.advice = f.answer.advice
      <4>1. PICK w : w = f.answer.of
        OBVIOUS
      <4>2. IsFit(w, card'.advice) /\ NoOlder(w)'
        BY <1>4, <1>5, <3>2, <4>1 DEF FetchIsFit
      <4>3. QED
        BY <3>2, <4>1, <4>2 DEF NoOlder
    <3>3. QED
      BY <2>3, <3>1, <3>2
  <2>5. QED
    BY <1>3, <2>2, <2>4 DEF CardInv
<1>9. QED
  BY <1>7, <1>8

LEMMA CardStaysFit ==
    ASSUME CasesAreFit, QueuesAreTrue, QueuesAreTrue', CardInv, errand' = errand,
           [CopilotNext]_allVars
    PROVE  CardInv'
<1>1. CASE \/ \E e \in DOMAIN rows : RequestProposal(e)
           \/ \E c \in calls : RequestSequencerProposal(c) \/ ProposalLands(c) \/ ProposalFails(c)
           \/ PlannerActs \/ UNCHANGED allVars
  <2>1. UNCHANGED <<view, pane, card, fetches>>
    BY <1>1 DEF RequestProposal, RequestSequencerProposal, ProposalLands, ProposalFails,
       PlannerActs, rowAlone, client, allVars, vars, beside
  <2>2. HasRow => HasRow' /\ pane'.selected = pane.selected /\ Selected'.status = Selected.status
    BY <2>1 DEF HasRow, SelectedIn, Selected
  <2>3. QED
    BY <2>1, <2>2, CardOfSameRow DEF CardInv, Advising
<1>2. QED
  BY <1>1, ConsoleCard, FetchedCard DEF CopilotNext, ConsoleStep
-----------------------------------------------------------------------------
(* The incidents' rows: a row's call is about its incident, and what it     *)
(* says was handed on was.                                                  *)

RowFor(e, row) ==
    /\ DOMAIN row = {"press", "failed", "outcome"} /\ row.press \in 0 .. presses
    /\ \A c \in calls : c.kind = "sequence" /\ c.press = row.press => c.at = e
    /\ row.outcome = "PROPOSED" => e \in handed
IncidentsInv ==
    /\ \A c \in calls : c.kind = "sequence" =>
           /\ c.press # 0 /\ c.key = None
           /\ c.stage = "answered" /\ c.code = "PROPOSED" => c.at \in handed
    /\ rows = [e \in DOMAIN rows |-> rows[e]]
    /\ \A e \in DOMAIN rows : RowFor(e, rows[e])

LEMMA HandedStays == ASSUME [CopilotNext]_allVars PROVE handed \subseteq handed'
BY DEF CopilotNext, ConsoleStep, FetchAnswers, FetchLands, FetchFails, RequestProposal,
   RequestSequencerProposal, ProposalLands, ProposalFails, PlannerActs, rowAlone, allVars, beside

\* A row is new, goes on, asks, or is told what became of what it asked.
RowBecomes(e, row) ==
    \/ row = NewRow
    \/ e \in DOMAIN rows /\ row = rows[e]
    \/ e \in DOMAIN rows /\ row = [NewRow EXCEPT !.press = presses + 1]
           /\ \E n : ProposalPressed(n) /\ n.at = e
    \/ e \in DOMAIN rows /\ \E c \in calls :
           /\ c.kind = "sequence" /\ rows[e].press = c.press
           /\ \/ row = [NewRow EXCEPT !.failed = TRUE]
              \/ row = [NewRow EXCEPT !.outcome = c.code] /\ c.stage = "answered"

LEMMA RowsBecome ==
    ASSUME IncidentsInv, [CopilotNext]_allVars
    PROVE  /\ rows' = [e \in DOMAIN rows' |-> rows'[e]]
           /\ \A e \in DOMAIN rows' : RowBecomes(e, rows'[e])
<1>1. CASE rows' = rows
  BY <1>1 DEF IncidentsInv, RowBecomes
<1>2. CASE RowsEffect
  BY <1>2 DEF RowsEffect, RowBecomes
<1>3. ASSUME NEW x \in DOMAIN rows, RequestProposal(x)
      PROVE  /\ rows' = [e \in DOMAIN rows' |-> rows'[e]]
             /\ \A e \in DOMAIN rows' : RowBecomes(e, rows'[e])
  <2>1. PICK n : ProposalPressed(n)
    BY <1>3, ProposalIsPressed
  <2>2. rows' = [rows EXCEPT ![x] = [NewRow EXCEPT !.press = presses + 1]]
    BY <1>3 DEF RequestProposal
  <2>3. rows' = [rows EXCEPT ![n.at] = [NewRow EXCEPT !.press = presses + 1]]
        /\ n.at \in DOMAIN rows
    BY <2>1 DEF ProposalPressed, RequestProposal
  <2>4. DOMAIN rows' = DOMAIN rows
        /\ \A e \in DOMAIN rows : rows'[e] = IF e = n.at THEN [NewRow EXCEPT !.press = presses + 1]
                                             ELSE rows[e]
    BY <2>3
  <2>5. \A e \in DOMAIN rows : RowBecomes(e, rows'[e])
    BY <2>1, <2>4 DEF RowBecomes
  <2>6. QED
    BY <2>2, <2>4, <2>5 DEF IncidentsInv
<1>4. ASSUME NEW c \in calls, ProposalLands(c) \/ ProposalFails(c)
      PROVE  /\ rows' = [e \in DOMAIN rows' |-> rows'[e]]
             /\ \A e \in DOMAIN rows' : RowBecomes(e, rows'[e])
  <2>1. /\ c.kind = "sequence"
        /\ \/ OfRow(c, [NewRow EXCEPT !.failed = TRUE])
           \/ OfRow(c, [NewRow EXCEPT !.outcome = c.code]) /\ c.stage = "answered"
    BY <1>4 DEF ProposalLands, ProposalFails
  <2>2. QED
    BY <2>1 DEF OfRow, RowBecomes
<1>5. ASSUME \/ PlannerActs \/ UNCHANGED allVars
             \/ \E f \in fetches : FetchAnswers(f) \/ FetchLands(f) \/ FetchFails(f)
             \/ \E c \in calls : RequestSequencerProposal(c)
      PROVE  rows' = rows
  BY <1>5 DEF PlannerActs, allVars, beside, FetchAnswers, FetchLands, FetchFails,
     RequestSequencerProposal
<1>6. QED
  BY <1>1, <1>2, <1>3, <1>4, <1>5 DEF CopilotNext, ConsoleStep

\* What becomes of calls to the sequencer.
LEMMA ProposalsPass ==
    ASSUME AnswerInv, IncidentsInv, [CopilotNext]_allVars, NEW d \in calls', d.kind = "sequence"
    PROVE  /\ d.press # 0 /\ d.key = None
           /\ d.stage = "answered" /\ d.code = "PROPOSED" => d.at \in handed'
           /\ \/ \E c \in calls : c.kind = "sequence" /\ c.press = d.press /\ c.at = d.at
              \/ ProposalPressed(d)
<1>1. handed \subseteq handed'
  BY HandedStays
<1>2. CASE d \in calls
  BY <1>1, <1>2 DEF IncidentsInv
<1>3. CASE Quiet
  <2>1. PICK c \in calls : Passes(c, d)
    BY <1>3 DEF Quiet, CallsPass, FromOthers, OthersKind, FromRecover
  <2>2. c.kind = "sequence" /\ c.press = d.press /\ c.at = d.at /\ c.key = d.key
    BY <2>1 DEF Passes, SameCall
  <2>3. c.press # 0 /\ c.key = None
        /\ (c.stage = "answered" /\ c.code = "PROPOSED" => c.at \in handed)
    BY <2>2 DEF IncidentsInv
  <2>4. d.stage = "answered" /\ d.code = "PROPOSED" => d.at \in handed'
    BY <1>1, <2>1, <2>2, <2>3 DEF Passes, AnsweredWell
  <2>5. QED
    BY <2>2, <2>3, <2>4
<1>4. ASSUME NEW n, CasePressed(n) \/ PostPressed(n) \/ RaisePressed(n) \/ ProposalPressed(n),
             d \notin calls
      PROVE  ProposalPressed(d) /\ d.press # 0 /\ d.key = None /\ d.stage = "sent"
  <2>1. d = n
    BY <1>4 DEF CasePressed, PostPressed, RaisePressed, ProposalPressed, PressOf
  <2>2. ProposalPressed(d)
    BY <1>4, <2>1 DEF CasePressed, PostPressed, RaisePressed, CaseKind
  <2>3. presses \in Nat
    BY DEF AnswerInv, CallsNumbered
  <2>4. QED
    BY <2>2, <2>3 DEF ProposalPressed, PressOf
<1>5. QED
  BY <1>2, <1>3, <1>4, EveryStep

LEMMA IncidentsStay ==
    ASSUME AnswerInv, IncidentsInv, [CopilotNext]_allVars
    PROVE  IncidentsInv'
<1>1. handed \subseteq handed'
  BY HandedStays
<1>2. presses \in Nat /\ \A c \in calls : c.press \in 0 .. presses
  BY DEF AnswerInv, CallsNumbered, IsCall
<1>3. presses' = presses \/ presses' = presses + 1
  BY EveryStep DEF Quiet, CasePressed, PostPressed, RaisePressed, ProposalPressed, PressOf
<1>4. ASSUME NEW e, NEW row, RowBecomes(e, row)
      PROVE  RowFor(e, row)'
  <2>0. NewRow.press = 0 /\ NewRow.outcome = None /\ DOMAIN NewRow = {"press", "failed", "outcome"}
        /\ None # "PROPOSED"
    BY CodeAssumption DEF NewRow
  <2>1. ASSUME DOMAIN row = {"press", "failed", "outcome"}, row.press \in {0, rows[e].press},
               row.press # 0 => e \in DOMAIN rows, row.outcome = "PROPOSED" => e \in handed
        PROVE  RowFor(e, row)'
    <3>1. row.press \in 0 .. presses'
      BY <1>2, <1>3, <2>1 DEF IncidentsInv, RowFor
    <3>2. ASSUME NEW d \in calls', d.kind = "sequence", d.press = row.press
          PROVE  d.at = e
      <4>1. d.press # 0
        BY <3>2, ProposalsPass
      <4>2. e \in DOMAIN rows /\ row.press = rows[e].press
        BY <2>1, <3>2, <4>1
      <4>3. d.press \in 0 .. presses
        BY <3>2, <4>2 DEF IncidentsInv, RowFor
      <4>4. ~ ProposalPressed(d)
        BY <1>2, <4>3 DEF ProposalPressed, PressOf
      <4>5. PICK c \in calls : c.kind = "sequence" /\ c.press = d.press /\ c.at = d.at
        BY <3>2, <4>4, ProposalsPass
      <4>6. QED
        BY <3>2, <4>2, <4>5 DEF IncidentsInv, RowFor
    <3>3. QED
      BY <1>1, <2>1, <3>1, <3>2 DEF RowFor
  <2>2. CASE row = NewRow
    BY <2>0, <2>1, <2>2
  <2>3. CASE e \in DOMAIN rows /\ row = rows[e]
    BY <2>1, <2>3 DEF IncidentsInv, RowFor
  <2>4. ASSUME e \in DOMAIN rows, row = [NewRow EXCEPT !.press = presses + 1],
               NEW n, ProposalPressed(n), n.at = e
        PROVE  RowFor(e, row)'
    <3>1. /\ DOMAIN row = {"press", "failed", "outcome"} /\ row.press = presses + 1
          /\ row.outcome # "PROPOSED"
      BY <2>0, <2>4
    <3>2. presses' = presses + 1 /\ calls' = calls \cup {n}
      BY <2>4 DEF ProposalPressed, PressOf
    <3>3. \A c \in calls : c.press # row.press
      BY <1>2, <3>1
    <3>4. \A c \in calls' : c.kind = "sequence" /\ c.press = row.press => c.at = e
      BY <2>4, <3>2, <3>3
    <3>5. QED
      BY <1>2, <3>1, <3>2, <3>4 DEF RowFor
  <2>5. ASSUME e \in DOMAIN rows, NEW c \in calls, c.kind = "sequence", rows[e].press = c.press,
               \/ row = [NewRow EXCEPT !.failed = TRUE]
               \/ row = [NewRow EXCEPT !.outcome = c.code] /\ c.stage = "answered"
        PROVE  RowFor(e, row)'
    <3>1. c.at = e
      BY <2>5 DEF IncidentsInv, RowFor
    <3>2. /\ DOMAIN row = {"press", "failed", "outcome"} /\ row.press = 0
          /\ row.outcome = "PROPOSED" => c.stage = "answered" /\ c.code = "PROPOSED"
      BY <2>0, <2>5
    <3>3. QED
      BY <2>1, <2>5, <3>1, <3>2 DEF IncidentsInv
  <2>6. QED
    BY <1>4, <2>2, <2>3, <2>4, <2>5 DEF RowBecomes
<1>5. \A e \in DOMAIN rows' : RowFor(e, rows[e])'
  <2>1. ASSUME NEW e \in DOMAIN rows', NEW row, row = rows'[e]
        PROVE  RowFor(e, rows[e])'
    <3>1. RowFor(e, row)'
      BY <1>4, <2>1, RowsBecome
    <3>2. QED
      BY <2>1, <3>1 DEF RowFor
  <2>2. QED
    BY <2>1
<1>6. \A d \in calls' : d.kind = "sequence" =>
          /\ d.press # 0 /\ d.key = None
          /\ d.stage = "answered" /\ d.code = "PROPOSED" => d.at \in handed'
  BY ProposalsPass
<1>7. QED
  BY <1>5, <1>6, RowsBecome DEF IncidentsInv
-----------------------------------------------------------------------------
(* All of it together.                                                      *)

ConsoleInv ==
    /\ AnswerInv /\ CasesInv /\ QueuesAreTrue /\ Flags
    /\ TalkInv /\ PostInv /\ CardInv /\ IncidentsInv

LEMMA CasesStartFit == ASSUME CopilotInit PROVE CasesAreFit
<1>1. PICK k \in Errand :
          escalation = [e \in Escalation |-> IF e \in DOMAIN Raised[k] THEN Raised[k][e] ELSE NoCase]
  BY DEF CopilotInit, Init, ServiceInit
<1>2. ASSUME NEW e \in DOMAIN Raised[k]
      PROVE  /\ Raised[k][e].status = "OPEN" => Raised[k][e].owner = None
             /\ Raised[k][e].thread # None
  BY RaisedAssumption, EscalationAssumption DEF EscalationRow
<1>3. ASSUME NEW e \in Escalation
      PROVE  /\ escalation[e].status = "OPEN" => escalation[e].owner = None
             /\ Exists(e) => escalation[e].thread # None
  BY <1>1, <1>2 DEF NoCase, Exists
<1>4. QED
  BY <1>3 DEF CasesAreFit

LEMMA ConsoleStarts == ASSUME CopilotInit PROVE ConsoleInv
<1>1. /\ calls = {} /\ presses = 0 /\ tasks = {} /\ keys = [a \in {} |-> None]
      /\ posted = << >> /\ stored = [k \in {} |-> None]
      /\ poll = [timer |-> TRUE, flight |-> "none", answer |-> None, hidden |-> FALSE]
      /\ loads = {[by |-> 0, answer |-> None]} /\ view = EmptyOpsLiveState
      /\ focus = FALSE /\ busy = FALSE
      /\ talk = [pending |-> << >>, undelivered |-> {}, notice |-> None]
      /\ dialog = ClosedDialog /\ card = NoCard /\ fetches = {} /\ rows = [e \in {} |-> NewRow]
  BY DEF CopilotInit, Init, ServiceInit, LP!PollInit, LP!Refs
<1>2. CasesInv
  BY <1>1, CasesStartFit DEF CasesInv, AboutCases, DialogIsFit, ClosedDialog
<1>3. << >> \in Seq({}) /\ DOMAIN << >> = {} /\ << >> \in Seq(Message)
  OBVIOUS
<1>4. QueuesAreTrue
  BY <1>1, <1>3 DEF QueuesAreTrue, ViewIsTrue, ItemsAreTrue, PollIsTrue, LoadsAreTrue,
     EmptyOpsLiveState
<1>5. Flags /\ TalkInv
  BY <1>1, <1>3 DEF Flags, TalkInv
<1>6. PostInv
  BY <1>1, <1>3 DEF PostInv, PostedShaped, KeysInRange, KeysApart, HandlersApart, PostsAnswered,
     OfAPost, OfAnAction
<1>7. CardInv /\ IncidentsInv
  BY <1>1 DEF CardInv, IncidentsInv, NoCard
<1>8. QED
  BY <1>2, <1>4, <1>5, <1>6, <1>7, AnswersStart DEF ConsoleInv

LEMMA ConsoleGoesOn ==
    ASSUME ConsoleInv, [CopilotNext]_allVars
    PROVE  ConsoleInv' /\ Kept
<1>1. /\ AnswerInv /\ CasesInv /\ QueuesAreTrue /\ Flags /\ TalkInv /\ PostInv
      /\ CardInv /\ IncidentsInv /\ CasesAreFit /\ AboutCases
  BY DEF ConsoleInv, CasesInv
<1>2. RowsStep /\ AnswerInv'
  BY <1>1, AnswersStay, EveryRowsStep DEF AnswerInv
<1>3. PaneStep
  BY <1>1, PostsTellTruth, EveryPane DEF Flags
<1>4. HasRow => pane.selected \in Escalation /\ Exists(pane.selected)
  BY <1>1, RowShown
<1>5. CasesInv'
  BY <1>1, <1>2, <1>4, CasesStayFit, StillAboutCases, DialogStaysFit DEF CasesInv
<1>6. QueuesAreTrue'
  BY <1>1, <1>2, <1>3, QueuesStayTrue
<1>7. Flags' /\ errand' = errand
  BY <1>1, FlagsStay
<1>8. TalkInv'
  BY <1>1, <1>3, TalkStays
<1>9. PostInv'
  BY <1>1, <1>3, PostsStayTrue
<1>10. CardInv'
  BY <1>1, <1>6, <1>7, CardStaysFit
<1>11. IncidentsInv'
  BY <1>1, IncidentsStay
<1>12. Kept
  BY <1>1, <1>3, WhatIsTypedIsKept
<1>13. QED
  BY <1>2, <1>5, <1>6, <1>7, <1>8, <1>9, <1>10, <1>11, <1>12 DEF ConsoleInv

\* What a message's sender wrote leaves his pane for one of the reasons there
\* are: it was posted, he discarded it, he left the case, or he had the queue
\* read again.  No poll and no other coordinator takes it away, whatever order
\* their answers come in (ops-console.tsx's effects on the thread shown,
\* handleSendMessage, handleRetryPending).
THEOREM NothingTypedIsLostAlways == CopilotSpec => NothingTypedIsLost
<1>1. CopilotInit => ConsoleInv
  BY ConsoleStarts
<1>2. ConsoleInv /\ [CopilotNext]_allVars => ConsoleInv' /\ Kept
  BY ConsoleGoesOn
<1>3. QED
  BY <1>1, <1>2, PTL DEF CopilotSpec, NothingTypedIsLost, Kept

LEMMA AdviceStands == ASSUME ConsoleInv PROVE AdviceIsTrue
<1>1. /\ CardInv /\ IncidentsInv
  BY DEF ConsoleInv
<1>2. \A e \in DOMAIN rows : rows[e].outcome = "PROPOSED" => e \in handed
  BY <1>1 DEF IncidentsInv, RowFor
<1>3. ASSUME card.state = "ready"
      PROVE  HasRow /\ card.of.case = pane.selected
             /\ Position(card.of.status) >= Position(Selected.status)
  BY <1>1, <1>3 DEF CardInv, NoOlder
<1>4. ASSUME card.state = "ready", SuggestedNextStep # None, card.of = Found(pane.selected)
      PROVE  /\ Accepts(pane.selected, SuggestedNextStep)
             /\ Selected = EscalationQueueItem(pane.selected) => Offered(SuggestedNextStep, Selected)
  <2> DEFINE e == pane.selected
             a == card.advice
  <2>1. SuggestedNextStep = a /\ IsFit(card.of, a)
    BY <1>1, <1>4 DEF SuggestedNextStep, CardInv
  <2>2. card.of.status = escalation[e].status /\ card.of.owner = escalation[e].owner
        /\ card.of.taken = Taken(e)
    BY <1>4 DEF Found
  <2>3. /\ EscalationQueueItem(e).status = escalation[e].status
        /\ EscalationQueueItem(e).owner = escalation[e].owner
        /\ EscalationQueueItem(e).taken = Taken(e)
    BY DEF EscalationQueueItem, Taken
  <2> HIDE DEF a
  <2>4. CASE a = "acknowledge"
    BY <2>1, <2>2, <2>3, <2>4 DEF IsFit, Accepts, Offered, OwnerControl
  <2>5. CASE a = "takeover"
    BY <2>1, <2>2, <2>3, <2>5 DEF IsFit, Accepts, Offered, TakeoverControl, Works, Owned
  <2>6. CASE a = "post"
    BY <2>1, <2>2, <2>3, <2>6 DEF IsFit, Accepts, Offered
  <2>7. CASE a = "sequence"
    BY <2>1, <2>2, <2>3, <2>7, MeIsSomebody DEF IsFit, Accepts, Offered, Works, Owned, Mine
  <2>8. CASE a \in {"cancel", "resolve"}
    BY <2>1, <2>8 DEF Accepts, Offered
  <2>9. QED
    BY <1>4, <2>1, <2>4, <2>5, <2>6, <2>7, <2>8 DEF IsFit
<1>5. QED
  BY <1>2, <1>3, <1>4 DEF AdviceIsTrue

\* The card never points at a control that is refused, is never about another
\* case than the one shown, nor older than its row; and a row that says its
\* proposal went to the planners is about a run that was made (ops_copilot.py's
\* offers, copilot-pane.tsx's effect and its ignored reads,
\* request_sequencer_proposal).
THEOREM AdviceIsTrueAlways == CopilotSpec => []AdviceIsTrue
<1>1. CopilotInit => ConsoleInv
  BY ConsoleStarts
<1>2. ConsoleInv /\ [CopilotNext]_allVars => ConsoleInv'
  BY ConsoleGoesOn
<1>3. ConsoleInv => AdviceIsTrue
  BY AdviceStands
<1>4. QED
  BY <1>1, <1>2, <1>3, PTL DEF CopilotSpec
=============================================================================
