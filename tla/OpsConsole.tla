----------------------------- MODULE OpsConsole -----------------------------
(***************************************************************************)
(* The operations console (features/ops): a coordinator's queue of open    *)
(* escalations, the case he selected, its driver's thread, and the dialog  *)
(* that raises another case; over EscalationService and the loop that      *)
(* re-reads the queue (LivePoll).                                          *)
(*                                                                         *)
(* A handler is a task: it calls, then awaits a read of the queue, then    *)
(* one of the thread.  A call may fail at any moment; the server may have  *)
(* done it, or do it yet.                                                  *)
(***************************************************************************)
EXTENDS EscalationService, Sublists, FiniteSetsExt, SequencesExt

CONSTANTS
    Me,             \* the coordinator at this console
    Raised,         \* the escalations there are at first, by errand
    Incident,       \* the Reason that is a capacity incident
    Left,           \* threads an earlier case, closed since, left taken over
    MaxPresses,     \* bound: calls he makes, by errand
    MaxClicks       \* bound: what else he does, and the polls that fire, by errand

Errand == {"case", "talk", "recover", "raise", "advise"}

ASSUME ConsoleAssumption ==
    /\ Me \in User /\ Left \subseteq Thread /\ Incident \in Reason
    /\ \A k \in Errand : DOMAIN Raised[k] \subseteq Escalation
    /\ MaxPresses \in [Errand -> Nat] /\ MaxClicks \in [Errand -> Nat]

\* The rows there are at first stand under the partial unique index; what nobody
\* acknowledged is nobody's.
ASSUME RaisedAssumption ==
    \A k \in Errand : LET row == Raised[k] IN
        /\ \A e \in DOMAIN row : row[e] \in EscalationRow
        /\ \A e \in DOMAIN row : row[e].status = "OPEN" => row[e].owner = None
        /\ \A e, f \in DOMAIN row :
               (row[e].status \notin Closed /\ row[f].status \notin Closed
                /\ row[e].thread = row[f].thread /\ row[e].reason = row[f].reason
                /\ row[e].day # None /\ row[e].day = row[f].day) => e = f

VARIABLES
    poll,           \* useLivePoll
    loads,          \* load(): reads of the queue awaited by somebody
    region,         \* state: what the queue's region shows
    view,           \* OpsLiveState
    focus,          \* queueFocusWithin
    pane,           \* the selection and what is said of it
    talk,           \* the thread: pending, undelivered, notice
    tasks,          \* handlers at work
    busy,
    keys,           \* idempotencyKeys: a function from actions
    presses, clicks,
    errand,         \* what the coordinator is at the console for
    dialog,         \* EscalateDialog
    told            \* history: the cases he was told he acknowledged

vars == <<service, poll, loads, region, view, focus, pane, talk, tasks, busy, keys, presses,
          clicks, errand, dialog, told>>
-----------------------------------------------------------------------------
(* The queue as it is read: not the closed cases, unowned first, then by    *)
(* age.                                                                     *)

EscalationQueueItem(e) ==
    [id |-> e, status |-> escalation[e].status, owner |-> escalation[e].owner,
     thread |-> escalation[e].thread, reason |-> escalation[e].reason,
     taken |-> escalation[e].thread \in takenOver]

ByAge == [e \in Escalation |-> e]
Unowned == {e \in Escalation : Live(e) /\ escalation[e].owner = None}
OwnedBySome == {e \in Escalation : Live(e) /\ escalation[e].owner # None}

QueueRead ==
    LET order == Keep(ByAge, Unowned) \o Keep(ByAge, OwnedBySome)
    IN  [i \in DOMAIN order |-> EscalationQueueItem(order[i])]

Ids(items) == {items[i].id : i \in DOMAIN items}
Row(items, e) == items[CHOOSE i \in DOMAIN items : items[i].id = e]
-----------------------------------------------------------------------------
(* live-queue.ts.                                                           *)

EmptyOpsLiveState == [items |-> <<>>, staged |-> <<>>, gone |-> {}, latest |-> None]
AdoptOpsQueue(q) == [items |-> q, staged |-> <<>>, gone |-> {}, latest |-> q]

KeptInPlace(items, q, keep) ==
    IF keep \notin Ids(items) \ Ids(q) THEN q
    ELSE LET at == CHOOSE i \in DOMAIN items : items[i].id = keep
         IN  InsertAt(q, Min({at, Len(q) + 1}), Row(items, keep))

MergeOpsQueue(v, q, frozen, keep) ==
    IF ~ frozen
    THEN [items |-> KeptInPlace(v.items, q, keep), staged |-> <<>>,
          gone |-> {keep} \cap (Ids(v.items) \ Ids(q)), latest |-> q]
    ELSE [items |-> [i \in DOMAIN v.items |-> IF v.items[i].id \in Ids(q)
                                              THEN Row(q, v.items[i].id) ELSE v.items[i]],
          staged |-> Keep(q, {r \in Members(q) : r.id \notin Ids(v.items)}),
          gone |-> Ids(v.items) \ Ids(q), latest |-> q]

ApplyOpsResort(v, keep) ==
    IF v.latest = None THEN [v EXCEPT !.staged = <<>>, !.gone = {}]
    ELSE MergeOpsQueue(v, v.latest, FALSE, keep)

\* What the selected row's new version says that the shown one did not.
Facts(before, after) ==
    (IF before.owner # after.owner /\ after.owner # Me THEN {"owner"} ELSE {})
    \cup (IF before.status # after.status THEN {"status"} ELSE {})
    \cup (IF before.taken # after.taken
          THEN {IF after.taken THEN "taken over" ELSE "handed back"} ELSE {})

DescribeEscalationChange(before, after) ==
    [id |-> after.id, facts |-> Facts(before, after), at |-> after,
     race |-> after.status \in Closed \/ Facts(before, after) \cap {"owner", "taken over"} # {}]

DescribeDisappearance(item) == [id |-> item.id, facts |-> {"gone"}, at |-> item, race |-> TRUE]

ChangeKey(change) == <<change.id, change.at, change.facts>>
-----------------------------------------------------------------------------
(* Rendering: the row and the thread that are selected, and the effects     *)
(* that run when they change.                                               *)

SelectedIn(v, p) == p.selected # None /\ p.selected \in Ids(v.items)
ThreadIn(v, p) == IF SelectedIn(v, p) THEN Row(v.items, p.selected).thread ELSE None

HasRow == SelectedIn(view, pane)
Selected == Row(view.items, pane.selected)

ForgetTheThread(t) == [t EXCEPT !.pending = <<>>, !.undelivered = {}, !.notice = None]

Render(v, p, t) ==
    /\ view' = v
    /\ pane' = IF p.selected = pane.selected THEN p
               ELSE [p EXCEPT !.change = None, !.dismissed = None]
    /\ talk' = IF ThreadIn(v, p) = ThreadIn(view, pane) THEN t
               ELSE ForgetTheThread(t)
-----------------------------------------------------------------------------
(* Reads of the queue.                                                      *)

LP == INSTANCE LivePoll WITH NothingRead <- None

Frozen == focus \/ busy
Click == clicks < MaxClicks[errand] /\ clicks' = clicks + 1 /\ UNCHANGED errand

awaiting == <<service, poll, focus, keys, presses, clicks, errand, dialog, told>>

PollTick == LP!Fire(busy) /\ Click /\ UNCHANGED <<service, loads, region, view, focus, pane, talk,
                                                  tasks, busy, keys, presses, dialog, told>>
PollAnswered == LP!Answer(QueueRead) /\ UNCHANGED <<service, loads, region, view, focus, pane,
                                            talk, tasks, busy, keys, presses, clicks, errand, dialog, told>>
PollFails == (LP!Lose \/ LP!Fail) /\ UNCHANGED <<service, loads, region, view, focus, pane, talk,
                                            tasks, busy, keys, presses, clicks, errand, dialog, told>>

\* onData.  A change that was dismissed is not said again.
ChangeOf(q) ==
    IF ~ HasRow THEN None
    ELSE IF pane.selected \notin Ids(q) THEN DescribeDisappearance(Selected)
    ELSE LET change == DescribeEscalationChange(Selected, Row(q, pane.selected))
         IN  IF change.facts = {} THEN None ELSE change

PollLands ==
    /\ LP!Land
    /\ LET q == poll.answer
           change == ChangeOf(q)
       IN  Render(MergeOpsQueue(view, q, Frozen, pane.selected),
                  IF change = None \/ pane.dismissed = ChangeKey(change) THEN pane
                  ELSE [pane EXCEPT !.change = change],
                  talk)
    /\ UNCHANGED <<service, loads, region, focus, tasks, busy, keys, presses, clicks, errand, dialog, told>>

\* load(), awaited by the handler of a press or by nobody (0).
Load(by) == loads' = loads \cup {[by |-> by, answer |-> None]} /\ region' = "loading"

QueueAnswers(l) ==
    /\ l.answer = None
    /\ loads' = (loads \ {l}) \cup {[l EXCEPT !.answer = QueueRead]}
    /\ UNCHANGED <<awaiting, region, view, pane, talk, tasks, busy>>

Done(t) == tasks' = tasks \ {t} /\ busy' = FALSE
Proceed(t, stage) == tasks' = (tasks \ {t}) \cup {[t EXCEPT !.stage = stage]} /\ UNCHANGED busy

\* After the read of the queue: the handlers of the thread read it as well.
AfterLoad(l, v, p) ==
    LET waiting == {t \in tasks : t.stage = "load" /\ t.press = l.by}
    IN  IF waiting = {} THEN Render(v, p, talk) /\ UNCHANGED <<tasks, busy>>
        ELSE \E t \in waiting :
                IF t.thenThread
                THEN Render(v, p, talk) /\ Proceed(t, "thread")
                ELSE Render(v, p, talk) /\ Done(t)

QueueLands(l) ==
    /\ l.answer # None
    /\ loads' = loads \ {l}
    /\ region' = "ready"
    /\ AfterLoad(l, AdoptOpsQueue(l.answer), [pane EXCEPT !.change = None])
    /\ UNCHANGED awaiting

QueueFails(l) ==
    /\ loads' = loads \ {l}
    /\ region' = "error"
    /\ AfterLoad(l, view, pane)
    /\ UNCHANGED awaiting

RetryQueue ==
    /\ region = "error" /\ Load(0)
    /\ Click
    /\ UNCHANGED <<service, poll, focus, keys, presses, dialog, told, view, pane, talk, tasks, busy>>

\* loadThread, landed or failed: what the transcript says is left out.
ThreadRead(t) ==
    /\ t.stage = "thread"
    /\ Done(t)
    /\ UNCHANGED <<awaiting, loads, region, view, pane, talk>>
-----------------------------------------------------------------------------
(* What the coordinator does.                                               *)

AtDesk == ~ dialog.open
reads == <<poll, loads, region>>
\* A capacity incident's row opens in its place instead (OpsCopilot).
Select(e) ==
    /\ AtDesk /\ region = "ready" /\ e \in Ids(view.items) /\ e # pane.selected
    /\ Row(view.items, e).reason # Incident
    /\ Click
    /\ Render(view, [pane EXCEPT !.selected = e, !.already = None], talk)
    /\ UNCHANGED <<service, reads, focus, tasks, busy, keys, presses, dialog, told>>

FocusOrBlur ==
    /\ AtDesk /\ Click
    /\ focus' = ~ focus
    /\ UNCHANGED <<service, reads, view, pane, talk, tasks, busy, keys, presses, dialog, told>>

\* The button, which counts the arrivals, and the key, which is heard within the
\* pane whether there are any or not.
ResortAsked == view.staged # <<>> \/ focus

ApplyArrivals ==
    /\ AtDesk /\ ResortAsked
    /\ Render(ApplyOpsResort(view, pane.selected), pane, talk)
    /\ UNCHANGED <<service, reads, focus, tasks, busy, keys, presses, clicks, errand, dialog, told>>

DismissLiveChange ==
    /\ pane.change # None
    /\ pane' = [pane EXCEPT !.change = None, !.dismissed = ChangeKey(pane.change)]
    /\ UNCHANGED <<service, reads, view, focus, talk, tasks, busy, keys, presses, clicks, errand, dialog, told>>

\* The controls of the detail pane, as they are offered on the row shown.
OwnerControl(row) == row.owner = None
StartWorkControl(row) == row.status = "ACKNOWLEDGED" /\ row.owner \in {None, Me}
TakeoverControl(row) ==
    ~ row.taken /\ row.owner # None /\ row.status \in {"ACKNOWLEDGED", "IN_PROGRESS"}
HandBackControl(row) == row.taken
CanSend(row) == row.taken

Offered(kind, row) ==
    CASE kind = "acknowledge" -> OwnerControl(row)
      [] kind = "start" -> StartWorkControl(row)
      [] kind = "takeover" -> TakeoverControl(row)
      [] kind = "handback" -> HandBackControl(row)
      [] kind = "recover" -> talk.notice = "handback-needs-start"
      [] OTHER -> TRUE

Kinds ==
    IF errand = "case" THEN {"acknowledge", "start", "resolve", "cancel", "takeover"}
    ELSE IF errand = "talk" THEN {"takeover", "handback"}
    ELSE IF errand = "recover" THEN {"handback", "recover"}
    ELSE IF errand = "advise" THEN {"acknowledge", "takeover"} ELSE {}

\* keyFor: a key of an action that did not succeed is used again.
KeyFor(action) == IF action \in DOMAIN keys THEN keys[action] ELSE presses + 1
Keeping(action, key) == [a \in DOMAIN keys \cup {action} |-> IF a = action THEN key ELSE keys[a]]
Without(action) == [a \in DOMAIN keys \ {action} |-> keys[a]]

ActionOf(kind, e) == <<IF kind = "recover" THEN "start again" ELSE kind, e>>

Leaves(kind, e, key, stages) ==
    /\ presses < MaxPresses[errand] /\ presses' = presses + 1 /\ UNCHANGED <<clicks, errand>>
    /\ tasks' = tasks \cup {[kind |-> kind, at |-> e, thread |-> Selected.thread, key |-> key,
                             press |-> presses + 1, stage |-> "call", thenThread |-> FALSE]}
    /\ calls' = calls \cup {Call(stages, Me, e, key, presses + 1)}
    /\ busy' = TRUE

Press(kind) ==
    /\ AtDesk /\ HasRow /\ ~ busy /\ Offered(kind, Selected)
    /\ LET e == pane.selected
           action == ActionOf(kind, e)
           key == IF kind = "handback" THEN None ELSE KeyFor(action)
       IN  /\ Leaves(kind, e, key, IF kind = "recover" THEN "start" ELSE kind)
           /\ keys' = IF key = None THEN keys ELSE Keeping(action, key)
    /\ Render(view, pane, IF kind \in {"start", "takeover", "handback"}
                          THEN [talk EXCEPT !.notice = None] ELSE talk)
    /\ UNCHANGED <<tables, acknowledged, elsewhere, reads, focus, dialog, told>>

\* A message has the key of its first press, for every retry.
Sending(key) ==
    IF \E i \in DOMAIN talk.pending : talk.pending[i].key = key
    THEN [i \in DOMAIN talk.pending |->
             IF talk.pending[i].key = key THEN [key |-> key, state |-> "sending"]
             ELSE talk.pending[i]]
    ELSE Append(talk.pending, [key |-> key, state |-> "sending"])

SendWithKey(key) ==
    /\ Leaves("post", pane.selected, key, "post")
    /\ Render(view, pane, [talk EXCEPT !.pending = Sending(key)])
    /\ UNCHANGED <<tables, acknowledged, elsewhere, reads, focus, keys, dialog, told>>

HandleSendMessage ==
    /\ errand = "talk" /\ AtDesk /\ HasRow /\ CanSend(Selected) /\ ~ busy
    /\ SendWithKey(presses + 1)

\* Retry and Discard do not look at busy.
Retryable(i) == talk.pending[i].state = "failed"

HandleRetryPending(i) ==
    /\ AtDesk /\ HasRow /\ Retryable(i)
    /\ SendWithKey(talk.pending[i].key)

HandleDiscardPending(i) ==
    /\ Retryable(i)
    /\ talk' = [talk EXCEPT !.pending = RemoveAt(@, i)]
    /\ UNCHANGED <<service, reads, view, focus, pane, tasks, busy, keys, presses, clicks, errand, dialog, told>>
-----------------------------------------------------------------------------
(* What becomes of it.                                                      *)

Handled(t, c) == t.stage = "call" /\ c.press = t.press /\ c.stage = "answered"
                 /\ calls' = calls \ {c}

\* setTakeoverNotice and so on, then the reads.
ThenLoad(t, p, notice, thenThread) ==
    /\ Load(t.press)
    /\ tasks' = (tasks \ {t}) \cup {[t EXCEPT !.stage = "load", !.thenThread = thenThread]}
    /\ Render(view, p, IF notice = "as it is" THEN talk ELSE [talk EXCEPT !.notice = notice])
    /\ UNCHANGED <<tables, acknowledged, elsewhere, poll, focus, busy, presses, clicks, errand, dialog>>

\* acknowledge, start, resolve, cancel.
CaseActionLands(t, c) ==
    /\ Handled(t, c) /\ t.kind \in {"acknowledge", "start", "resolve", "cancel"}
    /\ keys' = Without(ActionOf(t.kind, t.at))
    /\ ThenLoad(t, IF c.code = "ALREADY_ACTIONED" THEN [pane EXCEPT !.already = t.at] ELSE pane,
                CASE c.code = "NOT_OWNER" -> "not-owner"
                  [] c.code = "NOT_ACKNOWLEDGED" -> "not-acknowledged"
                  [] OTHER -> "as it is", FALSE)
    /\ told' = IF c.code = "ACKNOWLEDGED" THEN told \cup {t.at} ELSE told

TakeOverLands(t, c) ==
    /\ Handled(t, c) /\ t.kind = "takeover"
    /\ keys' = Without(ActionOf(t.kind, t.at))
    /\ ThenLoad(t, pane,
                CASE c.code = "NOT_ACKNOWLEDGED" -> "not-acknowledged"
                  [] c.code = "ALREADY_TAKEN_OVER" -> "already-taken-over"
                  [] OTHER -> IF c.delivered THEN "as it is" ELSE "divider-undelivered",
                c.code # "NOT_ACKNOWLEDGED")
    /\ UNCHANGED told

HandBackLands(t, c) ==
    /\ Handled(t, c)
    /\ t.kind = "handback" \/ (t.kind = "recover" /\ c.kind = "handback")
    /\ ThenLoad(t, pane,
                CASE c.code = "NOT_IN_PROGRESS" -> "handback-needs-start"
                  [] c.code = "NOT_ESCALATED" -> "handback-noop"
                  [] OTHER -> IF ~ c.delivered THEN "divider-undelivered"
                              ELSE IF t.kind = "recover" THEN None ELSE "as it is",
                TRUE)
    /\ UNCHANGED <<keys, told>>

\* handleRecoverHandBack: started, or refused; then the hand-back.
RecoverStarted(t, c) ==
    /\ t.kind = "recover" /\ c.kind = "start"
    /\ t.stage = "call" /\ c.press = t.press /\ c.stage = "answered"
    /\ keys' = Without(ActionOf(t.kind, t.at))
    /\ IF c.code \in {"NOT_OWNER", "NOT_ACKNOWLEDGED"}
       THEN /\ calls' = calls \ {c}
            /\ ThenLoad(t, pane, IF c.code = "NOT_OWNER" THEN "not-owner" ELSE "not-acknowledged",
                        FALSE)
       ELSE /\ calls' = (calls \ {c}) \cup {Call("handback", Me, t.at, None, t.press)}
            /\ UNCHANGED <<tables, acknowledged, elsewhere, reads, view, focus, pane, talk, tasks, busy,
                           presses, clicks, errand, dialog>>
    /\ UNCHANGED told

Failed(key) == [i \in DOMAIN talk.pending |-> IF talk.pending[i].key = key
                                              THEN [talk.pending[i] EXCEPT !.state = "failed"]
                                              ELSE talk.pending[i]]
Sent(key) == Keep(talk.pending, {p \in Members(talk.pending) : p.key # key})

PostForgotten(t) == [talk EXCEPT !.pending = Sent(t.key), !.notice = "post-refused"] \* mutant of PostRefused
PostRefused(t) == [talk EXCEPT !.pending = Failed(t.key), !.notice = "post-refused"]

PostLands(t, c) ==
    /\ Handled(t, c) /\ t.kind = "post"
    /\ CASE c.code = "NOT_TAKEN_OVER" ->
               /\ Load(t.press)
               /\ Render(view, pane, PostRefused(t))
               /\ tasks' = (tasks \ {t}) \cup {[t EXCEPT !.stage = "load"]}
               /\ UNCHANGED busy
         [] c.code = "FAILED" ->
               /\ Render(view, pane, [talk EXCEPT !.pending = Failed(t.key)])
               /\ Done(t)
               /\ UNCHANGED <<loads, region>>
         [] OTHER ->
               /\ Render(view, pane,
                         [talk EXCEPT !.pending = Sent(t.key),
                                      !.undelivered = IF c.delivered \/ c.replay THEN @
                                                      ELSE @ \cup {t.key}])
               /\ Proceed(t, "thread")
               /\ UNCHANGED <<loads, region>>
    /\ UNCHANGED <<tables, acknowledged, elsewhere, poll, focus, keys, presses, clicks, errand, dialog, told>>

\* The connection goes, whatever the server does of it.
CallFails(t, c) ==
    /\ t.stage = "call" /\ c.press = t.press /\ c.waited
    /\ calls' = (calls \ {c}) \cup IF c.stage = "answered" THEN {}
                                    ELSE {[c EXCEPT !.waited = FALSE]}
    /\ Render(view, pane,
              IF t.kind = "post" THEN [talk EXCEPT !.pending = Failed(t.key)]
              ELSE IF t.kind \in {"takeover", "handback", "recover"}
                   THEN [talk EXCEPT !.notice = "failed"] ELSE talk)
    /\ Done(t)
    /\ UNCHANGED <<tables, acknowledged, elsewhere, reads, focus, keys, presses, clicks, errand, dialog, told>>

DismissTakeoverNotice ==
    /\ AtDesk /\ talk.notice # None
    /\ talk' = [talk EXCEPT !.notice = None]
    /\ UNCHANGED <<service, reads, view, focus, pane, tasks, busy, keys, presses, clicks, errand, dialog, told>>
-----------------------------------------------------------------------------
(* EscalateDialog: a preview, and the same body again to confirm it.        *)

ClosedDialog == [open |-> FALSE, at |-> None, own |-> None, draft |-> None, preview |-> None,
                 press |-> 0, error |-> FALSE]

dialogAlone == <<tables, acknowledged, poll, view, focus, pane, talk, tasks, busy, keys, told>>

OpenEscalate ==
    /\ errand = "raise" /\ AtDesk /\ HasRow /\ ~ busy /\ Selected.owner # None
    /\ dialog' = [ClosedDialog EXCEPT !.open = TRUE, !.at = pane.selected, !.own = Selected.reason]
    /\ UNCHANGED <<dialogAlone, calls, elsewhere, loads, region, presses, clicks, errand>>

CloseEscalate ==
    /\ dialog.open /\ dialog.press = 0
    /\ dialog' = ClosedDialog
    /\ UNCHANGED <<dialogAlone, calls, elsewhere, loads, region, presses, clicks, errand>>

\* Any edit forgets the preview there is; the fields stay open meanwhile.
Edit(r) ==
    /\ dialog.open /\ r \notin {dialog.own, dialog.draft}
    /\ Click
    /\ dialog' = [dialog EXCEPT !.draft = r, !.preview = None, !.error = FALSE]
    /\ UNCHANGED <<dialogAlone, calls, elsewhere, loads, region, presses>>

Confirming == dialog.preview # None

Submit ==
    /\ dialog.open /\ dialog.draft # None /\ dialog.press = 0
    /\ presses < MaxPresses[errand] /\ presses' = presses + 1 /\ UNCHANGED <<clicks, errand>>
    /\ calls' = calls \cup {[Call(IF Confirming THEN "escalate" ELSE "preview", Me, dialog.at, None,
                                  presses + 1) EXCEPT !.reason = dialog.draft]}
    /\ dialog' = [dialog EXCEPT !.press = presses + 1, !.error = FALSE]
    /\ UNCHANGED <<dialogAlone, elsewhere, loads, region>>

\* A preview is shown as it comes; a case that was opened closes the dialog.
SubmitLands(c) ==
    /\ dialog.press # 0 /\ c.press = dialog.press /\ c.stage = "answered"
    /\ calls' = calls \ {c}
    /\ IF c.kind = "preview"
       THEN /\ dialog' = [dialog EXCEPT !.press = 0, !.preview = c.reason]
            /\ UNCHANGED <<loads, region>>
       ELSE dialog' = ClosedDialog /\ Load(0)
    /\ UNCHANGED <<dialogAlone, elsewhere, presses, clicks, errand>>

SubmitFails(c) ==
    /\ dialog.press # 0 /\ c.press = dialog.press /\ c.waited
    /\ calls' = (calls \ {c}) \cup IF c.stage = "answered" THEN {}
                                    ELSE {[c EXCEPT !.waited = FALSE]}
    /\ dialog' = [dialog EXCEPT !.press = 0, !.error = TRUE]
    /\ UNCHANGED <<dialogAlone, elsewhere, loads, region, presses, clicks, errand>>
-----------------------------------------------------------------------------
Init ==
    /\ errand \in Errand
    /\ ServiceInit(Raised[errand])
    /\ LP!PollInit
    /\ loads = {[by |-> 0, answer |-> None]} /\ region = "loading"
    /\ view = EmptyOpsLiveState /\ focus = FALSE
    /\ pane = [selected |-> None, change |-> None, dismissed |-> None, already |-> None]
    /\ talk = [pending |-> <<>>, undelivered |-> {}, notice |-> None]
    /\ tasks = {} /\ busy = FALSE /\ keys = [a \in {} |-> None]
    /\ presses = 0 /\ clicks = 0
    /\ takenOver = IF errand = "recover" THEN Left ELSE {}
    /\ dialog = ClosedDialog /\ told = {}

client == <<reads, view, focus, pane, talk, tasks, busy, keys, presses, clicks, errand, dialog, told>>

\* What day it is matters where cases are raised.
ServerStep ==
    /\ \/ OthersStep(Me) \/ \E c \in calls : Serve(c)
       \/ errand = "raise" /\ Midnight
    /\ UNCHANGED client

ReadStep ==
    \/ PollTick \/ PollAnswered \/ PollFails \/ PollLands
    \/ \E l \in loads : QueueAnswers(l) \/ QueueLands(l) \/ QueueFails(l)
    \/ RetryQueue
    \/ \E t \in tasks : ThreadRead(t)

DeskStep ==
    \/ \E e \in Escalation : Select(e)
    \/ FocusOrBlur \/ ApplyArrivals \/ DismissLiveChange \/ DismissTakeoverNotice
    \/ \E kind \in Kinds : Press(kind)
    \/ HandleSendMessage
    \/ \E i \in DOMAIN talk.pending : HandleRetryPending(i) \/ HandleDiscardPending(i)

TaskStep ==
    \E t \in tasks, c \in calls :
        \/ CaseActionLands(t, c) \/ TakeOverLands(t, c) \/ HandBackLands(t, c)
        \/ RecoverStarted(t, c) \/ PostLands(t, c) \/ CallFails(t, c)

DialogStep ==
    \/ OpenEscalate \/ CloseEscalate \/ Submit
    \/ \E r \in Reason : Edit(r)
    \/ \E c \in calls : SubmitLands(c) \/ SubmitFails(c)

Next == ServerStep \/ ReadStep \/ DeskStep \/ TaskStep \/ DialogStep

Spec == Init /\ [][Next]_vars
-----------------------------------------------------------------------------
\* Who was told that he acknowledged a case did: no other coordinator did, and
\* a retry after a lost answer says so too.
AcknowledgedAsTold == \A e \in told : acknowledged[e] = Me

Steps == [][StepperNeverGoesBack]_vars

\* What the coordinator wrote leaves the pane when it is posted, when he
\* discards it, or when he leaves the case or has the queue read again;
\* nothing a poll brings takes it away.
NothingTypedIsLost ==
    [][\A i \in DOMAIN talk.pending :
          LET key == talk.pending[i].key
          IN  \/ \E j \in DOMAIN talk'.pending : talk'.pending[j].key = key
              \/ \E j \in DOMAIN posted : posted[j].key = key
              \/ talk.pending[i].state = "failed" /\ UNCHANGED <<reads, pane, tasks>>
              \/ pane'.selected # pane.selected
              \/ \E l \in loads : loads' = loads \ {l}]_vars
=============================================================================
