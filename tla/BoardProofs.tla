----------------------------- MODULE BoardProofs -----------------------------
(* The planner's board: a proposal is applied once and as reviewed, the     *)
(* review tells what became of the run, the board shows the planner's own   *)
(* blocks, and the picker accounts for every option.  The last two need no  *)
(* more than what the reads on their way may say.                           *)
EXTENDS PlannerBoard, FiniteSetTheorems, TLAPS

RunStatus == {"none", "PROPOSED", "APPLIED", "SUPERSEDED"}
RunsTyped ==
    /\ run \in [Run -> [status : RunStatus, hash : Digest \cup {None}]]
    /\ capacity \in Digest

Code == ApplyCode \cup {None, "ALREADY_BLOCKED", "BLOCKED", "NOT_BLOCKED", "UNBLOCKED",
                        "RUN_ALREADY_ACTIVE", "PROPOSED"}
Stage == {"sent", "checked", "answered", "failed"}
EndWrite == [kind : {"end"}, id : Block, stage : Stage, code : Code]
BlockWrite == [kind : {"block"}, at : Window, stage : Stage, code : Code,
               id : Block \cup {None}, press : Nat]
ProposeWrite == [kind : {"propose"}, stage : Stage, code : Code, id : Run \cup {None}]
ApplyWrite == [kind : {"apply"}, id : Run, hash : Digest \cup {None}, key : Nat \cup {None},
               stage : Stage, code : Code]
Write == EndWrite \cup BlockWrite \cup ProposeWrite \cup ApplyWrite

WritesTyped ==
    /\ writes \subseteq Write
    /\ presses \in Nat

\* What an answer says of a run.
CodeTrue(code, r) ==
    /\ r \in Run /\ code \in ApplyCode
    /\ code \in {"APPLIED", "ALREADY_APPLIED"} => run[r].status = "APPLIED"
    /\ code \in Refusal \cup {"RUN_NOT_ACTIVE"} => run[r].status = "SUPERSEDED"

Known(r) == r \in Run /\ run[r].status # "none"

AnswersTrue ==
    /\ \A w \in writes : w.kind = "apply" =>
           Known(w.id) /\ (w.stage = "answered" => CodeTrue(w.code, w.id))
    /\ \A k \in DOMAIN stored : CodeTrue(stored[k].code, stored[k].id)

\* The review shows a run that was read, and an outcome that was answered.
OverlayFields == DOMAIN NoOverlay
ReviewTrue ==
    /\ overlay.outcome # None => CodeTrue(overlay.outcome, overlay.about)
    /\ overlay.run # None => /\ overlay.run \in Run
                             /\ overlay.status = "PROPOSED" => Known(overlay.run)
    /\ overlay.load.stage = "answered" =>
           /\ runs.reviewing \in Run
           /\ overlay.load.answer.status = "PROPOSED" => Known(runs.reviewing)
    /\ overlay.key \in Nat \cup {None}
    /\ DOMAIN overlay = OverlayFields
    /\ DOMAIN overlay.load = {"stage", "answer"}
    /\ DOMAIN runs = {"pending", "reviewing", "proposing", "active", "already", "list"}

RunInv == RunsTyped /\ WritesTyped /\ AnswersTrue /\ ReviewTrue

\* Live: it blocks its dock now, or will.
Live(b) == Stands(b) /\ ~ Over(b)

EventRow == [dock : {w.dock : w \in Window}, start : Nat, end : Nat, mine : BOOLEAN]
BlocksTyped ==
    /\ now \in Nat
    /\ block \in [Block -> EventRow \cup {None, Deleted}]
    /\ \A b \in Block : Stands(b) => block[b].start < block[b].end

Spans(items) == \A i \in items : i.start \in Nat /\ i.end \in Nat /\ i.start < i.end
IsRead(read) ==
    /\ read.horizon.start \in Nat /\ read.horizon.end = read.horizon.start + Horizon
    /\ Spans(read.blocks) /\ Spans(read.bars)
    /\ \A e \in read.blocks : e.id \in Block /\ block[e.id] # None

BoardReads ==
    /\ DOMAIN board = {"read", "shown", "failed"}
    /\ DOMAIN board.read = {"stage", "answer"}
    /\ board.read.stage = "answered" => IsRead(board.read.answer)
    /\ board.shown # None => IsRead(board.shown)

OverlayReads ==
    /\ overlay.load.stage = "answered" => IsRead(overlay.load.answer.board)
    /\ overlay.board # None => IsRead(overlay.board)

\* A read that left after the writes he was told of.
Tells(read) ==
    /\ \A b \in told.ended : b \notin {e.id : e \in read.blocks}
    /\ \A b \in told.blocked :
           (Live(b) /\ block[b].start < read.horizon.end) => b \in {e.id : e \in read.blocks}

ToldIsSet ==
    /\ DOMAIN told = {"blocked", "ended"}
    /\ told.blocked \cup told.ended \subseteq Block
    /\ \A b \in told.blocked : block[b] # None
    /\ \A b \in told.ended : block[b] # None /\ ~ Live(b)
    /\ \A w \in writes :
           /\ w.kind = "end" => block[w.id] # None /\ (w.stage = "answered" => ~ Live(w.id))
           /\ w.kind = "block" /\ w.stage = "answered" /\ w.code = "BLOCKED"
                 => w.id \in Block /\ block[w.id] # None

ReadsTell ==
    /\ board.read.stage = "answered" => Tells(board.read.answer)
    /\ (board.read = NoRead /\ BoardVisible) => Tells(board.shown)

PickerTyped ==
    /\ DOMAIN picker = {"on", "read", "options", "chosen"}
    /\ DOMAIN picker.read = {"stage", "answer"}
    /\ picker.read.stage = "answered" => picker.read.answer \subseteq Slot
    /\ picker.options # None => picker.options \subseteq Slot

DialogTyped ==
    /\ DOMAIN dialog = DOMAIN ClosedDialog
    /\ dialog.at \in Window \cup {None}
    /\ booked \subseteq Window

BoardInv ==
    /\ RunInv /\ BlocksTyped /\ BoardReads /\ OverlayReads /\ ToldIsSet /\ ReadsTell
    /\ PickerTyped /\ DialogTyped
-----------------------------------------------------------------------------
(* Runs.                                                                    *)

\* What a step may do to a run.
RunsStep ==
    /\ RunsTyped'
    /\ \A r \in Run :
          /\ run[r].status # "none" => run'[r].status # "none"
          /\ run[r].status \in {"APPLIED", "SUPERSEDED"} => run'[r] = run[r]
          /\ run[r].status # "APPLIED" /\ run'[r].status = "APPLIED"
                => Active(r) /\ capacity = run[r].hash

LEMMA RunsStay ==
    ASSUME RunsTyped, UNCHANGED run, capacity' \in Digest
    PROVE  RunsStep
BY DEF RunsTyped, RunsStep

LEMMA RunEnds ==
    ASSUME RunsTyped, NEW r \in Run, Active(r), NEW s \in {"APPLIED", "SUPERSEDED"},
           run' = [run EXCEPT ![r].status = s], capacity' \in Digest,
           s = "APPLIED" => capacity = run[r].hash
    PROVE  RunsStep
<1>1. RunsTyped'
  BY DEF RunsTyped, RunStatus
<1>2. \A q \in Run : run'[q] = IF q = r THEN [run[r] EXCEPT !.status = s] ELSE run[q]
  BY DEF RunsTyped
<1>3. run'[r].status = s /\ run[r].status = "PROPOSED"
  BY <1>2 DEF RunsTyped, Active
<1>4. QED
  BY <1>1, <1>2, <1>3 DEF RunsStep

LEMMA OthersRuns ==
    ASSUME RunsTyped, OthersStep
    PROVE  RunsStep
<1>1. ASSUME NEW b \in Block, OthersEnd(b) PROVE RunsStep
  BY <1>1, RunsStay DEF OthersEnd, RunsTyped
<1>2. ASSUME NEW b \in Block, NEW at \in Window, OthersBlock(b, at) PROVE RunsStep
  BY <1>2, RunsStay DEF OthersBlock, RunsTyped
<1>3. ASSUME NEW at \in Window, BookingMoves(at) PROVE RunsStep
  BY <1>3, RunsStay DEF BookingMoves, RunsTyped
<1>4. CASE CapacityMoves
  BY <1>4, RunsStay DEF CapacityMoves
<1>5. CASE Tick
  BY <1>5, RunsStay DEF Tick, RunsTyped
<1>6. ASSUME NEW r \in Run, OthersPropose(r) PROVE RunsStep
  <2>1. RunsTyped'
    BY <1>6 DEF OthersPropose, RunsTyped, RunStatus
  <2>2. \A q \in Run : run'[q] = IF q = r THEN [status |-> "PROPOSED", hash |-> capacity] ELSE run[q]
    BY <1>6 DEF OthersPropose, RunsTyped
  <2>3. run[r].status = "none" /\ run'[r].status = "PROPOSED"
    BY <1>6, <2>2 DEF OthersPropose
  <2>4. QED
    BY <2>1, <2>2, <2>3 DEF RunsStep
<1>7. ASSUME NEW r \in Run, OthersApply(r) PROVE RunsStep
  <2>1. CASE /\ run[r].hash = capacity
             /\ run' = [run EXCEPT ![r].status = "APPLIED"]
             /\ capacity' \in Digest \ {capacity}
    BY <1>7, <2>1, RunEnds DEF OthersApply
  <2>2. CASE /\ run' = [run EXCEPT ![r].status = "SUPERSEDED"]
             /\ UNCHANGED capacity
    BY <1>7, <2>2, RunEnds DEF OthersApply, RunsTyped
  <2>3. QED
    BY <1>7, <2>1, <2>2 DEF OthersApply
<1>8. QED
  BY <1>1, <1>2, <1>3, <1>4, <1>5, <1>6, <1>7 DEF OthersStep

LEMMA ProposalRuns ==
    ASSUME RunsTyped, NEW w, ProposeFacilitySchedule(w)
    PROVE  RunsStep
<1>1. PICK late \in SUBSET {r \in Run : Active(r)} :
        LET kept == [r \in Run |-> IF r \in late THEN [run[r] EXCEPT !.status = "SUPERSEDED"]
                                   ELSE run[r]]
        IN  \/ run' = kept
            \/ \E r \in Run : kept[r].status = "none"
                              /\ run' = [kept EXCEPT ![r] = [status |-> "PROPOSED", hash |-> capacity]]
  BY DEF ProposeFacilitySchedule
<1> DEFINE kept == [r \in Run |-> IF r \in late THEN [run[r] EXCEPT !.status = "SUPERSEDED"]
                                  ELSE run[r]]
<1>2. capacity' = capacity /\ capacity \in Digest
  BY DEF ProposeFacilitySchedule, RunsTyped
<1>3. /\ kept \in [Run -> [status : RunStatus, hash : Digest \cup {None}]]
      /\ \A q \in Run : \/ kept[q] = run[q]
                        \/ run[q].status = "PROPOSED" /\ kept[q].status = "SUPERSEDED"
  BY DEF RunsTyped, RunStatus, Active
<1> HIDE DEF kept
<1>4. CASE run' = kept
  <2>1. RunsTyped'
    BY <1>2, <1>3, <1>4 DEF RunsTyped
  <2>2. QED
    BY <1>3, <1>4, <2>1 DEF RunsStep
<1>5. ASSUME NEW r \in Run, kept[r].status = "none",
             run' = [kept EXCEPT ![r] = [status |-> "PROPOSED", hash |-> capacity]]
      PROVE  RunsStep
  <2>1. RunsTyped'
    BY <1>2, <1>3, <1>5 DEF RunsTyped, RunStatus
  <2>2. \A q \in Run : run'[q] = IF q = r THEN [status |-> "PROPOSED", hash |-> capacity] ELSE kept[q]
    BY <1>3, <1>5
  <2>3. run[r].status = "none" /\ run'[r].status = "PROPOSED"
    BY <1>3, <1>5, <2>2
  <2>4. QED
    BY <1>3, <2>1, <2>2, <2>3 DEF RunsStep
<1>6. QED
  BY <1>1, <1>4, <1>5 DEF kept

LEMMA ApplyRuns ==
    ASSUME RunsTyped, NEW w, w.id \in Run, ApplyScheduleProposal(w)
    PROVE  RunsStep
<1>1. CASE UNCHANGED <<run, capacity>>
  BY <1>1, RunsStay DEF RunsTyped
<1>2. CASE Active(w.id) /\ Drifted(w) /\ Refuse(w, "SNAPSHOT_DRIFT")
  BY <1>2, RunEnds DEF Refuse, RunsTyped
<1>3. CASE Active(w.id) /\ ~ Drifted(w) /\ Commit(w)
  BY <1>3, RunEnds DEF Commit, Drifted
<1>4. CASE Active(w.id) /\ Refuse(w, "PARTIALLY_INFEASIBLE")
  BY <1>4, RunEnds DEF Refuse, RunsTyped
<1>5. QED
  BY <1>1, <1>2, <1>3, <1>4 DEF ApplyScheduleProposal

LEMMA NextRuns ==
    ASSUME RunsTyped, WritesTyped, AnswersTrue, [Next]_vars
    PROVE  RunsStep
<1>1. CASE UNCHANGED vars
  BY <1>1, RunsStay DEF vars, server, RunsTyped
<1>2. CASE OthersStep
  BY <1>2, OthersRuns
<1>3. ASSUME NEW w \in writes,
             \/ BlockChecks(w) \/ BlockInserts(w) \/ EndDockBlock(w) \/ LoseWrite(w)
             \/ EndLands(w) \/ BlockLands(w) \/ ProposeLands(w) \/ ApplyLands(w)
      PROVE  RunsStep
  <2>1. UNCHANGED <<run, capacity>>
    BY <1>3 DEF BlockChecks, BlockInserts, EndDockBlock, LoseWrite, EndLands, BlockLands,
                ProposeLands, ApplyLands, server, others, rest
  <2>2. QED
    BY <2>1, RunsStay DEF RunsTyped
<1>4. ASSUME NEW w \in writes, ProposeFacilitySchedule(w) PROVE RunsStep
  BY <1>4, ProposalRuns
<1>5. ASSUME NEW w \in writes, ApplyScheduleProposal(w) PROVE RunsStep
  <2>1. w.id \in Run
    BY <1>5 DEF AnswersTrue, Known, ApplyScheduleProposal
  <2>2. QED
    BY <1>5, <2>1, ApplyRuns
<1>6. CASE BoardStep \/ DialogStep \/ ProposalStep \/ PickerStep
  <2>1. UNCHANGED <<run, capacity>>
    BY <1>6 DEF BoardStep, BoardAnswers, BoardLands, BoardFails, Retry, ToggleEnd, End,
                DialogStep, OpenDialog, CloseDialog, HandleSubmit, ImpactTimer, EditFields,
                ImpactAnswers, ImpactLands, ImpactFails, ProposalStep, ListAnswers, ListLands,
                ListFails, OnRequestResequence, ReviewNewest, ReviewActive, OverlayAnswers,
                OverlayLands, OverlayFails, CloseOverlay, OnApply, OnRequestFresh, PickerStep,
                StartPicking, StopPicking, OptionsAnswer, OptionsLand, OptionsFail,
                PickInterval, IntervalUnavailable, server, others, rest, still, apart
  <2>2. QED
    BY <2>1, RunsStay DEF RunsTyped
<1>7. QED
  BY <1>1, <1>2, <1>3, <1>4, <1>5, <1>6 DEF Next, WriteStep
-----------------------------------------------------------------------------
(* The requests under way, and what their answers say.                      *)

LEMMA BoardNone == None \notin Block \cup Window \cup Run \cup Digest
BY BoardAssumption

LEMMA Advances ==
    ASSUME NEW w \in Write, NEW s \in Stage, NEW v, v = [w EXCEPT !.stage = s]
    PROVE  v \in Write /\ v.kind = w.kind /\ v.id = w.id /\ v.stage = s /\ v.code = w.code
<1>1. CASE w \in EndWrite
  BY <1>1 DEF Write, EndWrite
<1>2. CASE w \in BlockWrite
  BY <1>2 DEF Write, BlockWrite
<1>3. CASE w \in ProposeWrite
  BY <1>3 DEF Write, ProposeWrite
<1>4. CASE w \in ApplyWrite
  BY <1>4 DEF Write, ApplyWrite
<1>5. QED
  BY <1>1, <1>2, <1>3, <1>4 DEF Write

CodedAs(w, s, c) == [w EXCEPT !.stage = s, !.code = c]

LEMMA Coded ==
    ASSUME NEW w \in Write, NEW s \in Stage, NEW c \in Code
    PROVE  /\ CodedAs(w, s, c) \in Write
           /\ CodedAs(w, s, c).kind = w.kind /\ CodedAs(w, s, c).id = w.id
           /\ CodedAs(w, s, c).stage = s /\ CodedAs(w, s, c).code = c
<1>1. CASE w \in EndWrite
  BY <1>1 DEF Write, EndWrite, CodedAs
<1>2. CASE w \in BlockWrite
  BY <1>2 DEF Write, BlockWrite, CodedAs
<1>3. CASE w \in ProposeWrite
  BY <1>3 DEF Write, ProposeWrite, CodedAs
<1>4. CASE w \in ApplyWrite
  BY <1>4 DEF Write, ApplyWrite, CodedAs
<1>5. QED
  BY <1>1, <1>2, <1>3, <1>4 DEF Write

LEMMA Kinds ==
    ASSUME NEW w \in Write
    PROVE  /\ w.kind = "end" => w \in EndWrite
           /\ w.kind = "block" => w \in BlockWrite
           /\ w.kind = "propose" => w \in ProposeWrite
           /\ w.kind = "apply" => w \in ApplyWrite
           /\ w.kind \in {"end", "block", "propose", "apply"}
<1>1. w \in EndWrite => w.kind = "end"
  BY DEF EndWrite
<1>2. w \in BlockWrite => w.kind = "block"
  BY DEF BlockWrite
<1>3. w \in ProposeWrite => w.kind = "propose"
  BY DEF ProposeWrite
<1>4. w \in ApplyWrite => w.kind = "apply"
  BY DEF ApplyWrite
<1>5. QED
  BY <1>1, <1>2, <1>3, <1>4 DEF Write

LEMMA StillTrue ==
    ASSUME RunsStep, NEW c, NEW r
    PROVE  /\ CodeTrue(c, r) => CodeTrue(c, r)'
           /\ Known(r) => Known(r)'
BY DEF RunsStep, CodeTrue, Known, Refusal

LEMMA WritesKept ==
    ASSUME RunInv, RunsStep, UNCHANGED stored, presses' \in Nat,
           \A v \in writes' \ writes :
               v \in Write /\ (v.kind = "apply" =>
                   Known(v.id) /\ (v.stage = "answered" => CodeTrue(v.code, v.id)'))
    PROVE  WritesTyped' /\ AnswersTrue'
<1>1. WritesTyped'
  BY DEF RunInv, WritesTyped
<1>2. \A v \in writes' : v.kind = "apply" =>
          Known(v.id)' /\ (v.stage = "answered" => CodeTrue(v.code, v.id)')
  BY StillTrue DEF RunInv, AnswersTrue
<1>3. (\A k \in DOMAIN stored : CodeTrue(stored[k].code, stored[k].id))'
  BY StillTrue DEF RunInv, AnswersTrue
<1>4. QED
  BY <1>1, <1>2, <1>3 DEF AnswersTrue

LEMMA ReviewKept ==
    ASSUME RunInv, RunsStep, UNCHANGED <<overlay, runs>>
    PROVE  ReviewTrue'
BY StillTrue DEF RunInv, ReviewTrue

LEMMA ReviewOpens ==
    ASSUME RunInv, RunsStep, NEW rs, NEW r, Review(rs, r), rs.reviewing = runs.reviewing,
           DOMAIN rs = DOMAIN runs
    PROVE  ReviewTrue'
<1>1. /\ DOMAIN runs' = {"pending", "reviewing", "proposing", "active", "already", "list"}
      /\ runs'.reviewing = r
  BY DEF Review, RunInv, ReviewTrue
<1>2. CASE rs.reviewing = None
  <2>1. overlay' = [NoOverlay EXCEPT !.load = Asked]
    BY <1>2 DEF Review
  <2>2. /\ overlay'.outcome = None /\ overlay'.run = None /\ overlay'.load = Asked
        /\ overlay'.key = None /\ DOMAIN overlay' = OverlayFields
    BY <2>1 DEF NoOverlay, OverlayFields
  <2>3. QED
    BY <1>1, <2>2 DEF ReviewTrue, Asked
<1>3. CASE rs.reviewing # None /\ rs.reviewing = r
  <2>1. overlay' = overlay /\ runs'.reviewing = runs.reviewing
    BY <1>1, <1>3 DEF Review
  <2>2. QED
    BY <1>1, <2>1, StillTrue DEF RunInv, ReviewTrue
<1>4. CASE rs.reviewing # None /\ rs.reviewing # r
  <2>1. overlay' = [overlay EXCEPT !.load = Asked, !.run = None, !.status = None, !.board = None]
    BY <1>4 DEF Review
  <2>2. /\ overlay'.outcome = overlay.outcome /\ overlay'.about = overlay.about
        /\ overlay'.key = overlay.key
        /\ overlay'.run = None /\ overlay'.load = Asked /\ DOMAIN overlay' = OverlayFields
    BY <2>1 DEF RunInv, ReviewTrue, NoOverlay, OverlayFields
  <2>3. QED
    BY <1>1, <2>2, StillTrue DEF RunInv, ReviewTrue, Asked
<1>5. QED
  BY <1>2, <1>3, <1>4

LEMMA Answered ==
    ASSUME RunInv, NEW w \in writes
    PROVE  w \in Write /\ (w.kind = "apply" => Known(w.id))
BY DEF RunInv, WritesTyped, AnswersTrue

\* A request that is no application, or loses its answer, goes a step on.
LEMMA OtherWritesServed ==
    ASSUME RunInv, RunsStep, NEW w \in writes,
           \/ BlockChecks(w) \/ BlockInserts(w) \/ EndDockBlock(w)
           \/ ProposeFacilitySchedule(w) \/ LoseWrite(w)
    PROVE  RunInv'
<1>1. w \in Write /\ (w.kind = "apply" => Known(w.id))
  BY Answered
<1>2. /\ UNCHANGED <<stored, overlay, runs, presses>>
      /\ presses \in Nat
  BY DEF RunInv, WritesTyped, BlockChecks, BlockInserts, EndDockBlock, ProposeFacilitySchedule,
         LoseWrite, server, aside, client
<1>3. ASSUME NEW v, Becomes(w, v), v \in Write, v.kind = w.kind, v.id = w.id,
             v.kind = "apply" => v.stage # "answered"
      PROVE  RunInv'
  <2>1. WritesTyped' /\ AnswersTrue'
    BY <1>1, <1>2, <1>3, WritesKept DEF Becomes
  <2>2. QED
    BY <1>2, <2>1, ReviewKept DEF RunInv, RunsStep
<1>4. ASSUME NEW s \in Stage, Becomes(w, [w EXCEPT !.stage = s]), s # "answered"
      PROVE  RunInv'
  <2> DEFINE v == [w EXCEPT !.stage = s]
  <2>1. v \in Write /\ v.kind = w.kind /\ v.id = w.id /\ v.stage = s
    BY <1>1, Advances
  <2> HIDE DEF v
  <2>2. QED
    BY <1>3, <1>4, <2>1 DEF v
<1>5. ASSUME NEW s \in Stage, NEW c \in Code, Becomes(w, [w EXCEPT !.stage = s, !.code = c]),
             w.kind # "apply"
      PROVE  RunInv'
  <2>1. CodedAs(w, s, c) \in Write /\ CodedAs(w, s, c).kind = w.kind /\ CodedAs(w, s, c).id = w.id
    BY <1>1, <1>5, Coded
  <2>2. Becomes(w, CodedAs(w, s, c))
    BY <1>5 DEF CodedAs
  <2>3. QED
    BY <1>1, <1>3, <1>5, <2>1, <2>2
<1>6. CASE BlockChecks(w)
  <2>1. "answered" \in Stage /\ "checked" \in Stage /\ "ALREADY_BLOCKED" \in Code
    BY DEF Stage, Code
  <2>2. QED
    BY <1>4, <1>5, <1>6, <2>1 DEF BlockChecks
<1>7. CASE BlockInserts(w)
  <2>1. PICK b \in New : Becomes(w, [w EXCEPT !.stage = "answered", !.code = "BLOCKED", !.id = b])
    BY <1>7 DEF BlockInserts
  <2> DEFINE v == [w EXCEPT !.stage = "answered", !.code = "BLOCKED", !.id = b]
  <2>2. v \in BlockWrite /\ v.kind = "block"
    BY <1>1, <1>7, Kinds DEF BlockInserts, BlockWrite, Stage, Code, New
  <2> HIDE DEF v
  <2>3. WritesTyped' /\ AnswersTrue'
    BY <1>1, <1>2, <2>1, <2>2, WritesKept DEF Becomes, v, Write
  <2>4. QED
    BY <1>2, <2>3, ReviewKept DEF RunInv, RunsStep
<1>8. CASE EndDockBlock(w)
  <2>1. "answered" \in Stage /\ "failed" \in Stage /\ {"NOT_BLOCKED", "UNBLOCKED"} \subseteq Code
    BY DEF Stage, Code
  <2>2. QED
    BY <1>4, <1>5, <1>8, <2>1 DEF EndDockBlock
<1>9. CASE ProposeFacilitySchedule(w)
  <2>1. PICK r \in Run, c \in {"RUN_ALREADY_ACTIVE", "PROPOSED"} :
           Becomes(w, [w EXCEPT !.stage = "answered", !.id = r, !.code = c])
    BY <1>9 DEF ProposeFacilitySchedule
  <2> DEFINE v == [w EXCEPT !.stage = "answered", !.id = r, !.code = c]
  <2>2. v \in ProposeWrite /\ v.kind = "propose"
    BY <1>1, <1>9, Kinds, ZenonT(30) DEF ProposeFacilitySchedule, ProposeWrite, Stage, Code
  <2> HIDE DEF v
  <2>3. WritesTyped' /\ AnswersTrue'
    BY <1>1, <1>2, <2>1, <2>2, WritesKept DEF Becomes, v, Write
  <2>4. QED
    BY <1>2, <2>3, ReviewKept DEF RunInv, RunsStep
<1>10. CASE LoseWrite(w)
  <2>1. "failed" \in Stage
    BY DEF Stage
  <2>2. QED
    BY <1>4, <1>10, <2>1 DEF LoseWrite
<1>11. QED
  BY <1>6, <1>7, <1>8, <1>9, <1>10

LEMMA ApplyServed ==
    ASSUME RunInv, RunsStep, NEW w \in writes, ApplyScheduleProposal(w)
    PROVE  RunInv'
<1>1. w \in Write /\ w.kind = "apply" /\ Known(w.id) /\ w.id \in Run
  BY Answered DEF ApplyScheduleProposal, Known
<1>2. UNCHANGED <<overlay, runs, presses>> /\ presses \in Nat
  BY DEF ApplyScheduleProposal, aside, client, RunInv, WritesTyped
<1>3. {"answered", "failed"} \subseteq Stage /\ ApplyCode \subseteq Code
  BY DEF Stage, Code
<1>4. ReviewTrue'
  BY <1>2, ReviewKept
<1>5. CASE w.key \in DOMAIN stored
  <2>1. UNCHANGED stored
    BY <1>5 DEF ApplyScheduleProposal
  <2>2. ASSUME NEW v, Becomes(w, v), v \in Write, v.id = w.id,
               v.stage = "answered" => CodeTrue(v.code, v.id)'
        PROVE  RunInv'
    <3>1. WritesTyped' /\ AnswersTrue'
      BY <1>1, <1>2, <2>1, <2>2, WritesKept DEF Becomes
    <3>2. QED
      BY <1>4, <3>1 DEF RunInv, RunsStep
  <2>3. CASE stored[w.key].id # w.id
    <3>1. Becomes(w, [w EXCEPT !.stage = "failed"])
      BY <1>5, <2>3 DEF ApplyScheduleProposal
    <3>2. QED
      BY <1>1, <1>3, <2>2, <3>1, Advances
  <2>4. CASE stored[w.key].id = w.id
    <3> PICK c : c = stored[w.key].code
      OBVIOUS
    <3>1. CodeTrue(c, w.id)
      BY <1>5, <2>4 DEF RunInv, AnswersTrue
    <3>2. CodeTrue(c, w.id)' /\ c \in Code
      BY <1>3, <3>1, StillTrue DEF CodeTrue
    <3>3. Becomes(w, CodedAs(w, "answered", c))
      BY <1>5, <2>4 DEF ApplyScheduleProposal, CodedAs
    <3>4. QED
      BY <1>1, <1>3, <2>2, <3>2, <3>3, Coded
  <2>5. QED
    BY <2>3, <2>4
<1>6. CASE w.key \notin DOMAIN stored
  <2>1. PICK code \in ApplyCode :
          /\ Becomes(w, [w EXCEPT !.stage = "answered", !.code = code])
          /\ CASE ~ Active(w.id) ->
                    /\ code = IF run[w.id].status = "APPLIED" THEN "ALREADY_APPLIED"
                              ELSE "RUN_NOT_ACTIVE"
                    /\ UNCHANGED <<run, capacity, stored>>
               [] Active(w.id) /\ Drifted(w) -> code = "SNAPSHOT_DRIFT" /\ Refuse(w, code)
               [] OTHER -> \/ code = "APPLIED" /\ Commit(w)
                           \/ code = "PARTIALLY_INFEASIBLE" /\ Refuse(w, code)
    BY <1>6 DEF ApplyScheduleProposal
  <2>2. CodeTrue(code, w.id)' /\ (stored' = stored \/
           stored' = [k \in DOMAIN stored \cup {w.key} |->
                         IF k = w.key THEN [id |-> w.id, code |-> code] ELSE stored[k]])
    <3>1. CASE ~ Active(w.id)
      <4>1. run' = run /\ stored' = stored
            /\ code = IF run[w.id].status = "APPLIED" THEN "ALREADY_APPLIED" ELSE "RUN_NOT_ACTIVE"
        BY <2>1, <3>1
      <4>2. run[w.id].status \in {"APPLIED", "SUPERSEDED"}
        BY <1>1, <3>1 DEF RunInv, RunsTyped, RunStatus, Known, Active
      <4>3. QED
        BY <1>1, <4>1, <4>2 DEF CodeTrue, ApplyCode, Refusal
    <3>2. CASE Active(w.id) /\ Refuse(w, code) /\ code \in Refusal
      <4>1. run'[w.id].status = "SUPERSEDED"
        BY <1>1, <3>2 DEF Refuse, RunInv, RunsTyped
      <4>2. QED
        BY <1>1, <3>2, <4>1 DEF CodeTrue, ApplyCode, Refusal, Refuse
    <3>3. CASE Active(w.id) /\ Commit(w) /\ code = "APPLIED"
      <4>1. run'[w.id].status = "APPLIED"
        BY <1>1, <3>3 DEF Commit, RunInv, RunsTyped
      <4>2. QED
        BY <1>1, <3>3, <4>1 DEF CodeTrue, ApplyCode, Refusal, Commit
    <3>4. QED
      BY <2>1, <3>1, <3>2, <3>3 DEF Refusal
  <2> DEFINE v == CodedAs(w, "answered", code)
  <2>3. v \in Write /\ v.kind = "apply" /\ v.id = w.id /\ v.stage = "answered" /\ v.code = code
    BY <1>1, <1>3, Coded
  <2>4. writes' = (writes \ {w}) \cup {v}
    BY <2>1 DEF Becomes, CodedAs
  <2> HIDE DEF v
  <2>5. WritesTyped'
    BY <1>2, <2>3, <2>4 DEF RunInv, WritesTyped
  <2>6. \A x \in writes' : x.kind = "apply" =>
            Known(x.id)' /\ (x.stage = "answered" => CodeTrue(x.code, x.id)')
    BY <1>1, <2>2, <2>3, <2>4, StillTrue DEF RunInv, AnswersTrue
  <2>7. (\A k \in DOMAIN stored : CodeTrue(stored[k].code, stored[k].id))'
    BY <2>2, StillTrue DEF RunInv, AnswersTrue
  <2>8. QED
    BY <1>4, <2>5, <2>6, <2>7 DEF RunInv, RunsStep, AnswersTrue
<1>7. QED
  BY <1>5, <1>6

LEMMA LandsOrNot ==
    ASSUME RunInv, RunsStep, UNCHANGED <<stored, presses>>, writes' \subseteq writes
    PROVE  WritesTyped' /\ AnswersTrue'
BY WritesKept DEF RunInv, WritesTyped

LEMMA WritesLand ==
    ASSUME RunInv, RunsStep, NEW w \in writes,
           EndLands(w) \/ BlockLands(w) \/ ProposeLands(w) \/ ApplyLands(w)
    PROVE  RunInv'
<1>1. WritesTyped' /\ AnswersTrue'
  BY LandsOrNot DEF EndLands, BlockLands, ProposeLands, ApplyLands, Gone, others, rest, server
<1>2. CASE EndLands(w) \/ BlockLands(w)
  <2>1. UNCHANGED <<overlay, runs>>
    BY <1>2 DEF EndLands, BlockLands
  <2>2. QED
    BY <1>1, <2>1, ReviewKept DEF RunInv, RunsStep
<1>3. CASE ProposeLands(w)
  <2> DEFINE quiet == [runs EXCEPT !.proposing = FALSE]
  <2>1. DOMAIN quiet = DOMAIN runs /\ quiet.reviewing = runs.reviewing
    BY DEF RunInv, ReviewTrue
  <2>2. CASE w.stage = "failed"
    <3>1. overlay' = overlay /\ runs' = quiet
      BY <1>3, <2>2 DEF ProposeLands
    <3> HIDE DEF quiet
    <3>2. ReviewTrue'
      BY <2>1, <3>1, StillTrue DEF RunInv, ReviewTrue
    <3>3. QED
      BY <1>1, <3>2 DEF RunInv, RunsStep
  <2>3. CASE w.stage = "answered" /\ w.code = "RUN_ALREADY_ACTIVE"
    <3> DEFINE rs == [quiet EXCEPT !.already = TRUE, !.active = w.id]
    <3>1. overlay' = overlay /\ runs' = rs
      BY <1>3, <2>3 DEF ProposeLands
    <3>2. DOMAIN rs = DOMAIN runs /\ rs.reviewing = runs.reviewing
      BY DEF RunInv, ReviewTrue
    <3> HIDE DEF quiet, rs
    <3>3. ReviewTrue'
      BY <3>1, <3>2, StillTrue DEF RunInv, ReviewTrue
    <3>4. QED
      BY <1>1, <3>3 DEF RunInv, RunsStep
  <2>4. CASE w.stage = "answered" /\ w.code # "RUN_ALREADY_ACTIVE"
    <3> DEFINE rs == [quiet EXCEPT !.pending = <<w.id>> \o @]
    <3>1. Review(rs, w.id)
      BY <1>3, <2>4 DEF ProposeLands
    <3>2. DOMAIN rs = DOMAIN runs /\ rs.reviewing = runs.reviewing
      BY DEF RunInv, ReviewTrue
    <3> HIDE DEF quiet, rs
    <3>3. QED
      BY <1>1, <3>1, <3>2, ReviewOpens DEF RunInv, RunsStep
  <2>5. QED
    BY <1>3, <2>2, <2>3, <2>4 DEF ProposeLands
<1>4. CASE ApplyLands(w)
  <2>1. w.stage = "answered" => CodeTrue(w.code, w.id)
    BY <1>4 DEF ApplyLands, RunInv, AnswersTrue
  <2>2. DOMAIN runs' = DOMAIN runs /\ runs'.reviewing = runs.reviewing
    BY <1>4 DEF ApplyLands, RunInv, ReviewTrue
  <2>3. CASE overlay' = overlay
    BY <1>1, <2>2, <2>3, StillTrue DEF RunInv, ReviewTrue, RunsStep
  <2>4. CASE w.stage = "failed" /\ overlay' = [overlay EXCEPT !.applying = FALSE]
    <3>1. /\ overlay'.outcome = overlay.outcome /\ overlay'.about = overlay.about
          /\ overlay'.run = overlay.run /\ overlay'.status = overlay.status
          /\ overlay'.load = overlay.load /\ overlay'.key = overlay.key
          /\ DOMAIN overlay' = OverlayFields
      BY <2>4 DEF RunInv, ReviewTrue, OverlayFields, NoOverlay
    <3>2. ReviewTrue'
      BY <2>2, <3>1, StillTrue DEF RunInv, ReviewTrue
    <3>3. QED
      BY <1>1, <3>2 DEF RunInv, RunsStep
  <2>5. CASE w.stage # "failed" /\
             overlay' = [overlay EXCEPT !.applying = FALSE, !.outcome = w.code, !.about = w.id,
                                        !.key = IF w.code = "APPLIED" THEN None ELSE @]
    <3>1. /\ overlay'.outcome = w.code /\ overlay'.about = w.id
          /\ overlay'.run = overlay.run /\ overlay'.status = overlay.status
          /\ overlay'.load = overlay.load /\ overlay'.key \in Nat \cup {None}
          /\ DOMAIN overlay' = OverlayFields
      BY <2>5 DEF RunInv, ReviewTrue, OverlayFields, NoOverlay
    <3>2. CodeTrue(w.code, w.id)'
      BY <1>4, <2>1, <2>5, StillTrue DEF ApplyLands
    <3>3. ReviewTrue'
      BY <2>2, <3>1, <3>2, StillTrue DEF RunInv, ReviewTrue
    <3>4. QED
      BY <1>1, <3>3 DEF RunInv, RunsStep
  <2>6. QED
    BY <1>4, <2>3, <2>4, <2>5 DEF ApplyLands
<1>5. QED
  BY <1>2, <1>3, <1>4

\* A request leaves that is no application.
LEMMA OtherWriteLeaves ==
    ASSUME RunInv, RunsStep, UNCHANGED stored, presses' = presses + 1, NEW v \in Write,
           v.kind # "apply", writes' = writes \cup {v}
    PROVE  WritesTyped' /\ AnswersTrue'
<1>1. presses' \in Nat
  BY DEF RunInv, WritesTyped
<1>2. QED
  BY <1>1, WritesKept

LEMMA ProposeCallTyped == ProposeCall \in Write /\ ProposeCall.kind = "propose"
BY DEF ProposeCall, Write, ProposeWrite, Stage, Code

LEMMA NoReview ==
    ASSUME RunInv, RunsStep, overlay' = NoOverlay, DOMAIN runs' = DOMAIN runs
    PROVE  ReviewTrue'
<1>1. /\ overlay'.outcome = None /\ overlay'.run = None /\ overlay'.key = None
      /\ overlay'.load = NoRead /\ DOMAIN overlay' = OverlayFields
  BY DEF NoOverlay, OverlayFields
<1>2. QED
  BY <1>1 DEF RunInv, ReviewTrue, NoRead

\* What is read of the runs, as far as the review of one is concerned.
LEMMA ReviewGoesOn ==
    ASSUME RunInv, RunsStep, UNCHANGED overlay, DOMAIN runs' = DOMAIN runs,
           runs'.reviewing = runs.reviewing
    PROVE  ReviewTrue'
BY StillTrue DEF RunInv, ReviewTrue

LEMMA OverlayMoves ==
    ASSUME RunInv, RunsStep, UNCHANGED runs,
           overlay'.outcome = overlay.outcome, overlay'.about = overlay.about,
           overlay'.key = overlay.key, DOMAIN overlay' = DOMAIN overlay,
           DOMAIN overlay'.load = {"stage", "answer"},
           \/ overlay'.run = overlay.run /\ overlay'.status = overlay.status
           \/ overlay'.run \in Run /\ (overlay'.status = "PROPOSED" => Known(overlay'.run)),
           \/ overlay'.load.stage # "answered"
           \/ runs.reviewing \in Run
              /\ (overlay'.load.answer.status = "PROPOSED" => Known(runs.reviewing))
    PROVE  ReviewTrue'
BY StillTrue DEF RunInv, ReviewTrue

LEMMA ProposalsKeep ==
    ASSUME RunInv, RunsStep, ProposalStep
    PROVE  RunInv'
<1>1. UNCHANGED stored
  BY DEF ProposalStep, ListAnswers, ListLands, ListFails, OnRequestResequence, ReviewNewest,
         ReviewActive, OverlayAnswers, OverlayLands, OverlayFails, CloseOverlay, OnApply,
         OnRequestFresh, rest, others, server
<1>2. DOMAIN overlay = OverlayFields /\ DOMAIN overlay.load = {"stage", "answer"}
      /\ DOMAIN runs = {"pending", "reviewing", "proposing", "active", "already", "list"}
  BY DEF RunInv, ReviewTrue
<1>3. ASSUME UNCHANGED <<writes, presses>>, ReviewTrue' PROVE RunInv'
  BY <1>1, <1>3, LandsOrNot DEF RunInv, RunsStep
<1>4. CASE ListAnswers \/ ListLands \/ ListFails
  <2>1. DOMAIN runs' = DOMAIN runs /\ runs'.reviewing = runs.reviewing /\ UNCHANGED overlay
    BY <1>2, <1>4 DEF ListAnswers, ListLands, ListFails
  <2>2. QED
    BY <1>3, <1>4, <2>1, ReviewGoesOn DEF ListAnswers, ListLands, ListFails
<1>5. CASE OnRequestResequence
  <2>1. DOMAIN runs' = DOMAIN runs /\ runs'.reviewing = runs.reviewing /\ UNCHANGED overlay
    BY <1>2, <1>5 DEF OnRequestResequence, Requesting
  <2>2. QED
    BY <1>1, <1>5, <2>1, ReviewGoesOn, ProposeCallTyped, OtherWriteLeaves
       DEF OnRequestResequence, Press, RunInv, RunsStep
<1>6. CASE ReviewNewest \/ ReviewActive
  <2>1. PICK r : Review(runs, r) /\ UNCHANGED <<writes, presses>>
    BY <1>6 DEF ReviewNewest, ReviewActive
  <2>2. QED
    BY <1>3, <2>1, ReviewOpens
<1>7. CASE OverlayAnswers
  <2>1. overlay' = [overlay EXCEPT !.load =
                     [stage |-> "answered",
                      answer |-> [status |-> run[runs.reviewing].status, board |-> BoardRead]]]
        /\ UNCHANGED <<runs, writes, presses>> /\ runs.reviewing \in Run
    BY <1>7 DEF OverlayAnswers
  <2>2. /\ overlay'.outcome = overlay.outcome /\ overlay'.about = overlay.about
        /\ overlay'.key = overlay.key /\ DOMAIN overlay' = DOMAIN overlay
        /\ overlay'.run = overlay.run /\ overlay'.status = overlay.status
        /\ DOMAIN overlay'.load = {"stage", "answer"}
        /\ overlay'.load.answer.status = run[runs.reviewing].status
    BY <1>2, <2>1 DEF OverlayFields, NoOverlay
  <2>3. overlay'.load.answer.status = "PROPOSED" => Known(runs.reviewing)
    BY <2>1, <2>2 DEF Known
  <2>4. QED
    BY <1>3, <2>1, <2>2, <2>3, OverlayMoves
<1>8. CASE OverlayLands
  <2>1. overlay' = [overlay EXCEPT !.load = NoRead, !.run = runs.reviewing,
                                   !.status = overlay.load.answer.status,
                                   !.board = overlay.load.answer.board]
        /\ UNCHANGED <<runs, writes, presses>> /\ overlay.load.stage = "answered"
    BY <1>8 DEF OverlayLands
  <2>2. /\ overlay'.outcome = overlay.outcome /\ overlay'.about = overlay.about
        /\ overlay'.key = overlay.key /\ DOMAIN overlay' = DOMAIN overlay
        /\ overlay'.run = runs.reviewing /\ overlay'.status = overlay.load.answer.status
        /\ overlay'.load = NoRead
    BY <1>2, <2>1 DEF OverlayFields, NoOverlay
  <2>3. overlay'.run \in Run /\ (overlay'.status = "PROPOSED" => Known(overlay'.run))
    <3>1. runs.reviewing \in Run
          /\ (overlay.load.answer.status = "PROPOSED" => Known(runs.reviewing))
      BY <2>1 DEF RunInv, ReviewTrue
    <3>2. QED
      BY <2>2, <3>1 DEF Known
  <2>4. DOMAIN overlay'.load = {"stage", "answer"} /\ overlay'.load.stage # "answered"
    BY <2>2 DEF NoRead
  <2>5. QED
    BY <1>3, <2>1, <2>2, <2>3, <2>4, OverlayMoves
<1>9. CASE OverlayFails
  <2>1. overlay' = [overlay EXCEPT !.load = NoRead] /\ UNCHANGED <<runs, writes, presses>>
    BY <1>9 DEF OverlayFails
  <2>2. /\ overlay'.outcome = overlay.outcome /\ overlay'.about = overlay.about
        /\ overlay'.key = overlay.key /\ DOMAIN overlay' = DOMAIN overlay
        /\ overlay'.run = overlay.run /\ overlay'.status = overlay.status
        /\ overlay'.load = NoRead
    BY <1>2, <2>1 DEF OverlayFields, NoOverlay
  <2>3. DOMAIN overlay'.load = {"stage", "answer"} /\ overlay'.load.stage # "answered"
    BY <2>2 DEF NoRead
  <2>4. QED
    BY <1>3, <2>1, <2>2, <2>3, OverlayMoves
<1>10. CASE CloseOverlay
  <2>1. overlay' = NoOverlay /\ DOMAIN runs' = DOMAIN runs /\ UNCHANGED <<writes, presses>>
    BY <1>2, <1>10 DEF CloseOverlay
  <2>2. QED
    BY <1>3, <2>1, NoReview
<1>11. CASE OnApply
  <2> DEFINE next == IF overlay.key = None THEN presses + 1 ELSE overlay.key
  <2>0. next \in Nat \cup {None}
    BY DEF RunInv, ReviewTrue, WritesTyped
  <2> HIDE DEF next
  <2>1. PICK key \in Nat \cup {None} :
          /\ overlay' = [overlay EXCEPT !.key = key, !.applying = TRUE]
          /\ writes' = writes \cup
                {[kind |-> "apply", id |-> overlay.run, hash |-> run[overlay.run].hash,
                  key |-> key, stage |-> "sent", code |-> None]}
    BY <1>11, <2>0 DEF OnApply, next
  <2>2. Known(overlay.run) /\ run[overlay.run].hash \in Digest \cup {None}
    BY <1>11 DEF OnApply, Applicable, RunInv, ReviewTrue, Known, RunsTyped
  <2> DEFINE v == [kind |-> "apply", id |-> overlay.run, hash |-> run[overlay.run].hash,
                   key |-> key, stage |-> "sent", code |-> None]
  <2>3. v \in Write /\ v.kind = "apply" /\ v.id = overlay.run /\ v.stage = "sent"
    BY <2>2 DEF Known, Write, ApplyWrite, Stage, Code
  <2>4. presses' \in Nat /\ UNCHANGED runs
    BY <1>11 DEF OnApply, Press, RunInv, WritesTyped
  <2>5. \A x \in writes' \ writes :
            x \in Write /\ (x.kind = "apply" =>
                Known(x.id) /\ (x.stage = "answered" => CodeTrue(x.code, x.id)'))
    BY <2>1, <2>2, <2>3
  <2>6. WritesTyped' /\ AnswersTrue'
    BY <1>1, <2>4, <2>5, WritesKept
  <2>7. /\ overlay'.outcome = overlay.outcome /\ overlay'.about = overlay.about
        /\ overlay'.key = key /\ DOMAIN overlay' = DOMAIN overlay
        /\ overlay'.run = overlay.run /\ overlay'.status = overlay.status
        /\ overlay'.load = overlay.load
    BY <1>2, <2>1 DEF OverlayFields, NoOverlay
  <2>8. ReviewTrue'
    BY <2>4, <2>7, StillTrue DEF RunInv, ReviewTrue
  <2>9. QED
    BY <2>6, <2>8 DEF RunInv, RunsStep
<1>12. CASE OnRequestFresh
  <2>1. overlay' = NoOverlay /\ DOMAIN runs' = DOMAIN runs
    BY <1>2, <1>12 DEF OnRequestFresh, Requesting
  <2>2. \/ UNCHANGED <<writes, presses>>
        \/ presses' = presses + 1 /\ writes' = writes \cup {ProposeCall}
    BY <1>12 DEF OnRequestFresh, Press
  <2>3. WritesTyped' /\ AnswersTrue'
    BY <1>1, <2>2, ProposeCallTyped, OtherWriteLeaves, LandsOrNot
  <2>4. QED
    BY <2>1, <2>3, NoReview DEF RunInv, RunsStep
<1>13. QED
  BY <1>4, <1>5, <1>6, <1>7, <1>8, <1>9, <1>10, <1>11, <1>12 DEF ProposalStep

LEMMA NextRunInv ==
    ASSUME RunInv, DialogTyped, [Next]_vars
    PROVE  RunInv'
<1>1. RunsStep
  BY NextRuns DEF RunInv
<1>2. ASSUME UNCHANGED <<stored, writes, presses, overlay, runs>> PROVE RunInv'
  BY <1>1, <1>2, LandsOrNot, ReviewKept DEF RunInv, RunsStep
<1>3. CASE UNCHANGED vars
  BY <1>2, <1>3 DEF vars, server, client
<1>4. CASE OthersStep
  BY <1>2, <1>4 DEF OthersStep, OthersEnd, OthersBlock, BookingMoves, CapacityMoves, Tick,
                    OthersPropose, OthersApply, Meanwhile, client
<1>5. CASE WriteStep
  BY <1>1, <1>5, OtherWritesServed, ApplyServed, WritesLand DEF WriteStep
<1>6. ASSUME UNCHANGED <<stored, overlay, runs>>, presses' = presses + 1, NEW v \in Write,
             v.kind # "apply", writes' = writes \cup {v}
      PROVE  RunInv'
  BY <1>1, <1>6, OtherWriteLeaves, ReviewKept DEF RunInv, RunsStep
<1>7. CASE BoardStep
  <2>1. CASE BoardAnswers \/ BoardLands \/ BoardFails \/ Retry
    BY <1>2, <2>1 DEF BoardAnswers, BoardLands, BoardFails, Retry, others, server
  <2>2. ASSUME NEW b \in Block, ToggleEnd(b) PROVE RunInv'
    BY <1>2, <2>2 DEF ToggleEnd, others, server
  <2>3. ASSUME NEW b \in Block, End(b) PROVE RunInv'
    <3> DEFINE v == [kind |-> "end", id |-> b, stage |-> "sent", code |-> None]
    <3>1. v \in Write /\ v.kind = "end"
      BY DEF Write, EndWrite, Stage, Code
    <3>2. UNCHANGED <<stored, overlay, runs>> /\ presses' = presses + 1
          /\ writes' = writes \cup {v}
      BY <2>3 DEF End, Press, others, server
    <3> HIDE DEF v
    <3>3. QED
      BY <1>6, <3>1, <3>2
  <2>4. QED
    BY <1>7, <2>1, <2>2, <2>3 DEF BoardStep
<1>8. CASE DialogStep
  <2>1. CASE HandleSubmit
    <3> DEFINE v == [kind |-> "block", at |-> dialog.at, stage |-> "sent",
                     code |-> None, id |-> None, press |-> presses + 1]
    <3>1. dialog.at \in Window /\ presses + 1 \in Nat
      BY <2>1 DEF HandleSubmit, SubmitDisabled, DialogTyped, RunInv, WritesTyped
    <3>2. v \in Write /\ v.kind = "block"
      BY <3>1 DEF Write, BlockWrite, Stage, Code
    <3>3. UNCHANGED <<stored, overlay, runs>> /\ presses' = presses + 1
          /\ writes' = writes \cup {v}
      BY <2>1 DEF HandleSubmit, Press, still, others, server
    <3> HIDE DEF v
    <3>4. QED
      BY <1>6, <3>2, <3>3
  <2>2. CASE ~ HandleSubmit
    BY <1>2, <1>8, <2>2 DEF DialogStep, OpenDialog, CloseDialog, ImpactTimer, EditFields,
              ImpactAnswers, ImpactLands, ImpactFails, still, others, server
  <2>3. QED
    BY <2>1, <2>2
<1>9. CASE ProposalStep
  BY <1>1, <1>9, ProposalsKeep
<1>10. CASE PickerStep
  BY <1>2, <1>10 DEF PickerStep, StartPicking, StopPicking, OptionsAnswer, OptionsLand,
                     OptionsFail, PickInterval, IntervalUnavailable, apart, server
<1>11. QED
  BY <1>3, <1>4, <1>5, <1>7, <1>8, <1>9, <1>10 DEF Next
-----------------------------------------------------------------------------
(* Blocks.                                                                  *)

LEMMA NoRow == None \notin EventRow /\ Deleted \notin EventRow /\ Deleted # None
BY BoardAssumption DEF EventRow

LEMMA WindowsAre == ASSUME NEW w \in Window PROVE w.start \in Nat /\ w.end \in Nat /\ w.start < w.end
BY BoardAssumption

\* A row stays, and one that is over or deleted stays so.
BlocksStep ==
    /\ BlocksTyped'
    /\ \A b \in Block : block[b] # None =>
          block'[b] # None /\ (Live(b)' => Live(b) /\ block'[b] = block[b])

LEMMA BlocksStay ==
    ASSUME BlocksTyped, UNCHANGED <<now, block>>
    PROVE  BlocksStep
BY DEF BlocksTyped, BlocksStep, Stands, Live, Over

LEMMA EventTyped ==
    ASSUME NEW at \in Window, NEW mine \in BOOLEAN
    PROVE  Event(at, mine) \in EventRow /\ Event(at, mine).start < Event(at, mine).end
BY WindowsAre DEF Event, EventRow

LEMMA BlockSet ==
    ASSUME BlocksTyped, NEW b \in New, NEW at \in Window, NEW mine \in BOOLEAN,
           block' = [block EXCEPT ![b] = Event(at, mine)], now' = now
    PROVE  BlocksStep /\ block'[b] # None
<1>1. b \in Block /\ block[b] = None /\ block'[b] = Event(at, mine)
      /\ \A c \in Block \ {b} : block'[c] = block[c]
  BY DEF New, BlocksTyped
<1>2. BlocksTyped'
  BY <1>1, EventTyped, NoRow DEF BlocksTyped, Stands
<1>3. block'[b] # None
  BY <1>1, EventTyped, NoRow
<1>4. QED
  BY <1>1, <1>2, <1>3 DEF BlocksStep, Live, Stands, Over

LEMMA BlockEnds ==
    ASSUME BlocksTyped, NEW b \in Block, Stands(b), ~ Over(b), block' = Ended(b), now' = now
    PROVE  BlocksStep /\ ~ Live(b)'
<1>1. block[b] \in EventRow /\ now \in Nat
  BY DEF BlocksTyped, Stands
<1>2. CASE now > block[b].start
  <2> DEFINE row == [block[b] EXCEPT !.end = now]
  <2>1. row \in EventRow /\ row.start = block[b].start /\ row.end = now
    BY <1>1 DEF EventRow
  <2>2. block' = [block EXCEPT ![b] = row]
    BY <1>2 DEF Ended
  <2> HIDE DEF row
  <2>3. block'[b] = row /\ \A c \in Block \ {b} : block'[c] = block[c]
    BY <2>2 DEF BlocksTyped
  <2>4. row.start < row.end
    BY <1>2, <2>1
  <2>5. BlocksTyped'
    BY <2>1, <2>2, <2>3, <2>4 DEF BlocksTyped, Stands
  <2>6. ~ Live(b)' /\ block'[b] # None
    BY <1>1, <2>1, <2>3, NoRow DEF Live, Over
  <2>7. QED
    BY <2>3, <2>5, <2>6 DEF BlocksStep, Live, Stands, Over
<1>3. CASE ~ (now > block[b].start)
  <2>1. block' = [block EXCEPT ![b] = Deleted]
    BY <1>3 DEF Ended
  <2>2. block'[b] = Deleted /\ \A c \in Block \ {b} : block'[c] = block[c]
    BY <2>1 DEF BlocksTyped
  <2>3. BlocksTyped'
    BY <2>1, <2>2 DEF BlocksTyped, Stands
  <2>4. ~ Live(b)' /\ block'[b] # None
    BY <2>2, NoRow DEF Live, Stands
  <2>5. QED
    BY <2>2, <2>3, <2>4 DEF BlocksStep, Live, Stands, Over
<1>4. QED
  BY <1>2, <1>3

LEMMA TimePasses ==
    ASSUME BlocksTyped, Tick
    PROVE  BlocksStep
<1>1. now' = now + 1 /\ block' = block
  BY DEF Tick
<1>2. \A b \in Block : Live(b)' => Live(b)
  <2> SUFFICES ASSUME NEW b \in Block, Live(b)' PROVE Live(b)
    OBVIOUS
  <2>1. Stands(b) /\ block[b] \in EventRow /\ ~ (block[b].end <= now + 1)
    BY <1>1 DEF Live, Stands, Over, BlocksTyped
  <2>2. QED
    BY <2>1 DEF Live, Over, EventRow, BlocksTyped
<1>3. BlocksTyped'
  BY <1>1 DEF BlocksTyped, Stands
<1>4. QED
  BY <1>1, <1>2, <1>3 DEF BlocksStep

LEMMA EndServed ==
    ASSUME BlocksTyped, WritesTyped, ToldIsSet, NEW w \in writes, EndDockBlock(w)
    PROVE  /\ BlocksStep /\ w.id \in Block /\ block[w.id] # None
           /\ \/ Becomes(w, [w EXCEPT !.stage = "failed"])
              \/ /\ ~ Live(w.id)'
                 /\ \E c \in {"NOT_BLOCKED", "UNBLOCKED"} :
                       Becomes(w, [w EXCEPT !.stage = "answered", !.code = c])
<1>1. w \in EndWrite /\ w.id \in Block
  BY Kinds DEF EndDockBlock, WritesTyped, EndWrite
<1>2. block[w.id] # None /\ now' = now
  BY DEF EndDockBlock, ToldIsSet
<1>3. CASE block[w.id] = Deleted
  <2>1. block' = block /\ Becomes(w, [w EXCEPT !.stage = "failed"])
    BY <1>3 DEF EndDockBlock, Stands
  <2>2. QED
    BY <1>1, <1>2, <2>1, BlocksStay
<1>4. CASE Stands(w.id) /\ Over(w.id)
  <2>1. block' = block /\ Becomes(w, [w EXCEPT !.stage = "answered", !.code = "NOT_BLOCKED"])
    BY <1>4 DEF EndDockBlock, Stands
  <2>2. QED
    BY <1>1, <1>2, <1>4, <2>1, BlocksStay DEF Live, Over
<1>5. CASE block[w.id] # Deleted /\ ~ (Stands(w.id) /\ Over(w.id))
  <2>1. Stands(w.id) /\ ~ Over(w.id)
    BY <1>2, <1>5 DEF Stands
  <2>2. block' = Ended(w.id) /\ Becomes(w, [w EXCEPT !.stage = "answered", !.code = "UNBLOCKED"])
    BY <1>5 DEF EndDockBlock
  <2>3. QED
    BY <1>1, <1>2, <2>1, <2>2, BlockEnds
<1>6. QED
  BY <1>3, <1>4, <1>5

LEMMA NextBlocks ==
    ASSUME BlocksTyped, WritesTyped, ToldIsSet, [Next]_vars
    PROVE  BlocksStep
<1>1. CASE UNCHANGED <<now, block>>
  BY <1>1, BlocksStay
<1>2. ASSUME NEW b \in Block, NEW at \in Window, OthersBlock(b, at) PROVE BlocksStep
  BY <1>2, BlockSet DEF OthersBlock
<1>3. ASSUME NEW b \in Block, OthersEnd(b) PROVE BlocksStep
  BY <1>3, BlockEnds DEF OthersEnd
<1>4. CASE Tick
  BY <1>4, TimePasses
<1>5. ASSUME NEW w \in writes, BlockInserts(w) PROVE BlocksStep
  <2>1. w.at \in Window
    BY <1>5, Kinds DEF BlockInserts, WritesTyped, BlockWrite
  <2>2. QED
    BY <1>5, <2>1, BlockSet DEF BlockInserts
<1>6. ASSUME NEW w \in writes, EndDockBlock(w) PROVE BlocksStep
  BY <1>6, EndServed
<1>7. CASE OthersStep
  BY <1>1, <1>2, <1>3, <1>4, <1>7
     DEF OthersStep, BookingMoves, CapacityMoves, OthersPropose, OthersApply
<1>8. CASE WriteStep
  BY <1>1, <1>5, <1>6, <1>8 DEF WriteStep, BlockChecks, ProposeFacilitySchedule,
     ApplyScheduleProposal, LoseWrite, EndLands, BlockLands, ProposeLands, ApplyLands,
     server, others, rest
<1>9. CASE BoardStep \/ DialogStep \/ ProposalStep \/ PickerStep
  <2>1. UNCHANGED <<now, block>>
    BY <1>9 DEF BoardStep, BoardAnswers, BoardLands, BoardFails, Retry, ToggleEnd, End,
                DialogStep, OpenDialog, CloseDialog, HandleSubmit, ImpactTimer, EditFields,
                ImpactAnswers, ImpactLands, ImpactFails, ProposalStep, ListAnswers, ListLands,
                ListFails, OnRequestResequence, ReviewNewest, ReviewActive, OverlayAnswers,
                OverlayLands, OverlayFails, CloseOverlay, OnApply, OnRequestFresh, PickerStep,
                StartPicking, StopPicking, OptionsAnswer, OptionsLand, OptionsFail,
                PickInterval, IntervalUnavailable, server, others, rest, still, apart
  <2>2. QED
    BY <1>1, <2>1
<1>10. CASE UNCHANGED vars
  BY <1>1, <1>10 DEF vars, server
<1>11. QED
  BY <1>7, <1>8, <1>9, <1>10 DEF Next
-----------------------------------------------------------------------------
(* What he was told he set, and ended.                                      *)

\* A request of the next state: one there was, or one whose answer is true.
WriteTrue(w) ==
    /\ w.kind = "end" => block[w.id] # None /\ (w.stage = "answered" => ~ Live(w.id))
    /\ w.kind = "block" /\ w.stage = "answered" /\ w.code = "BLOCKED"
          => w.id \in Block /\ block[w.id] # None

LEMMA WriteStaysTrue ==
    ASSUME BlocksStep, NEW w \in Write, WriteTrue(w)
    PROVE  WriteTrue(w)'
<1>1. w.kind = "end" => w.id \in Block
  BY Kinds DEF EndWrite
<1>2. QED
  BY <1>1 DEF BlocksStep, WriteTrue

LEMMA ToldKept ==
    ASSUME ToldIsSet, BlocksStep, WritesTyped, DOMAIN told' = DOMAIN told,
           \A b \in told'.blocked \ told.blocked : b \in Block /\ block[b] # None,
           \A b \in told'.ended \ told.ended : b \in Block /\ block[b] # None /\ ~ Live(b),
           \A v \in writes' \ writes : WriteTrue(v)'
    PROVE  ToldIsSet'
<1>1. \A b \in told'.blocked : b \in Block /\ block[b] # None
  BY DEF ToldIsSet
<1>2. \A b \in told'.ended : b \in Block /\ block[b] # None /\ ~ Live(b)
  BY DEF ToldIsSet
<1>3. \A b \in Block : block[b] # None => block'[b] # None /\ (Live(b)' => Live(b))
  BY DEF BlocksStep
<1>4. \A b \in told'.blocked : block'[b] # None
  BY <1>1, <1>3
<1>5. (\A b \in told.ended : block[b] # None /\ ~ Live(b))'
  <2>1. ASSUME NEW b \in told'.ended PROVE block'[b] # None /\ ~ Live(b)'
    BY <1>2, <1>3, <2>1
  <2>2. QED
    BY <2>1
<1>6. \A v \in writes' : WriteTrue(v)'
  <2> SUFFICES ASSUME NEW v \in writes' PROVE WriteTrue(v)'
    OBVIOUS
  <2>1. CASE v \in writes
    <3>1. v \in Write /\ WriteTrue(v)
      BY <2>1 DEF ToldIsSet, WriteTrue, WritesTyped
    <3>2. QED
      BY <3>1, WriteStaysTrue
  <2>2. QED
    BY <2>1
<1>7. QED
  BY <1>1, <1>2, <1>4, <1>5, <1>6 DEF ToldIsSet, WriteTrue

LEMMA ServedTrue ==
    ASSUME ToldIsSet, BlocksTyped, BlocksStep, WritesTyped, NEW w \in writes,
           \/ BlockChecks(w) \/ BlockInserts(w) \/ EndDockBlock(w) \/ LoseWrite(w)
           \/ ProposeFacilitySchedule(w) \/ ApplyScheduleProposal(w)
    PROVE  ToldIsSet'
<1>1. w \in Write /\ WriteTrue(w)
  BY DEF ToldIsSet, WriteTrue, WritesTyped
<1>2. UNCHANGED told
  BY DEF BlockChecks, BlockInserts, EndDockBlock, LoseWrite, ProposeFacilitySchedule,
         ApplyScheduleProposal, aside, client
<1>3. ASSUME NEW v, Becomes(w, v), WriteTrue(v)' PROVE ToldIsSet'
  BY <1>2, <1>3, ToldKept DEF Becomes
<1>4. ASSUME NEW s \in Stage, Becomes(w, [w EXCEPT !.stage = s]), s # "answered" PROVE ToldIsSet'
  <2> DEFINE v == [w EXCEPT !.stage = s]
  <2>1. v \in Write /\ v.kind = w.kind /\ v.id = w.id /\ v.stage = s
    BY <1>1, Advances
  <2>2. w.kind = "end" => block'[w.id] # None
    BY <1>1, WriteStaysTrue DEF WriteTrue
  <2> HIDE DEF v
  <2>3. WriteTrue(v)'
    BY <1>4, <2>1, <2>2 DEF WriteTrue
  <2>4. QED
    BY <1>3, <1>4, <2>3 DEF v
<1>5. CASE BlockChecks(w)
  <2>1. CASE Becomes(w, [w EXCEPT !.stage = "checked"])
    BY <1>4, <2>1 DEF Stage
  <2>2. CASE Becomes(w, CodedAs(w, "answered", "ALREADY_BLOCKED"))
    <3>1. /\ CodedAs(w, "answered", "ALREADY_BLOCKED").kind = "block"
          /\ CodedAs(w, "answered", "ALREADY_BLOCKED").code = "ALREADY_BLOCKED"
      BY <1>1, <1>5, Coded DEF BlockChecks, Stage, Code
    <3>2. QED
      BY <1>3, <2>2, <3>1 DEF WriteTrue
  <2>3. QED
    BY <1>5, <2>1, <2>2 DEF BlockChecks, CodedAs
<1>6. CASE BlockInserts(w)
  <2>1. PICK b \in New : /\ block' = [block EXCEPT ![b] = Event(w.at, TRUE)]
                         /\ Becomes(w, [w EXCEPT !.stage = "answered", !.code = "BLOCKED", !.id = b])
    BY <1>6 DEF BlockInserts
  <2>2. w \in BlockWrite
    BY <1>1, <1>6, Kinds DEF BlockInserts
  <2>3. block'[b] # None
    BY <1>6, <2>1, <2>2, BlockSet DEF BlockInserts, BlockWrite
  <2> DEFINE v == [w EXCEPT !.stage = "answered", !.code = "BLOCKED", !.id = b]
  <2>4. v.kind = "block" /\ v.id = b /\ b \in Block
    BY <2>2 DEF BlockWrite, New
  <2> HIDE DEF v
  <2>5. WriteTrue(v)'
    BY <2>3, <2>4 DEF WriteTrue
  <2>6. QED
    BY <1>3, <2>1, <2>5 DEF v
<1>7. CASE EndDockBlock(w)
  <2>1. CASE Becomes(w, [w EXCEPT !.stage = "failed"])
    BY <1>4, <2>1 DEF Stage
  <2>2. ASSUME NEW c \in {"NOT_BLOCKED", "UNBLOCKED"}, ~ Live(w.id)',
               Becomes(w, [w EXCEPT !.stage = "answered", !.code = c])
        PROVE  ToldIsSet'
    <3>1. CodedAs(w, "answered", c).kind = "end" /\ CodedAs(w, "answered", c).id = w.id
      BY <1>1, <1>7, Coded DEF EndDockBlock, Stage, Code
    <3>2. block'[w.id] # None
      BY <1>1, <1>7, WriteStaysTrue DEF WriteTrue, EndDockBlock
    <3>3. WriteTrue(CodedAs(w, "answered", c))'
      BY <2>2, <3>1, <3>2 DEF WriteTrue
    <3>4. QED
      BY <1>3, <2>2, <3>3 DEF CodedAs
  <2>3. QED
    BY <1>7, <2>1, <2>2, EndServed
<1>8. CASE ProposeFacilitySchedule(w)
  <2>1. PICK r \in Run, c \in {"RUN_ALREADY_ACTIVE", "PROPOSED"} :
           Becomes(w, [w EXCEPT !.stage = "answered", !.id = r, !.code = c])
    BY <1>8 DEF ProposeFacilitySchedule
  <2> DEFINE v == [w EXCEPT !.stage = "answered", !.id = r, !.code = c]
  <2>2. v.kind = "propose"
    BY <1>1, <1>8, Kinds DEF ProposeFacilitySchedule, ProposeWrite
  <2> HIDE DEF v
  <2>3. QED
    BY <1>3, <2>1, <2>2 DEF WriteTrue, v
<1>9. CASE ApplyScheduleProposal(w)
  <2>1. PICK v : Becomes(w, v) /\ (v = [w EXCEPT !.stage = "failed"]
                                   \/ \E c : v = [w EXCEPT !.stage = "answered", !.code = c])
    BY <1>9 DEF ApplyScheduleProposal
  <2>2. v.kind = "apply"
    BY <1>1, <1>9, <2>1, Kinds DEF ApplyScheduleProposal, ApplyWrite
  <2>3. QED
    BY <1>3, <2>1, <2>2 DEF WriteTrue
<1>10. CASE LoseWrite(w)
  BY <1>4, <1>10 DEF LoseWrite, Stage
<1>11. QED
  BY <1>5, <1>6, <1>7, <1>8, <1>9, <1>10

LEMMA NextTold ==
    ASSUME ToldIsSet, BlocksTyped, WritesTyped, BoardReads, [Next]_vars
    PROVE  ToldIsSet'
<1>1. BlocksStep
  BY NextBlocks
<1>2. ASSUME UNCHANGED told, \A v \in writes' \ writes : WriteTrue(v)' PROVE ToldIsSet'
  BY <1>1, <1>2, ToldKept
<1>3. CASE UNCHANGED <<told, writes>>
  BY <1>2, <1>3
<1>4. CASE OthersStep
  BY <1>3, <1>4 DEF OthersStep, OthersEnd, OthersBlock, BookingMoves, CapacityMoves, Tick,
                    OthersPropose, OthersApply, Meanwhile, client
<1>5. ASSUME NEW w \in writes, EndLands(w) PROVE ToldIsSet'
  <2>1. w.id \in Block /\ (w.stage = "answered" => block[w.id] # None /\ ~ Live(w.id))
    BY <1>5, Kinds DEF EndLands, ToldIsSet, WritesTyped, EndWrite
  <2>2. writes' \subseteq writes
    BY <1>5 DEF EndLands, Gone
  <2>3. DOMAIN told' = DOMAIN told /\ told'.blocked = told.blocked
        /\ \A b \in told'.ended \ told.ended : b \in Block /\ block[b] # None /\ ~ Live(b)
    BY <1>5, <2>1 DEF EndLands, ToldIsSet
  <2>4. QED
    BY <1>1, <2>2, <2>3, ToldKept
<1>6. ASSUME NEW w \in writes, BlockLands(w) PROVE ToldIsSet'
  <2>1. w.stage = "answered" /\ w.code = "BLOCKED" => w.id \in Block /\ block[w.id] # None
    BY <1>6 DEF BlockLands, ToldIsSet
  <2>2. writes' \subseteq writes
    BY <1>6 DEF BlockLands, Gone
  <2>3. DOMAIN told' = DOMAIN told /\ told'.ended = told.ended
        /\ \A b \in told'.blocked \ told.blocked : b \in Block /\ block[b] # None
    BY <1>6, <2>1 DEF BlockLands, ToldIsSet
  <2>4. QED
    BY <1>1, <2>2, <2>3, ToldKept
<1>7. ASSUME NEW w \in writes, ProposeLands(w) \/ ApplyLands(w) PROVE ToldIsSet'
  BY <1>2, <1>7 DEF ProposeLands, ApplyLands, Gone, rest
<1>8. CASE WriteStep
  BY <1>1, <1>5, <1>6, <1>7, <1>8, ServedTrue DEF WriteStep
<1>9. CASE BoardStep
  <2>1. ASSUME NEW b \in Block, End(b) PROVE ToldIsSet'
    <3>1. block[b] # None
      BY <2>1 DEF End, Endable, Shown, BoardReads, IsRead
    <3>2. block'[b] # None
      BY <1>1, <3>1 DEF BlocksStep
    <3>3. \A v \in writes' \ writes : v.kind = "end" /\ v.id = b /\ v.stage = "sent"
      BY <2>1 DEF End
    <3>4. UNCHANGED told
      BY <2>1 DEF End
    <3>5. QED
      BY <1>2, <3>2, <3>3, <3>4 DEF WriteTrue
  <2>2. CASE BoardAnswers \/ BoardLands \/ BoardFails \/ Retry \/ \E b \in Block : ToggleEnd(b)
    BY <1>3, <2>2 DEF BoardAnswers, BoardLands, BoardFails, Retry, ToggleEnd
  <2>3. QED
    BY <1>9, <2>1, <2>2 DEF BoardStep
<1>10. CASE DialogStep
  <2>1. CASE HandleSubmit
    <3>1. \A v \in writes' \ writes : v.kind = "block" /\ v.stage = "sent"
      BY <2>1 DEF HandleSubmit
    <3>2. QED
      BY <1>2, <2>1, <3>1 DEF WriteTrue, HandleSubmit, still
  <2>2. CASE ~ HandleSubmit
    BY <1>3, <1>10, <2>2 DEF DialogStep, OpenDialog, CloseDialog, ImpactTimer, EditFields,
              ImpactAnswers, ImpactLands, ImpactFails, still
  <2>3. QED
    BY <2>1, <2>2
<1>11. CASE ProposalStep
  <2>1. UNCHANGED told
    BY <1>11 DEF ProposalStep, ListAnswers, ListLands, ListFails, OnRequestResequence,
           ReviewNewest, ReviewActive, OverlayAnswers, OverlayLands, OverlayFails, CloseOverlay,
           OnApply, OnRequestFresh, rest
  <2>2. \A v \in writes' \ writes : v.kind \in {"propose", "apply"}
    BY <1>11 DEF ProposalStep, ListAnswers, ListLands, ListFails, OnRequestResequence,
           ReviewNewest, ReviewActive, OverlayAnswers, OverlayLands, OverlayFails, CloseOverlay,
           OnApply, OnRequestFresh, ProposeCall
  <2>3. QED
    BY <1>2, <2>1, <2>2 DEF WriteTrue
<1>12. CASE PickerStep
  BY <1>3, <1>12 DEF PickerStep, StartPicking, StopPicking, OptionsAnswer, OptionsLand,
                     OptionsFail, PickInterval, IntervalUnavailable, apart
<1>13. CASE UNCHANGED vars
  BY <1>3, <1>13 DEF vars, client
<1>14. QED
  BY <1>4, <1>8, <1>9, <1>10, <1>11, <1>12, <1>13 DEF Next
-----------------------------------------------------------------------------
(* What the board and the review have read.                                 *)

LEMMA ReadStays ==
    ASSUME BlocksStep, NEW read, IsRead(read)
    PROVE  IsRead(read)'
BY DEF BlocksStep, IsRead

LEMMA ReadNow ==
    ASSUME BlocksTyped, DialogTyped
    PROVE  IsRead(BoardRead)
<1>1. BoardRead.horizon = [start |-> now, end |-> now + Horizon] /\ now \in Nat
  BY DEF BoardRead, BlocksTyped
<1>2. \A e \in BoardRead.blocks :
          /\ e.id \in Block /\ Stands(e.id)
          /\ e.start = block[e.id].start /\ e.end = block[e.id].end
  BY DEF BoardRead
<1>3. \A e \in BoardRead.blocks : block[e.id] \in EventRow /\ block[e.id] # None
                                  /\ block[e.id].start < block[e.id].end
  BY <1>2 DEF BlocksTyped, Stands
<1>4. Spans(BoardRead.blocks)
  BY <1>2, <1>3 DEF Spans, EventRow
<1>5. Spans(BoardRead.bars)
  <2>1. \A e \in BoardRead.bars : \E w \in booked : e.start = w.start /\ e.end = w.end
    BY DEF BoardRead
  <2>2. QED
    BY <2>1, WindowsAre DEF Spans, DialogTyped
<1>6. QED
  BY <1>1, <1>2, <1>3, <1>4, <1>5 DEF IsRead

LEMMA TellsNow ==
    ASSUME BlocksTyped, ToldIsSet
    PROVE  Tells(BoardRead)
<1>1. BoardRead.horizon.end = now + Horizon
  BY DEF BoardRead
<1> DEFINE row(b) == [id |-> b, dock |-> block[b].dock, start |-> block[b].start,
                      end |-> block[b].end]
           there(b) == Stands(b) /\ block[b].start < now + Horizon /\ block[b].end > now
<1>2. \A b \in Block : b \in {e.id : e \in BoardRead.blocks} <=> there(b)
  <2>1. BoardRead.blocks = {row(b) : b \in {c \in Block : there(c)}}
    BY DEF BoardRead
  <2>2. \A b : row(b).id = b
    OBVIOUS
  <2> HIDE DEF row, there
  <2>3. QED
    BY <2>1, <2>2
<1>3. \A b \in Block : Live(b) => /\ Stands(b) /\ block[b].end > now
  BY DEF Live, Over, Stands, BlocksTyped, EventRow
<1>4. \A b \in Block : Stands(b) /\ block[b].end > now => Live(b)
  BY DEF Live, Over, Stands, BlocksTyped, EventRow
<1>5. \A b \in told.ended : b \in Block /\ ~ Live(b)
  BY DEF ToldIsSet
<1>6. \A b \in told.blocked : b \in Block
  BY DEF ToldIsSet
<1>7. QED
  BY <1>1, <1>2, <1>3, <1>4, <1>5, <1>6 DEF Tells

LEMMA TellsStill ==
    ASSUME ToldIsSet, BlocksStep, UNCHANGED told, NEW read, Tells(read)
    PROVE  Tells(read)'
<1>1. \A b \in told.blocked : Live(b)' => Live(b) /\ block'[b] = block[b]
  BY DEF ToldIsSet, BlocksStep
<1>2. QED
  BY <1>1 DEF Tells

LEMMA BoardStays ==
    ASSUME BoardReads, ReadsTell, ToldIsSet, BlocksStep, UNCHANGED <<board, told>>
    PROVE  BoardReads' /\ ReadsTell'
<1>1. BoardReads'
  BY ReadStays DEF BoardReads
<1>2. ReadsTell'
  BY TellsStill DEF ReadsTell, BoardVisible
<1>3. QED
  BY <1>1, <1>2

LEMMA BoardRereads ==
    ASSUME BoardReads, BlocksStep, Reread
    PROVE  BoardReads' /\ ReadsTell'
<1>1. /\ board'.read = Asked /\ board'.shown = board.shown
      /\ DOMAIN board' = {"read", "shown", "failed"}
  BY DEF Reread, BoardReads
<1>2. board'.read.stage = "sent" /\ DOMAIN board'.read = {"stage", "answer"} /\ board'.read # NoRead
  BY <1>1 DEF Asked, NoRead
<1>3. BoardReads'
  BY <1>1, <1>2, ReadStays DEF BoardReads
<1>4. ReadsTell'
  BY <1>2 DEF ReadsTell
<1>5. QED
  BY <1>3, <1>4

LEMMA NextBoardReads ==
    ASSUME BoardReads, ReadsTell, ToldIsSet, BlocksTyped, DialogTyped, WritesTyped, [Next]_vars
    PROVE  BoardReads' /\ ReadsTell'
<1>1. BlocksStep
  BY NextBlocks
<1>2. CASE UNCHANGED <<board, told>>
  BY <1>1, <1>2, BoardStays
<1>3. CASE Reread
  BY <1>1, <1>3, BoardRereads
<1>4. CASE BoardAnswers
  <2> PICK read : read = BoardRead
    OBVIOUS
  <2>1. board' = [board EXCEPT !.read = [stage |-> "answered", answer |-> read]]
        /\ UNCHANGED told
    BY <1>4 DEF BoardAnswers
  <2>2. /\ board'.read = [stage |-> "answered", answer |-> read] /\ board'.shown = board.shown
        /\ DOMAIN board' = {"read", "shown", "failed"}
    BY <2>1 DEF BoardReads
  <2>3. IsRead(read)' /\ Tells(read)'
    BY <1>1, <2>1, ReadNow, ReadStays, TellsNow, TellsStill
  <2>4. BoardReads'
    BY <1>1, <2>2, <2>3, ReadStays DEF BoardReads
  <2>5. ReadsTell'
    BY <2>2, <2>3 DEF ReadsTell, NoRead
  <2>6. QED
    BY <2>4, <2>5
<1>5. CASE BoardLands
  <2>1. /\ board' = [board EXCEPT !.shown = board.read.answer, !.read = NoRead]
        /\ board.read.stage = "answered" /\ UNCHANGED told
    BY <1>5 DEF BoardLands
  <2>2. /\ board'.read = NoRead /\ board'.shown = board.read.answer
        /\ DOMAIN board' = {"read", "shown", "failed"}
    BY <2>1 DEF BoardReads
  <2> PICK read : read = board.read.answer
    OBVIOUS
  <2>3. IsRead(read)' /\ Tells(read)'
    BY <1>1, <2>1, ReadStays, TellsStill DEF BoardReads, ReadsTell
  <2>4. BoardReads'
    BY <2>2, <2>3 DEF BoardReads, NoRead
  <2>5. ReadsTell'
    BY <2>2, <2>3 DEF ReadsTell, NoRead
  <2>6. QED
    BY <2>4, <2>5
<1>6. CASE BoardFails
  <2>1. /\ board'.read = NoRead /\ board'.shown = board.shown /\ board'.failed = TRUE
        /\ DOMAIN board' = {"read", "shown", "failed"}
    BY <1>6 DEF BoardFails, BoardReads
  <2>2. BoardReads'
    BY <1>1, <2>1, ReadStays DEF BoardReads, NoRead
  <2>3. ReadsTell'
    BY <2>1 DEF ReadsTell, NoRead, BoardVisible
  <2>4. QED
    BY <2>2, <2>3
<1>7. CASE UNCHANGED vars
  BY <1>2, <1>7 DEF vars, client
<1>8. CASE OthersStep
  BY <1>2, <1>8 DEF OthersStep, OthersEnd, OthersBlock, BookingMoves, CapacityMoves, Tick,
                    OthersPropose, OthersApply, Meanwhile, client
<1>9. CASE WriteStep
  <2>1. ASSUME NEW w \in writes,
               \/ BlockChecks(w) \/ BlockInserts(w) \/ EndDockBlock(w) \/ LoseWrite(w)
               \/ ProposeFacilitySchedule(w) \/ ApplyScheduleProposal(w)
        PROVE  UNCHANGED <<board, told>>
    BY <2>1 DEF BlockChecks, BlockInserts, EndDockBlock, LoseWrite, ProposeFacilitySchedule,
                ApplyScheduleProposal, aside, client
  <2>2. ASSUME NEW w \in writes, EndLands(w) \/ BlockLands(w) \/ ProposeLands(w) \/ ApplyLands(w)
        PROVE  Reread \/ UNCHANGED <<board, told>>
    BY <2>2 DEF EndLands, BlockLands, ProposeLands, ApplyLands, rest
  <2>3. QED
    BY <1>2, <1>3, <1>9, <2>1, <2>2 DEF WriteStep
<1>10. CASE BoardStep
  BY <1>2, <1>3, <1>4, <1>5, <1>6, <1>10 DEF BoardStep, Retry, ToggleEnd, End
<1>11. CASE DialogStep
  BY <1>2, <1>11 DEF DialogStep, OpenDialog, CloseDialog, HandleSubmit, ImpactTimer, EditFields,
         ImpactAnswers, ImpactLands, ImpactFails, still
<1>12. CASE ProposalStep
  BY <1>2, <1>12 DEF ProposalStep, ListAnswers, ListLands, ListFails, OnRequestResequence,
         ReviewNewest, ReviewActive, OverlayAnswers, OverlayLands, OverlayFails, CloseOverlay,
         OnApply, OnRequestFresh, rest
<1>13. CASE PickerStep
  BY <1>2, <1>3, <1>13 DEF PickerStep, StartPicking, StopPicking, OptionsAnswer, OptionsLand,
         OptionsFail, PickInterval, IntervalUnavailable, apart
<1>14. QED
  BY <1>7, <1>8, <1>9, <1>10, <1>11, <1>12, <1>13 DEF Next

LEMMA OverlayReadsKept ==
    ASSUME OverlayReads, BlocksStep,
           \/ overlay'.board \in {overlay.board, None}
           \/ overlay.load.stage = "answered" /\ overlay'.board = overlay.load.answer.board,
           overlay'.load = overlay.load \/ overlay'.load.stage # "answered"
    PROVE  OverlayReads'
<1>1. overlay'.board # None => IsRead(overlay.board)'
  <2> SUFFICES ASSUME overlay'.board # None PROVE IsRead(overlay.board)'
    OBVIOUS
  <2> PICK read : read = overlay'.board
    OBVIOUS
  <2>1. IsRead(read)
    BY DEF OverlayReads
  <2>2. QED
    BY <2>1, ReadStays
<1>2. overlay'.load.stage = "answered" => IsRead(overlay.load.answer.board)'
  BY ReadStays DEF OverlayReads
<1>3. QED
  BY <1>1, <1>2 DEF OverlayReads

LEMMA OverlaySame ==
    ASSUME OverlayReads, BlocksStep, UNCHANGED overlay
    PROVE  OverlayReads'
BY OverlayReadsKept

LEMMA OverlayEmpty ==
    ASSUME OverlayReads, BlocksStep, overlay' = NoOverlay \/ overlay' = [NoOverlay EXCEPT !.load = Asked]
    PROVE  OverlayReads'
<1>1. overlay'.board = None /\ overlay'.load.stage # "answered"
  BY DEF NoOverlay, NoRead, Asked
<1>2. QED
  BY <1>1, OverlayReadsKept

LEMMA ReviewReads ==
    ASSUME RunInv, OverlayReads, BlocksStep, NEW rs, NEW r, Review(rs, r)
    PROVE  OverlayReads'
<1>1. DOMAIN overlay = OverlayFields
  BY DEF RunInv, ReviewTrue
<1>2. CASE overlay' = overlay \/ overlay' = [NoOverlay EXCEPT !.load = Asked]
  BY <1>2, OverlaySame, OverlayEmpty
<1>3. CASE overlay' = [overlay EXCEPT !.load = Asked, !.run = None, !.status = None, !.board = None]
  <2>1. overlay'.board = None /\ overlay'.load = Asked
    BY <1>1, <1>3 DEF OverlayFields, NoOverlay
  <2>2. QED
    BY <2>1, OverlayReadsKept DEF Asked
<1>4. QED
  BY <1>2, <1>3 DEF Review

LEMMA NextOverlayReads ==
    ASSUME RunInv, OverlayReads, BlocksTyped, ToldIsSet, DialogTyped, [Next]_vars
    PROVE  OverlayReads'
<1>1. BlocksStep
  BY NextBlocks DEF RunInv
<1>2. CASE UNCHANGED overlay
  BY <1>1, <1>2, OverlaySame
<1>3. DOMAIN overlay = OverlayFields
  BY DEF RunInv, ReviewTrue
<1>4. CASE UNCHANGED vars
  BY <1>2, <1>4 DEF vars, client
<1>5. CASE OthersStep
  BY <1>2, <1>5 DEF OthersStep, OthersEnd, OthersBlock, BookingMoves, CapacityMoves, Tick,
                    OthersPropose, OthersApply, Meanwhile, client
<1>6. CASE WriteStep
  <2>1. ASSUME NEW w \in writes,
               \/ BlockChecks(w) \/ BlockInserts(w) \/ EndDockBlock(w) \/ LoseWrite(w)
               \/ ProposeFacilitySchedule(w) \/ ApplyScheduleProposal(w)
               \/ EndLands(w) \/ BlockLands(w)
        PROVE  UNCHANGED overlay
    BY <2>1 DEF BlockChecks, BlockInserts, EndDockBlock, LoseWrite, ProposeFacilitySchedule,
                ApplyScheduleProposal, EndLands, BlockLands, aside, client
  <2>2. ASSUME NEW w \in writes, ProposeLands(w) PROVE OverlayReads'
    <3>1. UNCHANGED overlay \/ \E rs, r : Review(rs, r)
      BY <2>2 DEF ProposeLands
    <3>2. QED
      BY <1>1, <1>2, <3>1, ReviewReads
  <2>3. ASSUME NEW w \in writes, ApplyLands(w) PROVE OverlayReads'
    <3>1. overlay'.board = overlay.board /\ overlay'.load = overlay.load
      BY <1>3, <2>3 DEF ApplyLands, OverlayFields, NoOverlay
    <3>2. QED
      BY <1>1, <3>1, OverlayReadsKept
  <2>4. QED
    BY <1>2, <1>6, <2>1, <2>2, <2>3 DEF WriteStep
<1>7. CASE BoardStep
  BY <1>2, <1>7 DEF BoardStep, BoardAnswers, BoardLands, BoardFails, Retry, ToggleEnd, End
<1>8. CASE DialogStep
  BY <1>2, <1>8 DEF DialogStep, OpenDialog, CloseDialog, HandleSubmit, ImpactTimer, EditFields,
         ImpactAnswers, ImpactLands, ImpactFails, still
<1>9. CASE ListAnswers \/ ListLands \/ ListFails \/ OnRequestResequence
  BY <1>2, <1>9 DEF ListAnswers, ListLands, ListFails, OnRequestResequence, rest
<1>10. CASE ReviewNewest \/ ReviewActive
  <2>1. \E rs, r : Review(rs, r)
    BY <1>10 DEF ReviewNewest, ReviewActive
  <2>2. QED
    BY <1>1, <2>1, ReviewReads
<1>11. CASE OverlayAnswers
  <2> PICK read : read = BoardRead
    OBVIOUS
  <2>1. overlay' = [overlay EXCEPT !.load =
                     [stage |-> "answered",
                      answer |-> [status |-> run[runs.reviewing].status, board |-> read]]]
    BY <1>11 DEF OverlayAnswers
  <2>2. overlay'.board = overlay.board /\ overlay'.load.answer.board = read
    BY <1>3, <2>1 DEF OverlayFields, NoOverlay
  <2>3. IsRead(read)'
    BY <1>1, ReadNow, ReadStays
  <2>4. overlay'.board # None => IsRead(overlay.board)'
    BY <1>1, <2>2, ReadStays DEF OverlayReads
  <2>5. QED
    BY <2>2, <2>3, <2>4 DEF OverlayReads
<1>12. CASE OverlayLands \/ OverlayFails
  <2>1. /\ overlay'.load = NoRead
        /\ \/ overlay'.board = overlay.board
           \/ overlay.load.stage = "answered" /\ overlay'.board = overlay.load.answer.board
    BY <1>3, <1>12 DEF OverlayLands, OverlayFails, OverlayFields, NoOverlay
  <2>2. QED
    BY <1>1, <2>1, OverlayReadsKept DEF NoRead
<1>13. CASE CloseOverlay \/ OnRequestFresh
  BY <1>1, <1>13, OverlayEmpty DEF CloseOverlay, OnRequestFresh
<1>14. CASE OnApply
  <2>1. overlay'.board = overlay.board /\ overlay'.load = overlay.load
    BY <1>3, <1>14 DEF OnApply, OverlayFields, NoOverlay
  <2>2. QED
    BY <1>1, <2>1, OverlayReadsKept
<1>15. CASE PickerStep
  BY <1>2, <1>15 DEF PickerStep, StartPicking, StopPicking, OptionsAnswer, OptionsLand,
         OptionsFail, PickInterval, IntervalUnavailable, apart
<1>16. QED
  BY <1>4, <1>5, <1>6, <1>7, <1>8, <1>9, <1>10, <1>11, <1>12, <1>13, <1>14, <1>15
     DEF Next, ProposalStep
-----------------------------------------------------------------------------
(* The picker and the dialog.                                               *)

LEMMA NextPicker ==
    ASSUME PickerTyped, [Next]_vars
    PROVE  PickerTyped'
<1>1. CASE UNCHANGED picker
  BY <1>1 DEF PickerTyped
<1>2. CASE UNCHANGED vars \/ OthersStep
  BY <1>1, <1>2 DEF vars, client, OthersStep, OthersEnd, OthersBlock, BookingMoves, CapacityMoves,
                    Tick, OthersPropose, OthersApply, Meanwhile
<1>3. CASE WriteStep
  BY <1>1, <1>3 DEF WriteStep, BlockChecks, BlockInserts, EndDockBlock, LoseWrite,
       ProposeFacilitySchedule, ApplyScheduleProposal, EndLands, BlockLands, ProposeLands,
       ApplyLands, aside, client, rest
<1>4. CASE BoardStep
  BY <1>1, <1>4 DEF BoardStep, BoardAnswers, BoardLands, BoardFails, Retry, ToggleEnd, End
<1>5. CASE DialogStep
  BY <1>1, <1>5 DEF DialogStep, OpenDialog, CloseDialog, HandleSubmit, ImpactTimer, EditFields,
         ImpactAnswers, ImpactLands, ImpactFails, still
<1>6. CASE ProposalStep
  BY <1>1, <1>6 DEF ProposalStep, ListAnswers, ListLands, ListFails, OnRequestResequence,
         ReviewNewest, ReviewActive, OverlayAnswers, OverlayLands, OverlayFails, CloseOverlay,
         OnApply, OnRequestFresh, rest
<1>7. CASE StartPicking \/ StopPicking \/ IntervalUnavailable
  BY <1>7 DEF PickerTyped, StartPicking, StopPicking, IntervalUnavailable, Picking, Asked, NoRead
<1>8. CASE OptionsAnswer
  <2>1. PICK S \in SUBSET Slot :
           picker' = [picker EXCEPT !.read = [stage |-> "answered", answer |-> S]]
    BY <1>8 DEF OptionsAnswer
  <2>2. picker'.options = picker.options /\ picker'.read = [stage |-> "answered", answer |-> S]
        /\ DOMAIN picker' = {"on", "read", "options", "chosen"}
    BY <2>1 DEF PickerTyped
  <2>3. QED
    BY <2>2 DEF PickerTyped
<1>9. CASE OptionsLand \/ OptionsFail
  <2>1. /\ picker'.read = NoRead
        /\ DOMAIN picker' = {"on", "read", "options", "chosen"}
    BY <1>9 DEF PickerTyped, OptionsLand, OptionsFail
  <2>2. picker'.options \subseteq Slot
    BY <1>9 DEF PickerTyped, OptionsLand, OptionsFail
  <2>3. QED
    BY <2>1, <2>2 DEF PickerTyped, NoRead
<1>10. ASSUME NEW o \in Slot, PickInterval(o) PROVE PickerTyped'
  BY <1>10 DEF PickerTyped, PickInterval
<1>11. QED
  BY <1>2, <1>3, <1>4, <1>5, <1>6, <1>7, <1>8, <1>9, <1>10 DEF Next, PickerStep

LEMMA NextDialog ==
    ASSUME DialogTyped, [Next]_vars
    PROVE  DialogTyped'
<1>1. CASE UNCHANGED <<dialog, booked>>
  BY <1>1 DEF DialogTyped
<1>2. CASE UNCHANGED vars
  BY <1>1, <1>2 DEF vars, server, client
<1>3. ASSUME NEW at \in Window, BookingMoves(at) PROVE DialogTyped'
  BY <1>3 DEF BookingMoves, Meanwhile, client, DialogTyped
<1>4. CASE OthersStep
  BY <1>1, <1>3, <1>4 DEF OthersStep, OthersEnd, OthersBlock, CapacityMoves, Tick, OthersPropose,
                          OthersApply, Meanwhile, client
<1>5. ASSUME NEW w \in writes, BlockLands(w) PROVE DialogTyped'
  BY <1>5 DEF DialogTyped, ClosedDialog, BlockLands, others, server
<1>6. CASE WriteStep
  BY <1>1, <1>5, <1>6 DEF WriteStep, BlockChecks, BlockInserts, EndDockBlock, LoseWrite,
       ProposeFacilitySchedule, ApplyScheduleProposal, EndLands, ProposeLands, ApplyLands,
       aside, client, rest, others, server
<1>7. CASE BoardStep
  BY <1>1, <1>7 DEF BoardStep, BoardAnswers, BoardLands, BoardFails, Retry, ToggleEnd, End,
                    others, server
<1>8. ASSUME NEW at \in Window \cup {None}, EditFields(at) PROVE DialogTyped'
  BY <1>8 DEF DialogTyped, ClosedDialog, EditFields, server
<1>9. CASE DialogStep
  BY <1>8, <1>9 DEF DialogTyped, ClosedDialog, DialogStep, OpenDialog, CloseDialog, HandleSubmit,
         ImpactTimer, ImpactAnswers, ImpactLands, ImpactFails, still, others, server
<1>10. CASE ProposalStep
  BY <1>1, <1>10 DEF ProposalStep, ListAnswers, ListLands, ListFails, OnRequestResequence,
         ReviewNewest, ReviewActive, OverlayAnswers, OverlayLands, OverlayFails, CloseOverlay,
         OnApply, OnRequestFresh, rest, others, server
<1>11. CASE PickerStep
  BY <1>1, <1>11 DEF PickerStep, StartPicking, StopPicking, OptionsAnswer, OptionsLand,
         OptionsFail, PickInterval, IntervalUnavailable, apart, server
<1>12. QED
  BY <1>2, <1>4, <1>6, <1>7, <1>9, <1>10, <1>11 DEF Next
-----------------------------------------------------------------------------
(* The layout.                                                              *)

Fits(place) == place.width >= 0 /\ place.left + place.width <= Horizon

\* What is placed at all is placed on the track, clipped to it.
LEMMA PlacedFits ==
    ASSUME NEW h, h.start \in Nat, h.end = h.start + Horizon,
           NEW i, i.start \in Nat, i.end \in Nat, i.start < i.end, Placed(i, h) # Nowhere
    PROVE  Fits(Placed(i, h))
<1> DEFINE upTo == IF i.end = NoEnd THEN h.end ELSE i.end
           from == Later(i.start, h.start)
<1>1. Horizon \in Nat \ {0}
  BY BoardAssumption
<1>2. Placed(i, h) = [left |-> from - h.start, width |-> Earlier(upTo, h.end) - from]
      /\ ~ (upTo <= h.start) /\ ~ (i.start >= h.end)
  BY DEF Placed, PlaceOnTrack
<1>3. upTo \in Nat /\ i.start < upTo
  BY <1>1, <1>2
<1>4. from \in Nat /\ from < h.end /\ from < upTo /\ h.start <= from
  BY <1>1, <1>2, <1>3 DEF Later
<1>5. Earlier(upTo, h.end) \in Nat /\ from < Earlier(upTo, h.end) /\ Earlier(upTo, h.end) <= h.end
  BY <1>1, <1>3, <1>4 DEF Earlier
<1> HIDE DEF upTo, from
<1>6. Fits([left |-> from - h.start, width |-> Earlier(upTo, h.end) - from])
  BY <1>1, <1>4, <1>5 DEF Fits
<1>7. QED
  BY <1>2, <1>6

LEMMA LineFits ==
    ASSUME NEW h, h.start \in Nat, h.end = h.start + Horizon, NEW t, LineAt(t, h) # Nowhere
    PROVE  Fits(LineAt(t, h))
<1>1. Horizon \in Nat
  BY BoardAssumption
<1>2. t \in h.start .. h.end /\ LineAt(t, h) = [left |-> t - h.start, width |-> 0]
  BY DEF LineAt
<1>3. Fits([left |-> t - h.start, width |-> 0])
  BY <1>1, <1>2 DEF Fits
<1>4. QED
  BY <1>2, <1>3

LEMMA BoardFits ==
    ASSUME NEW board_, IsRead(board_), NEW proposal, Spans(proposal), NEW options, Spans(options),
           NEW docks, NEW hour, NEW instant
    PROVE  \A place \in Board(board_, docks, instant, hour, proposal, options) : Fits(place)
<1> DEFINE h == board_.horizon
<1>1. h.start \in Nat /\ h.end = h.start + Horizon
  BY DEF IsRead
<1>2. ASSUME NEW items, Spans(items), NEW i \in OnTrack(items, h) PROVE Fits(Placed(i, h))
  BY <1>1, <1>2, PlacedFits DEF Spans, OnTrack
<1>3. ASSUME NEW items, Spans(items), NEW k PROVE Spans(ByDock(items, k))
  BY <1>3 DEF Spans, ByDock
<1>4. ASSUME NEW k \in docks, NEW place \in Lane(k, board_, proposal, options)
      PROVE  Fits(place)
  <2>1. \E items \in {board_.bars, board_.blocks, proposal, options} :
           \E i \in OnTrack(ByDock(items, k), h) : place = Placed(i, h)
    BY <1>4 DEF Lane, Bars, BlockMarkers, ProposalDeltaBars, PickableIntervals, OnTrack
  <2>2. PICK items \in {board_.bars, board_.blocks, proposal, options} :
           \E i \in OnTrack(ByDock(items, k), h) : place = Placed(i, h)
    BY <2>1
  <2>3. PICK i \in OnTrack(ByDock(items, k), h) : place = Placed(i, h)
    BY <2>2
  <2>4. Spans(items)
    BY <2>2 DEF IsRead
  <2>5. QED
    BY <1>2, <1>3, <2>3, <2>4
<1>5. ASSUME NEW t, LineAt(t, h) # Nowhere PROVE Fits(LineAt(t, h))
  BY <1>1, <1>5, LineFits
<1>6. ASSUME NEW place \in Board(board_, docks, instant, hour, proposal, options)
      PROVE  Fits(place)
  <2>1. \/ place \in UNION {Lane(k, board_, proposal, options) : k \in docks}
        \/ place \in {LineAt(t, board_.horizon) :
                           t \in HourTicks(board_.horizon, hour) \cup {instant}} \ {Nowhere}
    BY <1>6 DEF Board
  <2>2. CASE place \in UNION {Lane(k, board_, proposal, options) : k \in docks}
    BY <1>4, <2>2
  <2>3. CASE place \in {LineAt(t, h) : t \in HourTicks(h, hour) \cup {instant}} \ {Nowhere}
    <3>1. PICK t \in HourTicks(h, hour) \cup {instant} : place = LineAt(t, h)
      BY <2>3
    <3>2. QED
      BY <1>5, <2>3, <3>1
  <2>4. QED
    BY <2>1, <2>2, <2>3
<1>7. QED
  BY <1>6

\* An option is offered on a lane, or is one of those counted.
LEMMA OfferedOrCounted ==
    ASSUME NEW options \in SUBSET Slot, NEW h
    PROVE  Cardinality(UNION {PickableIntervals(ByDock(options, d), h) : d \in Dock})
               + CountOutOfHorizon(options, Dock, h) = Cardinality(options)
<1> DEFINE Off == {o \in options : o.dock \notin Dock \/ Placed(o, h) = Nowhere}
<1>1. UNION {PickableIntervals(ByDock(options, d), h) : d \in Dock} = options \ Off
  BY DEF PickableIntervals, ByDock, OnTrack
<1>2. IsFiniteSet(options) /\ IsFiniteSet(Off) /\ Off \subseteq options
  <2>1. IsFiniteSet(options)
    BY FS_Subset, BoardAssumption
  <2>2. Off \subseteq options
    OBVIOUS
  <2>3. QED
    BY <2>1, <2>2, FS_Subset
<1>3. CountOutOfHorizon(options, Dock, h) = Cardinality(Off)
  BY DEF CountOutOfHorizon
<1> HIDE DEF Off
<1>4. Cardinality(options \ Off) = Cardinality(options) - Cardinality(Off)
  <2>1. options \cap Off = Off
    BY <1>2
  <2>2. QED
    BY <1>2, <2>1, FS_Difference
<1>5. Cardinality(options) \in Nat /\ Cardinality(Off) \in Nat
  BY <1>2, FS_CardinalityType
<1>6. /\ Cardinality(UNION {PickableIntervals(ByDock(options, d), h) : d \in Dock})
            = Cardinality(options) - Cardinality(Off)
      /\ CountOutOfHorizon(options, Dock, h) = Cardinality(Off)
  BY <1>1, <1>3, <1>4
<1>7. QED
  BY <1>5, <1>6
-----------------------------------------------------------------------------
(* The theorems.                                                            *)

LEMMA InitBoard == Init => BoardInv
<1> SUFFICES ASSUME Init PROVE BoardInv
  OBVIOUS
<1>1. RunsTyped
  BY DEF Init, RunsTyped, RunStatus
<1>2. WritesTyped /\ AnswersTrue
  BY DEF Init, WritesTyped, AnswersTrue
<1>3. ReviewTrue
  BY DEF Init, ReviewTrue, OverlayFields, NoOverlay, NoRead, Asked
<1>4. BlocksTyped
  BY DEF Init, BlocksTyped, Stands
<1>5. BoardReads
  BY DEF Init, BoardReads, Asked
<1>6. OverlayReads
  BY DEF Init, OverlayReads, NoOverlay, NoRead
<1>7. ToldIsSet
  BY DEF Init, ToldIsSet
<1>8. ReadsTell
  BY DEF Init, ReadsTell, NoRead, Asked
<1>9. PickerTyped
  BY DEF Init, PickerTyped, NoRead
<1>10. DialogTyped
  BY DEF Init, DialogTyped, ClosedDialog
<1>11. QED
  BY <1>1, <1>2, <1>3, <1>4, <1>5, <1>6, <1>7, <1>8, <1>9, <1>10 DEF BoardInv, RunInv

LEMMA NextBoard ==
    ASSUME BoardInv, [Next]_vars
    PROVE  BoardInv'
<1>1. RunInv'
  BY NextRunInv DEF BoardInv
<1>2. BlocksTyped'
  BY NextBlocks DEF BoardInv, RunInv, BlocksStep
<1>3. BoardReads' /\ ReadsTell'
  BY NextBoardReads DEF BoardInv, RunInv
<1>4. OverlayReads'
  BY NextOverlayReads DEF BoardInv
<1>5. ToldIsSet'
  BY NextTold DEF BoardInv, RunInv
<1>6. PickerTyped' /\ DialogTyped'
  BY NextPicker, NextDialog DEF BoardInv
<1>7. QED
  BY <1>1, <1>2, <1>3, <1>4, <1>5, <1>6 DEF BoardInv

LEMMA BoardStaysTrue == Spec => []BoardInv
BY InitBoard, NextBoard, PTL DEF Spec

\* BoardTellsOwnDecisions, whatever the number of blocks, of planners at work
\* and of reads and writes that are lost or overtake one another.
THEOREM OwnDecisionsAreShown == Spec => []BoardTellsOwnDecisions
<1>1. BoardInv => BoardTellsOwnDecisions
  <2> SUFFICES ASSUME BoardInv, BoardVisible, board.read = NoRead
               PROVE  /\ \A b \in told.ended : ~ Shown(b)
                      /\ \A b \in told.blocked :
                            (Stands(b) /\ ~ Over(b) /\ block[b].start < board.shown.horizon.end)
                            => Shown(b)
    BY DEF BoardTellsOwnDecisions
  <2>1. Tells(board.shown)
    BY DEF BoardInv, ReadsTell
  <2>2. QED
    BY <2>1 DEF Tells, Shown, Live, BoardVisible
<1>2. QED
  BY <1>1, BoardStaysTrue, PTL

\* EveryOptionDrawnOrCounted, for any options and any board, of any two times.
THEOREM OptionsAreAccountedFor == Spec => []EveryOptionDrawnOrCounted
<1>1. BoardInv => EveryOptionDrawnOrCounted
  <2> SUFFICES ASSUME BoardInv PROVE EveryOptionDrawnOrCounted
    OBVIOUS
  <2>1. Spans(Window) /\ Spans({}) /\ \A S \in SUBSET Slot : Spans(S)
    BY BoardAssumption DEF Spans
  <2>2. picker.options # None => picker.options \in SUBSET Slot
    BY DEF BoardInv, PickerTyped
  <2>3. /\ board.shown # None => IsRead(board.shown)
        /\ overlay.board # None => IsRead(overlay.board)
    BY DEF BoardInv, BoardReads, OverlayReads
  <2>4. picker.options # None =>
            Cardinality(Offered) + CountOutOfHorizon(picker.options, Dock, board.shown.horizon)
                = Cardinality(picker.options)
    BY <2>2, OfferedOrCounted DEF Offered
  <2>5. BoardVisible => \A place \in Board(board.shown, Dock, now, Hour, {},
                              IF picker.options = None THEN {} ELSE picker.options) : Fits(place)
    BY <2>1, <2>2, <2>3, BoardFits DEF BoardVisible
  <2>6. overlay.board # None =>
            \A place \in Board(overlay.board, Dock, now, Hour, Window, {}) : Fits(place)
    BY <2>1, <2>3, BoardFits
  <2>7. QED
    BY <2>4, <2>5, <2>6 DEF EveryOptionDrawnOrCounted, Fits
<1>2. QED
  BY <1>1, BoardStaysTrue, PTL

\* OutcomeIsTrue, for any number of runs, planners, retries under one key and
\* reviews that were closed, opened again or moved to another run meanwhile.
THEOREM OutcomesAreTrue == Spec => []OutcomeIsTrue
<1>1. BoardInv => OutcomeIsTrue
  <2> SUFFICES ASSUME BoardInv PROVE OutcomeIsTrue
    OBVIOUS
  <2>1. overlay.outcome # None => CodeTrue(overlay.outcome, overlay.about)
    BY DEF BoardInv, RunInv, ReviewTrue
  <2>2. None \notin {"APPLIED", "ALREADY_APPLIED", "RUN_NOT_ACTIVE", "SNAPSHOT_DRIFT",
                   "PARTIALLY_INFEASIBLE", "AppliedNotice", "SnapshotDrift"}
    BY NullAssumption DEF ApplyCode
  <2>3. CASE overlay.run = None \/ overlay.outcome = None
    <3>1. Notice = None
      BY <2>3 DEF Notice
    <3>2. QED
      BY <2>1, <2>2, <3>1 DEF OutcomeIsTrue, CodeTrue, Refusal
  <2>4. CASE ~ (overlay.run = None \/ overlay.outcome = None)
    <3>1. Notice = IF overlay.outcome = "APPLIED" THEN "AppliedNotice"
                   ELSE IF overlay.outcome = "SNAPSHOT_DRIFT" THEN "SnapshotDrift"
                   ELSE "PartiallyInfeasible"
      BY <2>4 DEF Notice
    <3>2. QED
      BY <2>1, <2>4, <3>1 DEF OutcomeIsTrue, CodeTrue, Refusal
  <2>5. QED
    BY <2>3, <2>4
<1>2. QED
  BY <1>1, BoardStaysTrue, PTL

\* AppliedAsReviewed: no step, of whomever, applies a run twice or on a state
\* other than the one it was computed for.
THEOREM AppliedOnceAsReviewed == Spec => AppliedAsReviewed
<1>1. BoardInv /\ [Next]_vars =>
        [\A r \in Run :
            /\ run[r].status = "APPLIED" => run'[r] = run[r]
            /\ (run[r].status # "APPLIED" /\ run'[r].status = "APPLIED")
                  => Active(r) /\ capacity = run[r].hash]_vars
  <2> SUFFICES ASSUME BoardInv, [Next]_vars
               PROVE  \A r \in Run :
                        /\ run[r].status = "APPLIED" => run'[r] = run[r]
                        /\ (run[r].status # "APPLIED" /\ run'[r].status = "APPLIED")
                              => Active(r) /\ capacity = run[r].hash
    OBVIOUS
  <2>1. RunsStep
    BY NextRuns DEF BoardInv, RunInv
  <2>2. QED
    BY <2>1 DEF RunsStep
<1>2. QED
  BY <1>1, BoardStaysTrue, PTL DEF Spec, AppliedAsReviewed
=============================================================================
