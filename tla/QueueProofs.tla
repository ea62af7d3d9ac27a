---------------------------- MODULE QueueProofs ----------------------------
(* The planner's queue, for any requests, snapshot hashes, reads, writes    *)
(* and losses: what the planner was told he decided is decided, a confirm   *)
(* is of what he saw, and his list changes under him only as he asks.  The  *)
(* invariant says what the answers still under way, and those the server    *)
(* would give again, know of the rows they speak of.                        *)
EXTENDS PlannerQueue, SublistProofs, FunctionTheorems

Row == [id : Request, hash : Hash, held : BOOLEAN]
Rows == Seq(Row)
Answered == Rows \cup {None}

Write == [kind : Kind, ids : SUBSET Request, hash : Hash \cup {None}, key : Nat,
          stage : {"sent", "answered", "failed"}, took : BOOLEAN,
          code : UNION {[S -> Code] : S \in SUBSET Request}]
WriteTyped(w) ==
    /\ w \in Write
    /\ w.code \in [w.ids -> Code]
    /\ w.kind # "bulk" => \E a \in Request : w.ids = {a}

Dialog == {NoDialog} \cup [kind : {"reject", "hold"}, id : Request]
Press == {NoPress} \cup [kind : {"confirm", "reject", "hold"}, id : Request]
Picking == {None} \cup [id : Request, hash : Hash]

ServerTyped ==
    /\ server \in [Request -> Appointment]
    /\ ranking \in Ranking /\ moves \in Nat /\ tools \in SUBSET Kind

WritesTyped ==
    /\ \A k \in DOMAIN stored : WriteTyped(stored[k])
    /\ \A w \in writes : WriteTyped(w)
    /\ \A s \in DOMAIN keys : keys[s] \in Nat
    /\ minted \in Nat

ReadsTyped ==
    /\ poll \in [timer : BOOLEAN, flight : {"none", "sent", "answered", "failed"},
                 answer : Answered, hidden : BOOLEAN]
    /\ poll.flight = "answered" => poll.answer \in Rows
    /\ load \in [stage : {"none", "sent", "answered"}, answer : Answered, failed : BOOLEAN]
    /\ load.stage = "answered" => load.answer \in Rows
    /\ live \in [rows : Rows, staged : Rows, vanished : SUBSET Request, latest : Rows]

ScreenTyped ==
    /\ ui \in [within : BOOLEAN, selected : SUBSET Request, dialog : Dialog, pending : Press,
               batchBusy : BOOLEAN, picking : Picking]
    /\ closed \in SUBSET Request /\ told \in SUBSET Request

QueueTyped == ServerTyped /\ WritesTyped /\ ReadsTyped /\ ScreenTyped

\* Nothing the server does later takes a decision back.
Decided(a) == server[a].status \in {"CONFIRMED", "REJECTED"}

\* An answer that says "done" of a row is given after the row was decided, and
\* is the same when it is given again.
SaysSo(w) ==
    w.stage = "answered" /\ w.kind \in {"confirm", "reject", "bulk"}
        => \A a \in Done(w) : Decided(a)
AnswersAreTrue ==
    /\ \A k \in DOMAIN stored : stored[k].stage = "answered" /\ SaysSo(stored[k])
    /\ \A w \in writes : SaysSo(w)

\* A re-sort brings nothing that is neither on the screen nor staged.
NothingHidden == Ids(live.latest) \subseteq Ids(live.rows) \cup Ids(live.staged)

QueueInv == QueueTyped /\ AnswersAreTrue /\ NothingHidden /\ ToldIsTrue
-----------------------------------------------------------------------------
(* What the helpers return.                                                 *)

LEMMA NoneIsNone == None \notin Request /\ None \notin Hash
BY QueueAssumption

LEMMA IdsOfRows == ASSUME NEW rows \in Rows PROVE Ids(rows) \subseteq Request
<1>1. \A i \in DOMAIN rows : rows[i] \in Row
  BY DEF Rows
<1>2. QED
  BY <1>1 DEF Ids, Row

LEMMA RankingExists == \E r \in Ranking : TRUE
<1>1. Cardinality(Request) \in Nat /\ ExistsBijection(1 .. Cardinality(Request), Request)
  BY QueueAssumption, FS_CardinalityType
<1>2. PICK r : r \in Bijection(1 .. Cardinality(Request), Request)
  BY <1>1 DEF ExistsBijection
<1>3. r \in [1 .. Cardinality(Request) -> Request]
      /\ \A a \in Request : \E i \in 1 .. Cardinality(Request) : r[i] = a
  BY <1>2 DEF Bijection, Surjection, Injection
<1>4. DOMAIN r = 1 .. Cardinality(Request)
  BY <1>3
<1>5. QED
  BY <1>3, <1>4 DEF Ranking

LEMMA RankingIsSeq == ASSUME NEW r \in Ranking PROVE r \in Seq(Request)
<1>1. Cardinality(Request) \in Nat
  BY QueueAssumption, FS_CardinalityType
<1>2. r \in [1 .. Cardinality(Request) -> Request]
  BY DEF Ranking
<1>3. QED
  BY <1>1, <1>2

LEMMA OnlyProperties ==
    ASSUME NEW rows \in Rows, NEW S
    PROVE  Only(rows, S) \in Rows /\ Ids(Only(rows, S)) = Ids(rows) \cap S
<1> DEFINE kept == {r \in Members(rows) : r.id \in S}
<1>1. Keep(rows, kept) \in Rows /\ Members(Keep(rows, kept)) = Members(rows) \cap kept
  BY KeepProperties DEF Rows
<1>2. \A s : Ids(s) = {r.id : r \in Members(s)}
  BY DEF Ids, Members
<1>3. Only(rows, S) = Keep(rows, kept)
  BY DEF Only
<1>4. QED
  BY <1>1, <1>2, <1>3

LEMMA RowOfIsRow ==
    ASSUME NEW rows \in Rows, NEW a \in Ids(rows)
    PROVE  RowOf(rows, a) \in Row /\ RowOf(rows, a).id = a
<1>1. \E i \in DOMAIN rows : rows[i].id = a
  BY DEF Ids
<1>2. PICK j \in DOMAIN rows : rows[j].id = a /\ RowOf(rows, a) = rows[j]
  BY <1>1 DEF RowOf
<1>3. QED
  BY <1>2 DEF Rows

LEMMA RefreshedProperties ==
    ASSUME NEW rows \in Rows, NEW q \in Rows
    PROVE  /\ Refreshed(rows, q) \in Rows
           /\ Order(Refreshed(rows, q)) = Order(rows)
           /\ Ids(Refreshed(rows, q)) = Ids(rows)
<1> DEFINE new(i) == IF rows[i].id \in Ids(q) THEN RowOf(q, rows[i].id) ELSE rows[i]
           R == [i \in DOMAIN rows |-> new(i)]
<1>1. ASSUME NEW i \in DOMAIN rows PROVE new(i) \in Row /\ new(i).id = rows[i].id
  <2>1. rows[i] \in Row
    BY DEF Rows
  <2>2. QED
    BY <2>1, RowOfIsRow
<1>2. DOMAIN rows = 1 .. Len(rows) /\ Len(rows) \in Nat
  BY DEF Rows
<1>3. R \in Rows
  <2>1. R \in [1 .. Len(rows) -> Row]
    BY <1>1, <1>2
  <2>2. QED
    BY <1>2, <2>1 DEF Rows
<1>4. DOMAIN R = DOMAIN rows /\ \A i \in DOMAIN rows : R[i].id = rows[i].id
  BY <1>1
<1>5. R = Refreshed(rows, q)
  BY DEF Refreshed
<1> HIDE DEF R, new
<1>6. QED
  BY <1>3, <1>4, <1>5 DEF Order, Ids

LEMMA QueueReadIsRows == ASSUME ServerTyped PROVE QueueRead \in Rows
<1> DEFINE pending == Keep(ranking, Pending)
<1>1. pending \in Seq(Request)
  BY RankingIsSeq, KeepProperties DEF ServerTyped
<1>2. DOMAIN pending = 1 .. Len(pending) /\ Len(pending) \in Nat
  BY <1>1
<1>3. QueueRead = [i \in DOMAIN pending |-> [id |-> pending[i], hash |-> server[pending[i]].hash,
                                            held |-> server[pending[i]].held]]
  BY DEF QueueRead
<1> HIDE DEF pending
<1>4. ASSUME NEW i \in DOMAIN pending
      PROVE  [id |-> pending[i], hash |-> server[pending[i]].hash,
              held |-> server[pending[i]].held] \in Row
  BY <1>1, <1>2 DEF ServerTyped, Appointment, Row
<1>5. QueueRead \in [1 .. Len(pending) -> Row]
  BY <1>2, <1>3, <1>4
<1>6. QED
  BY <1>2, <1>5 DEF Rows

Views == [rows : Rows, staged : Rows, vanished : SUBSET Request, latest : Rows]
Whole(l) == Ids(l.latest) \subseteq Ids(l.rows) \cup Ids(l.staged)

LEMMA AdoptQueueIsWhole ==
    ASSUME NEW q \in Rows
    PROVE  AdoptQueue(q) \in Views /\ Whole(AdoptQueue(q))
BY DEF AdoptQueue, Views, Whole, Rows

LEMMA MergeQueueIsWhole ==
    ASSUME NEW l \in Views, NEW q \in Rows, NEW frozen \in BOOLEAN
    PROVE  /\ MergeQueue(l, q, frozen) \in Views /\ Whole(MergeQueue(l, q, frozen))
           /\ frozen => /\ Order(MergeQueue(l, q, frozen).rows) = Order(l.rows)
                        /\ Ids(MergeQueue(l, q, frozen).rows) = Ids(l.rows)
           /\ ~ frozen => MergeQueue(l, q, frozen) = AdoptQueue(q)
<1>1. CASE ~ frozen
  BY <1>1, AdoptQueueIsWhole DEF MergeQueue
<1>2. CASE frozen
  <2> DEFINE R == Refreshed(l.rows, q)
             staged == Only(q, Request \ Ids(l.rows))
  <2>1. l.rows \in Rows
    BY DEF Views
  <2>2. R \in Rows /\ Order(R) = Order(l.rows) /\ Ids(R) = Ids(l.rows)
    BY <2>1, RefreshedProperties
  <2>3. staged \in Rows /\ Ids(staged) = Ids(q) \cap (Request \ Ids(l.rows))
    BY OnlyProperties
  <2>4. Ids(q) \subseteq Request /\ Ids(l.rows) \subseteq Request
    BY <2>1, IdsOfRows
  <2>5. MergeQueue(l, q, frozen) =
            [rows |-> R, staged |-> staged, vanished |-> Ids(l.rows) \ Ids(q), latest |-> q]
    BY <1>2 DEF MergeQueue
  <2> HIDE DEF R, staged
  <2>6. MergeQueue(l, q, frozen) \in Views
    BY <2>2, <2>3, <2>4, <2>5 DEF Views
  <2>7. PICK m : m = MergeQueue(l, q, frozen)
    OBVIOUS
  <2>8. m.rows = R /\ m.staged = staged /\ m.latest = q
    BY <2>5, <2>7
  <2>9. Whole(m)
    BY <2>2, <2>3, <2>4, <2>8 DEF Whole
  <2>10. QED
    BY <1>2, <2>2, <2>6, <2>7, <2>8, <2>9
<1>3. QED
  BY <1>1, <1>2

LEMMA RemoveRowsIsWhole ==
    ASSUME NEW l \in Views, Whole(l), NEW gone \in SUBSET Request
    PROVE  /\ RemoveRows(l, gone) \in Views /\ Whole(RemoveRows(l, gone))
           /\ RemoveRows(l, gone).rows = Only(l.rows, Request \ gone)
           /\ Ids(RemoveRows(l, gone).rows) \subseteq Ids(l.rows)
<1> DEFINE stays == Request \ gone
<1>1. l.rows \in Rows /\ l.staged \in Rows /\ l.latest \in Rows
  BY DEF Views
<1>2. /\ Only(l.rows, stays) \in Rows /\ Ids(Only(l.rows, stays)) = Ids(l.rows) \cap stays
      /\ Only(l.staged, stays) \in Rows /\ Ids(Only(l.staged, stays)) = Ids(l.staged) \cap stays
      /\ Only(l.latest, stays) \in Rows /\ Ids(Only(l.latest, stays)) = Ids(l.latest) \cap stays
  BY <1>1, OnlyProperties
<1>3. RemoveRows(l, gone) = [rows |-> Only(l.rows, stays), staged |-> Only(l.staged, stays),
                             vanished |-> l.vanished \ gone, latest |-> Only(l.latest, stays)]
  BY DEF RemoveRows
<1>4. QED
  BY <1>2, <1>3, SMTT(20) DEF Views, Whole
-----------------------------------------------------------------------------
(* The invariant, and what leaves it alone.                                 *)

Screen == [within : BOOLEAN, selected : SUBSET Request, dialog : Dialog, pending : Press,
           batchBusy : BOOLEAN, picking : Picking]

LEMMA QueueStarts == ASSUME Init PROVE QueueInv
<1>1. ServerTyped
  <2>1. ranking \in Ranking
    BY RankingExists DEF Init
  <2>2. server \in [Request -> Appointment]
    <3>1. server \in [Request -> {s \in Appointment : /\ s.status \in {"NONE", "PENDING"}
                                                      /\ s.hash \notin Clashing /\ ~ s.held}]
      BY DEF Init
    <3>2. QED
      BY <3>1
  <2>3. QED
    BY <2>1, <2>2 DEF Init, ServerTyped
<1>2. WritesTyped
  BY DEF Init, WritesTyped
<1>3. ReadsTyped
  <2>1. << >> \in Rows /\ {} \in SUBSET Request /\ None \in Answered
    BY DEF Rows, Answered
  <2>2. poll = [timer |-> TRUE, flight |-> "none", answer |-> None, hidden |-> FALSE]
    BY DEF Init, LP!PollInit, LP!Refs
  <2>3. load = [stage |-> "sent", answer |-> None, failed |-> FALSE] /\ live = EmptyLive
    BY DEF Init
  <2>4. QED
    BY <2>1, <2>2, <2>3 DEF ReadsTyped, EmptyLive
<1>4. ScreenTyped
  BY DEF Init, ScreenTyped, Dialog, Press, Picking
<1>5. NothingHidden
  BY DEF Init, EmptyLive, NothingHidden, Ids
<1>6. AnswersAreTrue /\ ToldIsTrue
  BY DEF Init, AnswersAreTrue, ToldIsTrue
<1>7. QED
  BY <1>1, <1>2, <1>3, <1>4, <1>5, <1>6 DEF QueueInv, QueueTyped

\* Decisions stand, so what was said of them stays true.
LEMMA StillTrue ==
    ASSUME AnswersAreTrue, ToldIsTrue, \A a \in Request : Decided(a) => Decided(a)',
           UNCHANGED stored, WritesTyped, ScreenTyped,
           \A w \in writes' : w \in writes \/ SaysSo(w)',
           \A a \in told' : a \in told \/ Decided(a)'
    PROVE  AnswersAreTrue' /\ ToldIsTrue'
<1>1. ASSUME NEW w, WriteTyped(w), SaysSo(w) PROVE SaysSo(w)'
  <2>1. Done(w) \subseteq Request
    BY <1>1 DEF WriteTyped, Write, Done
  <2>2. QED
    BY <1>1, <2>1 DEF SaysSo
<1>2. ToldIsTrue'
  BY DEF ToldIsTrue, Decided, ScreenTyped
<1>3. AnswersAreTrue'
  BY <1>1 DEF AnswersAreTrue, WritesTyped
<1>4. QED
  BY <1>2, <1>3

\* A step of the reads.
LEMMA ReadKeeps ==
    ASSUME QueueInv, UNCHANGED <<server, ranking, tools, stored, ui, closed, keys, minted, writes, told>>,
           moves' \in Nat, ReadsTyped', NothingHidden'
    PROVE  QueueInv'
<1>1. ServerTyped' /\ WritesTyped' /\ ScreenTyped'
  BY DEF QueueInv, QueueTyped, ServerTyped, WritesTyped, ScreenTyped
<1>2. AnswersAreTrue' /\ ToldIsTrue'
  BY DEF QueueInv, AnswersAreTrue, ToldIsTrue, SaysSo, Decided
<1>3. QED
  BY <1>1, <1>2 DEF QueueInv, QueueTyped

\* A step of the planner that sends nothing.
LEMMA StillKeeps ==
    ASSUME QueueInv, UNCHANGED <<server, ranking, tools, stored, keys, minted, writes, told, poll>>,
           moves' \in Nat, ui' \in Screen, closed' \in SUBSET Request, ReadsTyped', NothingHidden'
    PROVE  QueueInv'
<1>1. ServerTyped' /\ WritesTyped' /\ ScreenTyped'
  BY DEF QueueInv, QueueTyped, ServerTyped, WritesTyped, ScreenTyped, Screen
<1>2. AnswersAreTrue' /\ ToldIsTrue'
  BY DEF QueueInv, AnswersAreTrue, ToldIsTrue, SaysSo, Decided
<1>3. QED
  BY <1>1, <1>2 DEF QueueInv, QueueTyped

LEMMA SameReads ==
    ASSUME QueueInv, UNCHANGED <<poll, load, live>>
    PROVE  ReadsTyped' /\ NothingHidden'
BY DEF QueueInv, QueueTyped, ReadsTyped, NothingHidden

LEMMA SameScreen == ASSUME QueueInv PROVE ui \in Screen /\ closed \in SUBSET Request /\ moves \in Nat
BY DEF QueueInv, QueueTyped, ScreenTyped, ServerTyped, Screen

LEMMA StutterKeeps == ASSUME QueueInv, UNCHANGED vars PROVE QueueInv'
<1>1. ReadsTyped' /\ NothingHidden'
  BY SameReads DEF vars
<1>2. QED
  BY <1>1, SameScreen, ReadKeeps DEF vars
-----------------------------------------------------------------------------
(* The server.                                                              *)

\* The requests move, and no decision is undone.
LEMMA OthersKeep ==
    ASSUME QueueInv, UNCHANGED <<tools, stored, writes, client>>, moves' \in Nat,
           server' \in [Request -> Appointment], ranking' \in Ranking,
           \A a \in Request : Decided(a) => Decided(a)'
    PROVE  QueueInv'
<1>1. ServerTyped'
  BY DEF QueueInv, QueueTyped, ServerTyped
<1>2. WritesTyped' /\ ScreenTyped'
  BY DEF QueueInv, QueueTyped, WritesTyped, ScreenTyped, client
<1>3. ReadsTyped' /\ NothingHidden'
  BY SameReads DEF client
<1>4. AnswersAreTrue' /\ ToldIsTrue'
  BY StillTrue DEF QueueInv, QueueTyped, client
<1>5. QED
  BY <1>1, <1>2, <1>3, <1>4 DEF QueueInv, QueueTyped

LEMMA OneRowMoves ==
    ASSUME server \in [Request -> Appointment], NEW a \in Request, NEW row \in Appointment,
           ~ Decided(a), server' = [server EXCEPT ![a] = row]
    PROVE  /\ server' \in [Request -> Appointment]
           /\ \A b \in Request : Decided(b) => Decided(b)'
<1>1. \A b \in Request : server'[b] = IF b = a THEN row ELSE server[b]
  OBVIOUS
<1>2. QED
  BY <1>1 DEF Decided

LEMMA ArriveKeeps == ASSUME QueueInv, NEW a \in Request, Arrive(a) PROVE QueueInv'
<1>1. server \in [Request -> Appointment] /\ ranking \in Ranking /\ moves \in Nat
  BY DEF QueueInv, QueueTyped, ServerTyped
<1>2. PICK row : row = [server[a] EXCEPT !.status = "PENDING"]
  OBVIOUS
<1>3. row \in Appointment /\ ~ Decided(a)
  BY <1>1, <1>2 DEF Arrive, Appointment, Decided, Status
<1>4. server' = [server EXCEPT ![a] = row]
  BY <1>2 DEF Arrive
<1>5. server' \in [Request -> Appointment] /\ \A b \in Request : Decided(b) => Decided(b)'
  BY <1>1, <1>3, <1>4, OneRowMoves
<1>6. ranking' \in Ranking /\ moves' \in Nat /\ UNCHANGED <<tools, stored, writes, client>>
  BY <1>1 DEF Arrive, OthersMove, Meanwhile
<1>7. QED
  BY <1>5, <1>6, OthersKeep

LEMMA ElsewhereKeeps == ASSUME QueueInv, NEW a \in Request, Elsewhere(a) PROVE QueueInv'
<1>1. server \in [Request -> Appointment] /\ ranking \in Ranking /\ moves \in Nat
  BY DEF QueueInv, QueueTyped, ServerTyped
<1>2. PICK row : row = [server[a] EXCEPT !.status = "ELSEWHERE"]
  OBVIOUS
<1>3. row \in Appointment /\ ~ Decided(a)
  BY <1>1, <1>2 DEF Elsewhere, Appointment, Decided, Status
<1>4. server' = [server EXCEPT ![a] = row]
  BY <1>2 DEF Elsewhere
<1>5. server' \in [Request -> Appointment] /\ \A b \in Request : Decided(b) => Decided(b)'
  BY <1>1, <1>3, <1>4, OneRowMoves
<1>6. ranking' \in Ranking /\ moves' \in Nat /\ UNCHANGED <<tools, stored, writes, client>>
  BY <1>1 DEF Elsewhere, OthersMove, Meanwhile
<1>7. QED
  BY <1>5, <1>6, OthersKeep

LEMMA BoardMovesKeeps == ASSUME QueueInv, NEW a \in Request, BoardMoves(a) PROVE QueueInv'
<1>1. server \in [Request -> Appointment] /\ ranking \in Ranking /\ moves \in Nat
  BY DEF QueueInv, QueueTyped, ServerTyped
<1>2. PICK h \in Hash : server' = [server EXCEPT ![a].hash = h]
  BY DEF BoardMoves
<1>3. PICK row : row = [server[a] EXCEPT !.hash = h]
  OBVIOUS
<1>4. row \in Appointment /\ ~ Decided(a)
  BY <1>1, <1>2, <1>3 DEF BoardMoves, Appointment, Decided, Status
<1>5. server' = [server EXCEPT ![a] = row]
  BY <1>2, <1>3
<1>6. server' \in [Request -> Appointment] /\ \A b \in Request : Decided(b) => Decided(b)'
  BY <1>1, <1>4, <1>5, OneRowMoves
<1>7. ranking' \in Ranking /\ moves' \in Nat /\ UNCHANGED <<tools, stored, writes, client>>
  BY <1>1 DEF BoardMoves, OthersMove, Meanwhile
<1>8. QED
  BY <1>6, <1>7, OthersKeep

LEMMA UrgencyMovesKeeps == ASSUME QueueInv, UrgencyMoves PROVE QueueInv'
<1>1. server \in [Request -> Appointment] /\ moves \in Nat
  BY DEF QueueInv, QueueTyped, ServerTyped
<1>2. server' = server /\ ranking' \in Ranking
  BY DEF UrgencyMoves
<1>3. \A a \in Request : Decided(a) => Decided(a)'
  BY <1>2 DEF Decided
<1>4. QED
  BY <1>1, <1>2, <1>3, OthersKeep DEF UrgencyMoves, OthersMove, Meanwhile

\* One request under way becomes another one of the same kind and rows.
LEMMA BecomesKeeps ==
    ASSUME QueueInv, NEW w \in writes, NEW v, WriteTyped(v), Becomes(w, v), SaysSo(v),
           UNCHANGED <<server, others, stored, client>>
    PROVE  QueueInv'
<1>1. ServerTyped' /\ ScreenTyped'
  BY DEF QueueInv, QueueTyped, ServerTyped, ScreenTyped, others, client
<1>2. WritesTyped'
  BY DEF QueueInv, QueueTyped, WritesTyped, Becomes, client
<1>3. ReadsTyped' /\ NothingHidden'
  BY SameReads DEF client
<1>4. \A u \in writes' : u \in writes \/ SaysSo(u)'
  BY DEF Becomes, SaysSo, Decided
<1>5. \A a \in Request : Decided(a) => Decided(a)'
  BY DEF Decided
<1>6. AnswersAreTrue' /\ ToldIsTrue'
  BY <1>4, <1>5, StillTrue DEF QueueInv, QueueTyped, client
<1>7. QED
  BY <1>1, <1>2, <1>3, <1>6 DEF QueueInv, QueueTyped

LEMMA LoseWriteKeeps == ASSUME QueueInv, NEW w \in writes, LoseWrite(w) PROVE QueueInv'
<1>1. WriteTyped(w)
  BY DEF QueueInv, QueueTyped, WritesTyped
<1>2. PICK v : v = [w EXCEPT !.stage = "failed"]
  OBVIOUS
<1>3. v \in Write /\ v.code = w.code /\ v.ids = w.ids /\ v.kind = w.kind /\ v.stage = "failed"
  BY <1>1, <1>2 DEF WriteTyped, Write
<1>4. WriteTyped(v) /\ SaysSo(v)
  BY <1>1, <1>3 DEF WriteTyped, SaysSo
<1>5. QED
  BY <1>2, <1>4, BecomesKeeps DEF LoseWrite

LEMMA ReplayKeeps == ASSUME QueueInv, NEW w \in writes, Replay(w) PROVE QueueInv'
<1>1. WriteTyped(w) /\ WriteTyped(stored[w.key]) /\ SaysSo(stored[w.key])
      /\ stored[w.key].stage = "answered"
  BY DEF QueueInv, QueueTyped, WritesTyped, AnswersAreTrue, Replay
<1>2. PICK s : s = stored[w.key]
  OBVIOUS
<1>3. ASSUME s.kind = w.kind, s.ids = w.ids,
             Becomes(w, [w EXCEPT !.stage = "answered", !.code = s.code, !.took = TRUE])
      PROVE  QueueInv'
  <2>1. PICK v : v = [w EXCEPT !.stage = "answered", !.code = s.code, !.took = TRUE]
    OBVIOUS
  <2>2. v \in Write /\ v.code = s.code /\ v.ids = s.ids /\ v.kind = s.kind /\ v.stage = "answered"
    BY <1>1, <1>2, <1>3, <2>1 DEF WriteTyped, Write
  <2>3. WriteTyped(v) /\ SaysSo(v)
    BY <1>1, <1>2, <1>3, <2>2 DEF WriteTyped, SaysSo, Done
  <2>4. QED
    BY <1>3, <2>1, <2>3, BecomesKeeps DEF Replay
<1>4. ASSUME Becomes(w, [w EXCEPT !.stage = "failed"]) PROVE QueueInv'
  <2>1. PICK v : v = [w EXCEPT !.stage = "failed"]
    OBVIOUS
  <2>2. v \in Write /\ v.code = w.code /\ v.ids = w.ids /\ v.kind = w.kind /\ v.stage = "failed"
    BY <1>1, <2>1 DEF WriteTyped, Write
  <2>3. WriteTyped(v) /\ SaysSo(v)
    BY <1>1, <2>2 DEF WriteTyped, SaysSo
  <2>4. QED
    BY <1>4, <2>1, <2>3, BecomesKeeps DEF Replay
<1>5. QED
  BY <1>2, <1>3, <1>4 DEF Replay

\* What a request asked for, when the server does it: only rows that were
\* pending change, and those it says "done" of, of the kinds that decide, are
\* decided.
LEMMA DecideMoves ==
    ASSUME QueueInv, NEW w \in writes, WriteTyped(w), NEW code \in [w.ids -> Code],
           \A a \in w.ids : code[a] \in Verdict(w, a),
           NEW done, done = {a \in w.ids : code[a] = "done"},
           server' \in [Request -> UNION {{server[a]} \cup Effects(server[a], w.kind) : a \in Request}],
           \A a \in Request : IF a \in done THEN server'[a] \in Effects(server[a], w.kind)
                              ELSE server'[a] = server[a]
    PROVE  /\ server' \in [Request -> Appointment]
           /\ \A a \in Request : Decided(a) => Decided(a)'
           /\ w.kind \in {"confirm", "reject", "bulk"} => \A a \in done : Decided(a)'
<1>1. server \in [Request -> Appointment] /\ w.kind \in Kind /\ w.ids \subseteq Request
  BY DEF QueueInv, QueueTyped, ServerTyped, WriteTyped, Write
<1>2. ASSUME NEW row \in Appointment, NEW new \in Effects(row, w.kind)
      PROVE  /\ new \in Appointment
             /\ w.kind \in {"confirm", "bulk"} => new.status = "CONFIRMED"
             /\ w.kind = "reject" => new.status = "REJECTED"
  <2>1. row \in [status : Status, hash : Hash, held : BOOLEAN]
    BY DEF Appointment
  <2>2. CASE w.kind \in {"confirm", "bulk"}
    <3>1. new = [row EXCEPT !.status = "CONFIRMED"]
      BY <2>2 DEF Effects
    <3>2. QED
      BY <2>1, <2>2, <3>1 DEF Appointment, Status
  <2>3. CASE w.kind = "reject"
    <3>1. new = [row EXCEPT !.status = "REJECTED"]
      BY <2>3 DEF Effects
    <3>2. QED
      BY <2>1, <2>3, <3>1 DEF Appointment, Status
  <2>4. CASE w.kind = "hold"
    <3>1. new = [row EXCEPT !.held = TRUE]
      BY <2>4 DEF Effects
    <3>2. QED
      BY <2>1, <2>4, <3>1 DEF Appointment, Status
  <2>5. CASE w.kind = "counter"
    <3>1. PICK h \in Hash : new = [row EXCEPT !.hash = h]
      BY <2>5 DEF Effects
    <3>2. QED
      BY <2>1, <2>5, <3>1 DEF Appointment, Status
  <2>6. QED
    BY <1>1, <2>2, <2>3, <2>4, <2>5 DEF Kind
<1>3. \A a \in done : a \in w.ids /\ server[a].status = "PENDING"
  <2>1. ASSUME NEW a \in done, server[a].status # "PENDING" PROVE FALSE
    <3>1. code[a] \in {"ALREADY_ACTIONED"} /\ code[a] = "done"
      BY <2>1 DEF Verdict
    <3>2. QED
      BY <3>1
  <2>2. QED
    BY <2>1
<1>4. ASSUME NEW a \in Request PROVE server'[a] \in Appointment /\ (Decided(a) => Decided(a)')
  <2>1. CASE a \in done
    BY <1>1, <1>2, <1>3, <2>1 DEF Decided
  <2>2. CASE a \notin done
    BY <1>1, <2>2 DEF Decided
  <2>3. QED
    BY <2>1, <2>2
<1>5. server' \in [Request -> Appointment]
  BY <1>4
<1>6. ASSUME NEW a \in done, w.kind \in {"confirm", "reject", "bulk"} PROVE Decided(a)'
  <2>1. a \in Request /\ server'[a] \in Effects(server[a], w.kind) /\ server[a] \in Appointment
    BY <1>1, <1>3
  <2>2. server'[a].status \in {"CONFIRMED", "REJECTED"}
    BY <1>2, <1>6, <2>1
  <2>3. QED
    BY <2>2 DEF Decided
<1>7. QED
  BY <1>4, <1>5, <1>6

LEMMA DecideKeeps == ASSUME QueueInv, NEW w \in writes, Decide(w) PROVE QueueInv'
<1>1. WriteTyped(w) /\ server \in [Request -> Appointment]
  BY DEF QueueInv, QueueTyped, WritesTyped, ServerTyped
<1>2. PICK code \in [w.ids -> Code] :
        /\ \A a \in w.ids : code[a] \in Verdict(w, a)
        /\ LET v == [w EXCEPT !.stage = "answered", !.code = code]
           IN  IF Done(v) = {} /\ w.kind # "bulk"
               THEN Becomes(w, v) /\ UNCHANGED <<server, stored>>
               ELSE /\ Becomes(w, [v EXCEPT !.took = Done(v) # {}])
                    /\ server' \in
                          {s \in [Request -> UNION {{server[a]} \cup Effects(server[a], w.kind)
                                                       : a \in Request}] :
                             \A a \in Request :
                                IF a \in Done(v) THEN s[a] \in Effects(server[a], w.kind)
                                ELSE s[a] = server[a]}
                    /\ stored' = [k \in DOMAIN stored \cup {w.key} |->
                                     IF k = w.key THEN v ELSE stored[k]]
  BY DEF Decide
<1>3. PICK v : v = [w EXCEPT !.stage = "answered", !.code = code]
  OBVIOUS
<1>4. /\ v \in Write /\ v.ids = w.ids /\ v.kind = w.kind /\ v.stage = "answered" /\ v.code = code
      /\ WriteTyped(v)
  <2>1. v \in Write /\ v.ids = w.ids /\ v.kind = w.kind /\ v.stage = "answered" /\ v.code = code
    <3>1. w.ids \in SUBSET Request
      BY <1>1 DEF WriteTyped, Write
    <3>2. code \in UNION {[S -> Code] : S \in SUBSET Request}
      BY <3>1
    <3>3. QED
      BY <1>1, <1>3, <3>2 DEF WriteTyped, Write
  <2>2. QED
    BY <1>1, <2>1 DEF WriteTyped
<1>5. CASE Done(v) = {} /\ w.kind # "bulk"
  <2>1. Becomes(w, v) /\ UNCHANGED <<server, stored>>
    BY <1>2, <1>3, <1>5
  <2>2. SaysSo(v)
    BY <1>5 DEF SaysSo
  <2>3. QED
    BY <1>4, <2>1, <2>2, BecomesKeeps DEF Decide
<1>6. CASE ~ (Done(v) = {} /\ w.kind # "bulk")
  <2>1. /\ Becomes(w, [v EXCEPT !.took = Done(v) # {}])
        /\ server' \in [Request -> UNION {{server[a]} \cup Effects(server[a], w.kind) : a \in Request}]
        /\ \A a \in Request : IF a \in Done(v) THEN server'[a] \in Effects(server[a], w.kind)
                              ELSE server'[a] = server[a]
        /\ stored' = [k \in DOMAIN stored \cup {w.key} |-> IF k = w.key THEN v ELSE stored[k]]
    BY <1>2, <1>3, <1>6
  <2>2. PICK u : u = [v EXCEPT !.took = Done(v) # {}]
    OBVIOUS
  <2>3. /\ u \in Write /\ u.ids = w.ids /\ u.kind = w.kind /\ u.stage = "answered" /\ u.code = code
        /\ WriteTyped(u)
    <3>1. u \in Write /\ u.ids = w.ids /\ u.kind = w.kind /\ u.stage = "answered" /\ u.code = code
      BY <1>4, <2>2 DEF Write
    <3>2. QED
      BY <1>1, <3>1 DEF WriteTyped
  <2>4. Done(v) = {a \in w.ids : code[a] = "done"} /\ Done(u) = Done(v)
    BY <1>4, <2>3 DEF Done
  <2>5. /\ server' \in [Request -> Appointment]
        /\ \A a \in Request : Decided(a) => Decided(a)'
        /\ w.kind \in {"confirm", "reject", "bulk"} => \A a \in Done(v) : Decided(a)'
    <3>1. PICK done : done = Done(v)
      OBVIOUS
    <3>2. QED
      BY <1>1, <1>2, <2>1, <2>4, <3>1, DecideMoves
  <2>6. SaysSo(v)' /\ SaysSo(u)'
    BY <1>4, <2>3, <2>4, <2>5 DEF SaysSo
  <2>7. ServerTyped' /\ ScreenTyped'
    BY <2>5 DEF Decide, QueueInv, QueueTyped, ServerTyped, ScreenTyped, others, client
  <2>8. writes' = (writes \ {w}) \cup {u}
    BY <2>1, <2>2 DEF Becomes
  <2>9. /\ DOMAIN stored' = DOMAIN stored \cup {w.key}
        /\ \A k \in DOMAIN stored' : stored'[k] = v \/ (k \in DOMAIN stored /\ stored'[k] = stored[k])
    BY <2>1
  <2>10. WritesTyped'
    BY <1>4, <2>3, <2>8, <2>9 DEF Decide, client, QueueInv, QueueTyped, WritesTyped
  <2>11. ReadsTyped' /\ NothingHidden'
    BY SameReads DEF Decide, client
  <2>12. ASSUME NEW x, WriteTyped(x), SaysSo(x) PROVE SaysSo(x)'
    <3>1. Done(x) \subseteq Request
      BY <2>12 DEF WriteTyped, Write, Done
    <3>2. QED
      BY <2>5, <2>12, <3>1 DEF SaysSo
  <2>13. AnswersAreTrue'
    <3>1. \A k \in DOMAIN stored : WriteTyped(stored[k]) /\ SaysSo(stored[k]) /\ stored[k].stage = "answered"
      BY DEF QueueInv, QueueTyped, WritesTyped, AnswersAreTrue
    <3>2. \A x \in writes : WriteTyped(x) /\ SaysSo(x)
      BY DEF QueueInv, QueueTyped, WritesTyped, AnswersAreTrue
    <3>3. \A x \in writes' : SaysSo(x)'
      BY <2>6, <2>8, <2>12, <3>2
    <3>4. ASSUME NEW k \in DOMAIN stored', NEW x, x = stored'[k]
          PROVE  x.stage = "answered" /\ SaysSo(x)'
      <4>1. CASE x = v
        BY <1>4, <2>6, <4>1
      <4>2. CASE k \in DOMAIN stored /\ x = stored[k]
        BY <2>12, <3>1, <4>2
      <4>3. QED
        BY <2>9, <3>4, <4>1, <4>2
    <3>5. QED
      BY <3>3, <3>4 DEF AnswersAreTrue
  <2>14. ToldIsTrue'
    BY <2>5 DEF Decide, client, QueueInv, QueueTyped, ScreenTyped, ToldIsTrue, Decided
  <2>15. QED
    BY <2>7, <2>10, <2>11, <2>13, <2>14 DEF QueueInv, QueueTyped
<1>7. QED
  BY <1>5, <1>6
-----------------------------------------------------------------------------
(* The reads.                                                               *)

Poll == [timer : BOOLEAN, flight : {"none", "sent", "answered", "failed"},
         answer : Answered, hidden : BOOLEAN]
Heard(p) == p \in Poll /\ (p.flight = "answered" => p.answer \in Rows)

LEMMA NothingIsAnswered == None \in Answered /\ Rows \subseteq Answered
BY DEF Answered

LEMMA RunIsHeard ==
    ASSUME NEW p, Heard(p), NEW paused \in BOOLEAN PROVE Heard(LP!Run(p, paused))
BY DEF Heard, Poll, LP!Run

LEMMA SettledIsHeard == ASSUME NEW p, Heard(p) PROVE Heard(LP!Settled(p))
BY NothingIsAnswered DEF Heard, Poll, LP!Settled

LEMMA PollIsHeard == ASSUME QueueInv PROVE Heard(poll)
BY DEF QueueInv, QueueTyped, ReadsTyped, Heard, Poll

\* A step of the polling loop that brings nothing to the list.
LEMMA PollKeeps ==
    ASSUME QueueInv, UNCHANGED aside, moves' \in Nat, Heard(poll')
    PROVE  QueueInv'
<1>1. ReadsTyped' /\ NothingHidden'
  BY DEF QueueInv, QueueTyped, ReadsTyped, NothingHidden, aside, Heard, Poll
<1>2. QED
  BY <1>1, ReadKeeps DEF aside

LEMMA PollStepsKeep ==
    ASSUME QueueInv,
           \/ PollTick \/ PollAnswered \/ PollLost \/ PollFails \/ TabHidden \/ TabShown \/ BackOnline
    PROVE  QueueInv'
<1>1. Heard(poll) /\ moves \in Nat /\ WriteInFlight \in BOOLEAN
  BY PollIsHeard, SameScreen DEF WriteInFlight, QueueInv, QueueTyped, ScreenTyped
<1>2. CASE PollTick
  <2>1. PICK p : p = [poll EXCEPT !.timer = FALSE]
    OBVIOUS
  <2>2. Heard(p)
    BY <1>1, <2>1 DEF Heard, Poll
  <2>3. poll' = LP!Run(p, WriteInFlight) /\ UNCHANGED rest
    BY <1>2, <2>1 DEF PollTick, LP!Fire
  <2>4. Heard(poll')
    BY <1>1, <2>2, <2>3, RunIsHeard
  <2>5. QED
    BY <1>1, <2>3, <2>4, PollKeeps DEF rest, others, aside
<1>3. CASE PollAnswered
  <2>1. QueueRead \in Rows
    BY QueueReadIsRows DEF QueueInv, QueueTyped
  <2>2. poll' = [poll EXCEPT !.flight = "answered", !.answer = QueueRead] /\ UNCHANGED rest
    BY <1>3 DEF PollAnswered, LP!Answer
  <2>3. Heard(poll')
    BY <1>1, <2>1, <2>2, NothingIsAnswered DEF Heard, Poll
  <2>4. QED
    BY <1>1, <2>2, <2>3, PollKeeps DEF rest, others, aside
<1>4. CASE PollLost
  <2>1. poll' = [poll EXCEPT !.flight = "failed"] /\ UNCHANGED rest
    BY <1>4 DEF PollLost, LP!Lose
  <2>2. Heard(poll')
    BY <1>1, <2>1 DEF Heard, Poll
  <2>3. QED
    BY <1>1, <2>1, <2>2, PollKeeps DEF rest, others, aside
<1>5. CASE PollFails
  <2>1. poll' = LP!Settled(poll) /\ UNCHANGED rest
    BY <1>5 DEF PollFails, LP!Fail
  <2>2. QED
    BY <1>1, <2>1, SettledIsHeard, PollKeeps DEF rest, others, aside
<1>6. CASE TabHidden
  <2>1. poll' = [poll EXCEPT !.hidden = TRUE, !.timer = FALSE] /\ UNCHANGED aside
    BY <1>6 DEF TabHidden, LP!Hide
  <2>2. Heard(poll')
    BY <1>1, <2>1 DEF Heard, Poll
  <2>3. moves' \in Nat
    BY <1>1, <1>6 DEF TabHidden, Meanwhile
  <2>4. QED
    BY <2>1, <2>2, <2>3, PollKeeps
<1>7. CASE TabShown
  <2>1. PICK p : p = [poll EXCEPT !.hidden = FALSE]
    OBVIOUS
  <2>2. Heard(p)
    BY <1>1, <2>1 DEF Heard, Poll
  <2>3. poll' = LP!Run(p, WriteInFlight) /\ UNCHANGED rest
    BY <1>7, <2>1 DEF TabShown, LP!Show
  <2>4. Heard(poll')
    BY <1>1, <2>2, <2>3, RunIsHeard
  <2>5. QED
    BY <1>1, <2>3, <2>4, PollKeeps DEF rest, others, aside
<1>8. CASE BackOnline
  <2>1. poll' = LP!Run(poll, WriteInFlight) /\ UNCHANGED aside
    BY <1>8 DEF BackOnline, LP!Online
  <2>2. Heard(poll')
    BY <1>1, <2>1, RunIsHeard
  <2>3. moves' \in Nat
    BY <1>1, <1>8 DEF BackOnline, Meanwhile
  <2>4. QED
    BY <2>1, <2>2, <2>3, PollKeeps
<1>9. QED
  BY <1>2, <1>3, <1>4, <1>5, <1>6, <1>7, <1>8

Load == [stage : {"none", "sent", "answered"}, answer : Answered, failed : BOOLEAN]
Loads(l) == l \in Load /\ (l.stage = "answered" => l.answer \in Rows)

LEMMA ViewIsWhole == ASSUME QueueInv PROVE live \in Views /\ Whole(live) /\ Loads(load)
BY DEF QueueInv, QueueTyped, ReadsTyped, NothingHidden, Views, Whole, Loads, Load

LEMMA ReadsStayTyped ==
    ASSUME Heard(poll'), Loads(load'), live' \in Views, Whole(live')
    PROVE  ReadsTyped' /\ NothingHidden'
BY DEF ReadsTyped, NothingHidden, Views, Whole, Heard, Poll, Loads, Load

LEMMA NewLoad == ASSUME StartLoad PROVE Loads(load')
BY NothingIsAnswered DEF StartLoad, Loads, Load

LEMMA LoadStepsKeep == ASSUME QueueInv, LoadAnswer \/ LoadFails \/ LoadLands PROVE QueueInv'
<1>1. Heard(poll) /\ moves \in Nat /\ live \in Views /\ Whole(live) /\ Loads(load)
  BY PollIsHeard, SameScreen, ViewIsWhole
<1>2. CASE LoadAnswer
  <2>1. QueueRead \in Rows
    BY QueueReadIsRows DEF QueueInv, QueueTyped
  <2>2. load' = [load EXCEPT !.stage = "answered", !.answer = QueueRead] /\ UNCHANGED <<poll, live>>
    BY <1>2 DEF LoadAnswer
  <2>3. Loads(load')
    BY <1>1, <2>1, <2>2, NothingIsAnswered DEF Loads, Load
  <2>4. ReadsTyped' /\ NothingHidden'
    BY <1>1, <2>2, <2>3, ReadsStayTyped
  <2>5. QED
    BY <1>1, <1>2, <2>4, ReadKeeps DEF LoadAnswer, others
<1>3. CASE LoadFails
  <2>1. Loads(load') /\ UNCHANGED <<poll, live>>
    BY <1>3, NothingIsAnswered DEF LoadFails, Loads, Load
  <2>2. ReadsTyped' /\ NothingHidden'
    BY <1>1, <2>1, ReadsStayTyped
  <2>3. QED
    BY <1>1, <1>3, <2>2, ReadKeeps DEF LoadFails, others
<1>4. CASE LoadLands
  <2>1. load.answer \in Rows
    BY <1>1, <1>4 DEF LoadLands, Loads
  <2>2. live' \in Views /\ Whole(live')
    BY <1>4, <2>1, AdoptQueueIsWhole DEF LoadLands
  <2>3. load' = [load EXCEPT !.stage = "none", !.answer = None] /\ UNCHANGED poll
    BY <1>4 DEF LoadLands
  <2>4. Loads(load')
    BY <1>1, <2>3, NothingIsAnswered DEF Loads, Load
  <2>5. ReadsTyped' /\ NothingHidden'
    BY <1>1, <2>2, <2>3, <2>4, ReadsStayTyped
  <2>6. QED
    BY <1>1, <1>4, <2>5, ReadKeeps DEF LoadLands, others
<1>5. QED
  BY <1>2, <1>3, <1>4

LEMMA PollLandsKeeps == ASSUME QueueInv, PollLands PROVE QueueInv'
<1>1. Heard(poll) /\ moves \in Nat /\ live \in Views /\ Whole(live) /\ Loads(load)
  BY PollIsHeard, SameScreen, ViewIsWhole
<1>2. poll' = LP!Settled(poll) /\ poll.answer \in Rows
  BY <1>1 DEF PollLands, LP!Land, Heard
<1>3. Heard(poll')
  BY <1>1, <1>2, SettledIsHeard
<1>4. live' = MergeQueue(live, poll.answer, Frozen) /\ Frozen \in BOOLEAN
  BY DEF PollLands, Frozen, QueueInv, QueueTyped, ScreenTyped
<1>5. live' \in Views /\ Whole(live')
  BY <1>1, <1>2, <1>4, MergeQueueIsWhole
<1>6. load' = [load EXCEPT !.failed = FALSE]
  BY DEF PollLands
<1>7. Loads(load')
  BY <1>1, <1>6 DEF Loads, Load
<1>8. ReadsTyped' /\ NothingHidden'
  BY <1>3, <1>5, <1>7, ReadsStayTyped
<1>9. QED
  BY <1>1, <1>8, ReadKeeps DEF PollLands, others
-----------------------------------------------------------------------------
(* The planner.                                                             *)

LEMMA ReloadKeeps == ASSUME QueueInv, Reload PROVE QueueInv'
<1>1. Heard(poll) /\ moves \in Nat /\ live \in Views /\ Whole(live) /\ ui \in Screen
  BY PollIsHeard, SameScreen, ViewIsWhole
<1>2. Loads(load') /\ UNCHANGED <<poll, live>>
  BY NewLoad DEF Reload
<1>3. ReadsTyped' /\ NothingHidden'
  BY <1>1, <1>2, ReadsStayTyped
<1>4. moves' \in Nat
  BY <1>1 DEF Reload, Meanwhile
<1>5. ui' = [ui EXCEPT !.selected = {}] /\ closed' = {}
  BY DEF Reload
<1>6. ui' \in Screen /\ closed' \in SUBSET Request
  BY <1>1, <1>5 DEF Screen
<1>7. QED
  BY <1>3, <1>4, <1>6, StillKeeps DEF Reload

LEMMA ResortKeeps == ASSUME QueueInv, Resort PROVE QueueInv'
<1>1. Heard(poll) /\ moves \in Nat /\ live \in Views /\ Loads(load)
  BY PollIsHeard, SameScreen, ViewIsWhole
<1>2. live' \in Views /\ Whole(live')
  BY <1>1, AdoptQueueIsWhole DEF Resort, ApplyResort, Views
<1>3. ReadsTyped' /\ NothingHidden'
  BY <1>1, <1>2, ReadsStayTyped DEF Resort
<1>4. QED
  BY <1>1, <1>3, ReadKeeps DEF Resort, others

LEMMA StillStepsKeep ==
    ASSUME QueueInv, UNCHANGED still, ui' \in Screen
    PROVE  QueueInv'
<1>1. ReadsTyped' /\ NothingHidden'
  BY SameReads DEF still
<1>2. QED
  BY <1>1, SameScreen, StillKeeps DEF still, others

LEMMA ShownRow ==
    ASSUME QueueInv, NEW a \in Request, a \in Ids(live.rows)
    PROVE  RowOf(live.rows, a).hash \in Hash
<1>1. live.rows \in Rows
  BY ViewIsWhole DEF Views
<1>2. QED
  BY <1>1, RowOfIsRow DEF Row

LEMMA UiStepsKeep ==
    ASSUME QueueInv,
           \/ Focus \/ Blur \/ SelectAllEligible \/ ClearSelection \/ CloseDialog \/ CancelPicking
           \/ \E a \in Request : ToggleSelect(a) \/ OpenCounterOffer(a)
           \/ \E a \in Request, kind \in Kind : OpenDialog(kind, a)
    PROVE  QueueInv'
<1>1. ui \in Screen
  BY SameScreen
<1>2. CASE Focus
  BY <1>1, <1>2, StillStepsKeep DEF Focus, Screen
<1>3. CASE Blur
  BY <1>1, <1>3, StillStepsKeep DEF Blur, Screen
<1>4. CASE SelectAllEligible
  <2>1. PICK S \in SUBSET {a \in Ids(live.rows) : TRUE \in Eligible(RowOf(live.rows, a))} :
            ui' = [ui EXCEPT !.selected = S] /\ UNCHANGED still
    BY <1>4 DEF SelectAllEligible
  <2>2. Ids(live.rows) \subseteq Request
    BY ViewIsWhole, IdsOfRows DEF Views
  <2>3. S \in SUBSET Request
    BY <2>2
  <2>4. ui' \in Screen
    BY <1>1, <2>1, <2>3 DEF Screen
  <2>5. QED
    BY <2>1, <2>4, StillStepsKeep
<1>5. CASE ClearSelection
  BY <1>1, <1>5, StillStepsKeep DEF ClearSelection, Screen
<1>6. CASE CloseDialog
  BY <1>1, <1>6, StillStepsKeep DEF CloseDialog, Screen, Dialog
<1>7. CASE CancelPicking
  BY <1>1, <1>7, StillStepsKeep DEF CancelPicking, Screen, Picking
<1>8. ASSUME NEW a \in Request, ToggleSelect(a) PROVE QueueInv'
  BY <1>1, <1>8, StillStepsKeep DEF ToggleSelect, Screen
<1>9. ASSUME NEW a \in Request, OpenCounterOffer(a) PROVE QueueInv'
  <2>1. [id |-> a, hash |-> RowOf(live.rows, a).hash] \in Picking
    BY <1>9, ShownRow DEF OpenCounterOffer, Picking
  <2>2. ui' \in Screen /\ UNCHANGED still
    BY <1>1, <1>9, <2>1 DEF OpenCounterOffer, Screen
  <2>3. QED
    BY <2>2, StillStepsKeep
<1>10. ASSUME NEW a \in Request, NEW kind \in Kind, OpenDialog(kind, a) PROVE QueueInv'
  <2>1. [kind |-> kind, id |-> a] \in Dialog
    BY <1>10 DEF OpenDialog, Dialog
  <2>2. ui' \in Screen /\ UNCHANGED still
    BY <1>1, <1>10, <2>1 DEF OpenDialog, Screen
  <2>3. QED
    BY <2>2, StillStepsKeep
<1>11. QED
  BY <1>2, <1>3, <1>4, <1>5, <1>6, <1>7, <1>8, <1>9, <1>10

\* What is sent says nothing yet.
LEMMA SendKeeps ==
    ASSUME QueueInv, NEW kind \in Kind, NEW ids \in SUBSET Request, NEW hash \in Hash \cup {None},
           kind # "bulk" => \E a \in Request : ids = {a},
           Send(kind, ids, hash), ui' \in Screen
    PROVE  QueueInv'
<1> DEFINE slot == <<kind, ids>>
           key == IF slot \in DOMAIN keys THEN keys[slot] ELSE minted + 1
<1>1. /\ minted' = IF key > minted THEN key ELSE minted
      /\ keys' = [s \in DOMAIN keys \cup {slot} |-> IF s = slot THEN key ELSE keys[s]]
      /\ writes' = writes \cup {[kind |-> kind, ids |-> ids, hash |-> hash, key |-> key,
                                 stage |-> "sent", code |-> NoCode(ids), took |-> FALSE]}
      /\ UNCHANGED <<server, others, stored, poll, load, live, closed, told>>
  BY DEF Send
<1>2. key \in Nat /\ minted \in Nat /\ \A s \in DOMAIN keys : keys[s] \in Nat
  BY DEF QueueInv, QueueTyped, WritesTyped
<1>3. PICK w : w = [kind |-> kind, ids |-> ids, hash |-> hash, key |-> key,
                    stage |-> "sent", code |-> NoCode(ids), took |-> FALSE]
  OBVIOUS
<1>4. NoCode(ids) \in [ids -> Code]
  BY DEF NoCode, Code
<1>5. NoCode(ids) \in UNION {[S -> Code] : S \in SUBSET Request}
  BY <1>4
<1> HIDE DEF key
<1>6. WriteTyped(w) /\ w.stage = "sent"
  BY <1>2, <1>3, <1>4, <1>5 DEF WriteTyped, Write
<1>7. minted' \in Nat /\ \A s \in DOMAIN keys' : keys'[s] \in Nat
  BY <1>1, <1>2
<1>8. WritesTyped'
  BY <1>1, <1>3, <1>6, <1>7 DEF QueueInv, QueueTyped, WritesTyped
<1>9. ServerTyped' /\ ScreenTyped'
  BY <1>1 DEF QueueInv, QueueTyped, ServerTyped, ScreenTyped, others, Screen
<1>10. ReadsTyped' /\ NothingHidden'
  BY <1>1, SameReads
<1>11. \A u \in writes' : u \in writes \/ SaysSo(u)'
  BY <1>1, <1>3, <1>6 DEF SaysSo
<1>12. \A a \in Request : Decided(a) => Decided(a)'
  BY <1>1 DEF Decided
<1>13. AnswersAreTrue' /\ ToldIsTrue'
  BY <1>1, <1>11, <1>12, StillTrue DEF QueueInv, QueueTyped
<1>14. QED
  BY <1>8, <1>9, <1>10, <1>13 DEF QueueInv, QueueTyped

LEMMA SendStepsKeep ==
    ASSUME QueueInv, \/ SubmitDialog \/ BulkConfirm \/ SendCounterOffer
                     \/ \E a \in Request : Confirm(a)
    PROVE  QueueInv'
<1>1. ui \in Screen
  BY SameScreen
<1>2. CASE SubmitDialog
  <2>1. ui.dialog \in [kind : {"reject", "hold"}, id : Request]
    BY <1>1, <1>2 DEF SubmitDialog, Screen, Dialog
  <2>2. ui.dialog.kind \in Kind /\ ui.dialog.kind # "bulk" /\ ui.dialog.id \in Request
        /\ ui.dialog \in Press
    BY <2>1 DEF Kind, Press
  <2>3. ui' \in Screen
    BY <1>1, <1>2, <2>2 DEF SubmitDialog, Screen
  <2>4. Send(ui.dialog.kind, {ui.dialog.id}, None)
    BY <1>2 DEF SubmitDialog
  <2>5. QED
    BY <2>2, <2>3, <2>4, SendKeeps
<1>3. CASE BulkConfirm
  <2>1. ui.selected \cap Ids(live.rows) \in SUBSET Request
    BY <1>1 DEF Screen
  <2>2. ui' \in Screen
    BY <1>1, <1>3 DEF BulkConfirm, Screen
  <2>3. Send("bulk", ui.selected \cap Ids(live.rows), None)
    BY <1>3 DEF BulkConfirm
  <2>4. QED
    BY <2>1, <2>2, <2>3, SendKeeps DEF Kind
<1>4. CASE SendCounterOffer
  <2>1. ui.picking \in [id : Request, hash : Hash]
    BY <1>1, <1>4 DEF SendCounterOffer, Screen, Picking
  <2>2. Send("counter", {ui.picking.id}, ui.picking.hash) /\ ui' = ui
    BY <1>4 DEF SendCounterOffer
  <2>3. QED
    BY <1>1, <2>1, <2>2, SendKeeps DEF Kind
<1>5. ASSUME NEW a \in Request, Confirm(a) PROVE QueueInv'
  <2>1. RowOf(live.rows, a).hash \in Hash
    BY <1>5, ShownRow DEF Confirm
  <2>2. [kind |-> "confirm", id |-> a] \in Press
    BY DEF Press
  <2>3. ui' \in Screen
    BY <1>1, <1>5, <2>2 DEF Confirm, Screen
  <2>4. Send("confirm", {a}, RowOf(live.rows, a).hash)
    BY <1>5 DEF Confirm
  <2>5. QED
    BY <2>1, <2>3, <2>4, SendKeeps DEF Kind
<1>6. QED
  BY <1>2, <1>3, <1>4, <1>5
-----------------------------------------------------------------------------
(* An answer lands.                                                         *)

LEMMA LandKeeps ==
    ASSUME QueueInv, NEW w \in writes, Gone(w), Resolved(w) \/ Kept,
           UNCHANGED <<server, others, stored, poll, minted>>,
           Loads(load'), live' \in Views, Whole(live'),
           ui' \in Screen, closed' \in SUBSET Request,
           \A a \in told' : a \in told \/ (a \in Request /\ Decided(a))
    PROVE  QueueInv'
<1>1. ServerTyped'
  BY DEF QueueInv, QueueTyped, ServerTyped, others
<1>2. \A s \in DOMAIN keys' : s \in DOMAIN keys /\ keys'[s] = keys[s]
  BY DEF Resolved, Kept
<1>3. WritesTyped'
  BY <1>2 DEF QueueInv, QueueTyped, WritesTyped, Gone
<1>4. ReadsTyped' /\ NothingHidden'
  BY PollIsHeard, ReadsStayTyped
<1>5. ScreenTyped'
  BY DEF QueueInv, QueueTyped, ScreenTyped, Screen
<1>6. \A a \in Request : Decided(a) => Decided(a)'
  BY DEF Decided
<1>7. \A u \in writes' : u \in writes
  BY DEF Gone
<1>8. AnswersAreTrue' /\ ToldIsTrue'
  BY <1>6, <1>7, StillTrue DEF QueueInv, QueueTyped
<1>9. QED
  BY <1>1, <1>3, <1>4, <1>5, <1>8 DEF QueueInv, QueueTyped

LEMMA SettledIsScreen ==
    ASSUME ui \in Screen
    PROVE  /\ Settled \in Screen
           /\ \A kind : Closing(kind, Settled) \in Screen
           /\ [ui EXCEPT !.batchBusy = FALSE] \in Screen
BY DEF Settled, Closing, Screen, Press, Dialog

LEMMA LeaveFocusIsScreen ==
    ASSUME NEW u \in Screen, NEW gone, NEW v \in LeaveFocus(u, gone)
    PROVE  v \in Screen
BY DEF LeaveFocus, Screen

\* Of a request about one row the code speaks of that row.
LEMMA OneRow ==
    ASSUME NEW w, WriteTyped(w), w.kind # "bulk", NEW a, a = CHOOSE x \in w.ids : TRUE
    PROVE  /\ a \in Request /\ w.ids = {a} /\ w.code[a] \in Code
           /\ w.code[a] = "done" => Done(w) = {a}
<1>1. PICK b \in Request : w.ids = {b}
  BY DEF WriteTyped
<1>2. a = b
  BY <1>1
<1>3. w.code \in [w.ids -> Code]
  BY DEF WriteTyped
<1>4. QED
  BY <1>1, <1>2, <1>3 DEF Done

\* What a removal makes of the list, and of what was told.
LEMMA DoneRowsLeave ==
    ASSUME QueueInv, NEW w \in writes, w.stage = "answered", w.kind \in {"confirm", "reject", "bulk"},
           live' = RemoveRows(live, Done(w)), told' = told \cup Done(w)
    PROVE  /\ live' \in Views /\ Whole(live')
           /\ \A a \in told' : a \in told \/ (a \in Request /\ Decided(a))
<1>1. WriteTyped(w) /\ SaysSo(w)
  BY DEF QueueInv, QueueTyped, WritesTyped, AnswersAreTrue
<1>2. Done(w) \in SUBSET Request
  BY <1>1 DEF WriteTyped, Write, Done
<1>3. live' \in Views /\ Whole(live')
  BY <1>2, ViewIsWhole, RemoveRowsIsWhole
<1>4. QED
  BY <1>1, <1>2, <1>3 DEF SaysSo

LEMMA ConfirmLandsKeeps == ASSUME QueueInv, NEW w \in writes, ConfirmLands(w) PROVE QueueInv'
<1>1. WriteTyped(w) /\ w.kind = "confirm" /\ Loads(load) /\ live \in Views /\ Whole(live)
      /\ ui \in Screen /\ closed \in SUBSET Request /\ Settled \in Screen
  BY ViewIsWhole, SameScreen, SettledIsScreen
     DEF QueueInv, QueueTyped, WritesTyped, ConfirmLands
<1>2. PICK a : a = CHOOSE x \in w.ids : TRUE
  OBVIOUS
<1>3. a \in Request /\ (w.code[a] = "done" => Done(w) = {a})
  BY <1>1, <1>2, OneRow
<1>4. /\ Gone(w) /\ UNCHANGED <<server, others, stored, poll, load, minted>>
      /\ IF w.stage = "failed"
         THEN Kept /\ ui' = Settled /\ UNCHANGED <<live, closed, told>>
         ELSE /\ Resolved(w)
              /\ IF w.code[a] = "done"
                 THEN /\ live' = RemoveRows(live, {a}) /\ told' = told \cup {a}
                      /\ ui' \in LeaveFocus(Settled, {a}) /\ UNCHANGED closed
                 ELSE /\ ui' = Settled /\ UNCHANGED <<live, told>>
                      /\ closed' = IF w.code[a] = "ALREADY_ACTIONED" THEN closed \cup {a}
                                   ELSE closed \ {a}
  BY <1>2 DEF ConfirmLands
<1>5. CASE w.stage = "failed"
  BY <1>1, <1>4, <1>5, LandKeeps
<1>6. CASE w.stage # "failed" /\ w.code[a] = "done"
  <2>1. live' = RemoveRows(live, Done(w)) /\ told' = told \cup Done(w)
    BY <1>3, <1>4, <1>6
  <2>2. w.stage = "answered"
    BY <1>1, <1>6 DEF ConfirmLands, WriteTyped, Write
  <2>3. live' \in Views /\ Whole(live') /\ \A b \in told' : b \in told \/ (b \in Request /\ Decided(b))
    BY <1>1, <2>1, <2>2, DoneRowsLeave
  <2>4. ui' \in Screen
    BY <1>1, <1>4, <1>6, LeaveFocusIsScreen
  <2>5. QED
    BY <1>1, <1>4, <1>6, <2>3, <2>4, LandKeeps
<1>7. CASE w.stage # "failed" /\ w.code[a] # "done"
  <2>1. closed' \in SUBSET Request
    BY <1>1, <1>3, <1>4, <1>7
  <2>2. QED
    BY <1>1, <1>4, <1>7, <2>1, LandKeeps
<1>8. QED
  BY <1>5, <1>6, <1>7

LEMMA RejectLandsKeeps == ASSUME QueueInv, NEW w \in writes, RejectLands(w) PROVE QueueInv'
<1>1. WriteTyped(w) /\ w.kind = "reject" /\ Loads(load) /\ live \in Views /\ Whole(live)
      /\ ui \in Screen /\ closed \in SUBSET Request /\ Settled \in Screen
      /\ Closing("reject", Settled) \in Screen
  BY ViewIsWhole, SameScreen, SettledIsScreen
     DEF QueueInv, QueueTyped, WritesTyped, RejectLands
<1>2. PICK a : a = CHOOSE x \in w.ids : TRUE
  OBVIOUS
<1>3. a \in Request /\ (w.code[a] = "done" => Done(w) = {a})
  BY <1>1, <1>2, OneRow
<1>4. /\ Gone(w) /\ UNCHANGED <<server, others, stored, poll, load, minted>>
      /\ IF w.stage = "failed"
         THEN Kept /\ ui' = Settled /\ UNCHANGED <<live, closed, told>>
         ELSE /\ Resolved(w)
              /\ IF w.code[a] = "done"
                 THEN /\ live' = RemoveRows(live, {a}) /\ told' = told \cup {a}
                      /\ ui' \in LeaveFocus(Closing("reject", Settled), {a}) /\ UNCHANGED closed
                 ELSE /\ ui' = Closing("reject", Settled)
                      /\ closed' = closed \cup {a} /\ UNCHANGED <<live, told>>
  BY <1>2 DEF RejectLands
<1>5. CASE w.stage = "failed"
  BY <1>1, <1>4, <1>5, LandKeeps
<1>6. CASE w.stage # "failed" /\ w.code[a] = "done"
  <2>1. live' = RemoveRows(live, Done(w)) /\ told' = told \cup Done(w)
    BY <1>3, <1>4, <1>6
  <2>2. w.stage = "answered"
    BY <1>1, <1>6 DEF RejectLands, WriteTyped, Write
  <2>3. live' \in Views /\ Whole(live') /\ \A b \in told' : b \in told \/ (b \in Request /\ Decided(b))
    BY <1>1, <2>1, <2>2, DoneRowsLeave
  <2>4. ui' \in Screen
    BY <1>1, <1>4, <1>6, LeaveFocusIsScreen
  <2>5. QED
    BY <1>1, <1>4, <1>6, <2>3, <2>4, LandKeeps
<1>7. CASE w.stage # "failed" /\ w.code[a] # "done"
  <2>1. closed' \in SUBSET Request
    BY <1>1, <1>3, <1>4, <1>7
  <2>2. QED
    BY <1>1, <1>4, <1>7, <2>1, LandKeeps
<1>8. QED
  BY <1>5, <1>6, <1>7

LEMMA HoldLandsKeeps == ASSUME QueueInv, NEW w \in writes, HoldLands(w) PROVE QueueInv'
<1>1. Loads(load) /\ live \in Views /\ Whole(live) /\ ui \in Screen /\ closed \in SUBSET Request
      /\ Settled \in Screen /\ Closing("hold", Settled) \in Screen
  BY ViewIsWhole, SameScreen, SettledIsScreen
<1>2. Gone(w) /\ UNCHANGED <<server, others, stored, poll, live, minted, told>>
  BY DEF HoldLands
<1>3. CASE w.stage = "failed"
  BY <1>1, <1>2, <1>3, LandKeeps DEF HoldLands
<1>4. CASE w.stage # "failed"
  <2>1. Resolved(w) /\ ui' = [Closing("hold", Settled) EXCEPT !.selected = {}] /\ closed' = {}
        /\ StartLoad
    BY <1>4 DEF HoldLands
  <2>2. ui' \in Screen
    BY <1>1, <2>1 DEF Screen
  <2>3. Loads(load')
    BY <2>1, NewLoad
  <2>4. QED
    BY <1>1, <1>2, <2>1, <2>2, <2>3, LandKeeps
<1>5. QED
  BY <1>3, <1>4

LEMMA BulkLandsKeeps == ASSUME QueueInv, NEW w \in writes, BulkLands(w) PROVE QueueInv'
<1> DEFINE quiet == [ui EXCEPT !.batchBusy = FALSE]
<1>1. WriteTyped(w) /\ w.kind = "bulk" /\ Loads(load) /\ live \in Views /\ Whole(live)
      /\ ui \in Screen /\ closed \in SUBSET Request /\ quiet \in Screen
  BY ViewIsWhole, SameScreen, SettledIsScreen
     DEF QueueInv, QueueTyped, WritesTyped, BulkLands
<1>2. Gone(w) /\ Resolved(w) /\ UNCHANGED <<server, others, stored, poll, load, minted>>
  BY DEF BulkLands
<1>3. CASE w.stage = "failed"
  BY <1>1, <1>2, <1>3, LandKeeps DEF BulkLands
<1>4. CASE w.stage # "failed"
  <2>1. /\ live' = RemoveRows(live, Done(w)) /\ told' = told \cup Done(w)
        /\ closed' = closed \cup {a \in w.ids : w.code[a] = "ALREADY_ACTIONED"}
        /\ ui' \in LeaveFocus([quiet EXCEPT !.selected = {}], Done(w))
    BY <1>4 DEF BulkLands, BulkConfirmed
  <2>2. w.stage = "answered" /\ w.ids \subseteq Request
    BY <1>1, <1>4 DEF BulkLands, WriteTyped, Write
  <2>3. live' \in Views /\ Whole(live') /\ \A b \in told' : b \in told \/ (b \in Request /\ Decided(b))
    BY <1>1, <2>1, <2>2, DoneRowsLeave
  <2>4. [quiet EXCEPT !.selected = {}] \in Screen
    BY <1>1 DEF Screen
  <2>5. ui' \in Screen
    BY <2>1, <2>4, LeaveFocusIsScreen
  <2>6. closed' \in SUBSET Request
    BY <1>1, <2>1, <2>2
  <2>7. QED
    BY <1>1, <1>2, <2>3, <2>5, <2>6, LandKeeps
<1>5. QED
  BY <1>3, <1>4

LEMMA CounterOfferLandsKeeps == ASSUME QueueInv, NEW w \in writes, CounterOfferLands(w) PROVE QueueInv'
<1>1. Loads(load) /\ live \in Views /\ Whole(live) /\ ui \in Screen /\ closed \in SUBSET Request
  BY ViewIsWhole, SameScreen
<1>2. Gone(w) /\ Resolved(w) /\ UNCHANGED <<server, others, stored, poll, live, closed, minted, told>>
  BY DEF CounterOfferLands
<1>3. UNCHANGED <<ui, load>> \/ (StartLoad /\ ui' = [ui EXCEPT !.picking = None])
  BY DEF CounterOfferLands
<1>4. ui' \in Screen /\ Loads(load')
  BY <1>1, <1>3, NewLoad DEF Screen, Picking
<1>5. QED
  BY <1>1, <1>2, <1>4, LandKeeps
-----------------------------------------------------------------------------
LEMMA QueueStep == ASSUME QueueInv, [Next]_vars PROVE QueueInv'
<1>1. CASE ServerStep
  BY <1>1, ArriveKeeps, ElsewhereKeeps, BoardMovesKeeps, UrgencyMovesKeeps, DecideKeeps,
     ReplayKeeps, LoseWriteKeeps DEF ServerStep, WriteEnds
<1>2. CASE ReadStep
  BY <1>2, LoadStepsKeep, PollStepsKeep, PollLandsKeeps DEF ReadStep
<1>3. CASE PlannerStep
  BY <1>3, ReloadKeeps, ResortKeeps, UiStepsKeep, SendStepsKeep DEF PlannerStep
<1>4. CASE AnswerLands
  BY <1>4, ConfirmLandsKeeps, RejectLandsKeeps, HoldLandsKeeps, BulkLandsKeeps,
     CounterOfferLandsKeeps DEF AnswerLands
<1>5. CASE UNCHANGED vars
  BY <1>5, StutterKeeps
<1>6. QED
  BY <1>1, <1>2, <1>3, <1>4, <1>5 DEF Next

LEMMA QueueAlways == Spec => []QueueInv
BY QueueStarts, QueueStep, PTL DEF Spec
-----------------------------------------------------------------------------
(* Steps and what they may do.                                              *)

LEMMA BrowserLeavesServer == ASSUME ReadStep \/ PlannerStep \/ AnswerLands PROVE server' = server
<1>1. CASE ReadStep
  BY <1>1 DEF ReadStep, LoadAnswer, LoadFails, LoadLands, PollTick, PollAnswered, PollLost, PollFails,
              PollLands, TabHidden, TabShown, BackOnline, rest, aside
<1>2. CASE PlannerStep
  BY <1>2 DEF PlannerStep, Reload, Focus, Blur, SelectAllEligible, ClearSelection, Resort,
              ToggleSelect, Confirm, OpenCounterOffer, OpenDialog, CloseDialog, SubmitDialog,
              BulkConfirm, CancelPicking, SendCounterOffer, Send, still
<1>3. CASE AnswerLands
  BY <1>3 DEF AnswerLands, ConfirmLands, RejectLands, HoldLands, BulkLands, CounterOfferLands
<1>4. QED
  BY <1>1, <1>2, <1>3

LEMMA OnlyADecisionConfirms ==
    ASSUME QueueInv, [Next]_vars, NEW a \in Request,
           server[a].status = "PENDING", server'[a].status = "CONFIRMED"
    PROVE  \E w \in writes : Decide(w)
<1>1. server \in [Request -> Appointment]
  BY DEF QueueInv, QueueTyped, ServerTyped
<1>2. CASE \E b \in Request : Arrive(b) \/ Elsewhere(b) \/ BoardMoves(b)
  <2>1. PICK b \in Request : Arrive(b) \/ Elsewhere(b) \/ BoardMoves(b)
    BY <1>2
  <2>2. server'[a].status \in {server[a].status, "PENDING", "ELSEWHERE"}
    BY <1>1, <2>1 DEF Arrive, Elsewhere, BoardMoves, Appointment
  <2>3. QED
    BY <2>2
<1>3. CASE UrgencyMoves
  BY <1>3 DEF UrgencyMoves
<1>4. CASE WriteEnds
  BY <1>4 DEF WriteEnds, Replay, LoseWrite
<1>5. CASE ReadStep \/ PlannerStep \/ AnswerLands
  BY <1>5, BrowserLeavesServer
<1>6. CASE UNCHANGED vars
  BY <1>6 DEF vars
<1>7. QED
  BY <1>2, <1>3, <1>4, <1>5, <1>6 DEF Next, ServerStep

LEMMA ConfirmStep ==
    ASSUME QueueInv, [Next]_vars, NEW a \in Request,
           server[a].status = "PENDING", server'[a].status = "CONFIRMED"
    PROVE  /\ server[a].hash \notin Clashing
           /\ \E w \in writes : /\ w.stage = "sent" /\ a \in w.ids
                                 /\ (w.kind = "bulk" \/ w.hash = server[a].hash)
<1>1. PICK w \in writes : Decide(w)
  BY OnlyADecisionConfirms
<1>2. WriteTyped(w) /\ server \in [Request -> Appointment] /\ w.kind \in Kind
  BY DEF QueueInv, QueueTyped, WritesTyped, ServerTyped, WriteTyped, Write
<1>3. PICK code \in [w.ids -> Code] :
        /\ \A b \in w.ids : code[b] \in Verdict(w, b)
        /\ LET v == [w EXCEPT !.stage = "answered", !.code = code]
           IN  IF Done(v) = {} /\ w.kind # "bulk"
               THEN Becomes(w, v) /\ UNCHANGED <<server, stored>>
               ELSE /\ Becomes(w, [v EXCEPT !.took = Done(v) # {}])
                    /\ server' \in
                          {s \in [Request -> UNION {{server[b]} \cup Effects(server[b], w.kind)
                                                       : b \in Request}] :
                             \A b \in Request :
                                IF b \in Done(v) THEN s[b] \in Effects(server[b], w.kind)
                                ELSE s[b] = server[b]}
                    /\ stored' = [k \in DOMAIN stored \cup {w.key} |->
                                     IF k = w.key THEN v ELSE stored[k]]
  BY <1>1 DEF Decide
<1>4. PICK v : v = [w EXCEPT !.stage = "answered", !.code = code]
  OBVIOUS
<1>5. v.ids = w.ids /\ v.code = code
  BY <1>2, <1>4 DEF WriteTyped, Write
<1>6. Done(v) = {b \in w.ids : code[b] = "done"}
  BY <1>5 DEF Done
<1>7. a \in Done(v) /\ server'[a] \in Effects(server[a], w.kind)
  BY <1>3, <1>4
<1>8. a \in w.ids /\ code[a] = "done" /\ "done" \in Verdict(w, a)
  BY <1>3, <1>6, <1>7
<1>9. CASE w.kind \in {"hold", "counter", "reject"}
  <2>1. server[a] \in [status : Status, hash : Hash, held : BOOLEAN]
    BY <1>2 DEF Appointment
  <2>2. server'[a].status \in {server[a].status, "REJECTED"}
    <3>1. CASE w.kind = "reject"
      BY <1>7, <2>1, <3>1 DEF Effects
    <3>2. CASE w.kind = "hold"
      BY <1>7, <2>1, <3>2 DEF Effects
    <3>3. CASE w.kind = "counter"
      BY <1>7, <2>1, <3>3 DEF Effects
    <3>4. QED
      BY <1>9, <3>1, <3>2, <3>3
  <2>3. QED
    BY <2>2
<1>10. CASE w.kind = "bulk"
  <2>1. server[a].hash \notin Clashing
    BY <1>8, <1>10 DEF Verdict
  <2>2. QED
    BY <1>1, <1>8, <1>10, <2>1 DEF Decide
<1>11. CASE w.kind = "confirm"
  <2>1. server[a].hash \notin Clashing /\ server[a].hash = w.hash
    BY <1>8, <1>11 DEF Verdict
  <2>2. QED
    BY <1>1, <1>8, <2>1 DEF Decide
<1>12. QED
  BY <1>2, <1>9, <1>10, <1>11 DEF Kind

\* How the list changes: by an answer to an explicit read, a polled one, a
\* re-sort, or the rows an answer says were decided.
Removal(w) ==
    /\ w \notin writes' /\ w.stage = "answered" /\ Done(w) \subseteq Request
    /\ live' = RemoveRows(live, Done(w))

LEMMA LandedIsRemoval ==
    ASSUME QueueInv, NEW w \in writes, live' # live,
           ConfirmLands(w) \/ RejectLands(w) \/ HoldLands(w) \/ BulkLands(w) \/ CounterOfferLands(w)
    PROVE  Removal(w)
<1>1. WriteTyped(w) /\ Done(w) \subseteq Request
  BY DEF QueueInv, QueueTyped, WritesTyped, WriteTyped, Write, Done
<1>2. w \notin writes'
  BY DEF ConfirmLands, RejectLands, HoldLands, BulkLands, CounterOfferLands, Gone
<1>3. CASE HoldLands(w) \/ CounterOfferLands(w)
  BY <1>3 DEF HoldLands, CounterOfferLands
<1>4. CASE ConfirmLands(w) \/ RejectLands(w)
  <2>1. PICK a : a = CHOOSE x \in w.ids : TRUE
    OBVIOUS
  <2>2. w.kind # "bulk" /\ w.stage # "sent"
    BY <1>4 DEF ConfirmLands, RejectLands
  <2>3. w.stage # "failed" /\ w.code[a] = "done" /\ live' = RemoveRows(live, {a})
    BY <1>4, <2>1 DEF ConfirmLands, RejectLands
  <2>4. Done(w) = {a}
    BY <1>1, <2>1, <2>2, <2>3, OneRow
  <2>5. w.stage = "answered"
    BY <1>1, <2>2, <2>3 DEF WriteTyped, Write
  <2>6. QED
    BY <1>1, <1>2, <2>3, <2>4, <2>5 DEF Removal
<1>5. CASE BulkLands(w)
  <2>1. w.stage # "failed" /\ w.stage # "sent" /\ live' = RemoveRows(live, Done(w))
    BY <1>5 DEF BulkLands, BulkConfirmed
  <2>2. w.stage = "answered"
    BY <1>1, <2>1 DEF WriteTyped, Write
  <2>3. QED
    BY <1>1, <1>2, <2>1, <2>2 DEF Removal
<1>6. QED
  BY <1>3, <1>4, <1>5

LEMMA HowTheListChanges ==
    ASSUME QueueInv, [Next]_vars, live' # live
    PROVE  \/ LoadLands \/ PollLands \/ Resort
           \/ \E w \in writes : Removal(w)
<1>1. CASE ServerStep
  BY <1>1 DEF ServerStep, WriteEnds, Arrive, Elsewhere, BoardMoves, UrgencyMoves, Decide, Replay,
              LoseWrite, OthersMove, client
<1>2. CASE ReadStep
  BY <1>2 DEF ReadStep, LoadAnswer, LoadFails, PollTick, PollAnswered, PollLost, PollFails,
              TabHidden, TabShown, BackOnline, rest, aside
<1>3. CASE PlannerStep
  BY <1>3 DEF PlannerStep, Reload, Focus, Blur, SelectAllEligible, ClearSelection,
              ToggleSelect, Confirm, OpenCounterOffer, OpenDialog, CloseDialog, SubmitDialog,
              BulkConfirm, CancelPicking, SendCounterOffer, Send, still
<1>4. CASE AnswerLands
  BY <1>4, LandedIsRemoval DEF AnswerLands
<1>5. CASE UNCHANGED vars
  BY <1>5 DEF vars
<1>6. QED
  BY <1>1, <1>2, <1>3, <1>4, <1>5 DEF Next

LEMMA ReturnStep ==
    ASSUME QueueInv, [Next]_vars, NEW a, a \notin Ids(live.rows), a \in Ids(live'.rows)
    PROVE  \/ a \in Ids(live.staged)
           \/ (poll.flight = "answered" /\ a \in Ids(poll.answer))
           \/ (load.stage = "answered" /\ a \in Ids(load.answer))
<1>1. live \in Views /\ Whole(live) /\ live' # live
  BY ViewIsWhole
<1>2. CASE LoadLands
  <2>1. load.stage = "answered" /\ live' = AdoptQueue(load.answer)
    BY <1>2 DEF LoadLands
  <2>2. live'.rows = load.answer
    BY <2>1 DEF AdoptQueue
  <2>3. QED
    BY <2>1, <2>2
<1>3. CASE PollLands
  <2>1. live' = MergeQueue(live, poll.answer, Frozen) /\ poll.flight = "answered" /\ Frozen \in BOOLEAN
        /\ poll.answer \in Rows
    BY <1>3, PollIsHeard DEF PollLands, LP!Land, Heard, Frozen, QueueInv, QueueTyped, ScreenTyped
  <2>2. ~ Frozen
    BY <1>1, <2>1, MergeQueueIsWhole
  <2>3. live' = AdoptQueue(poll.answer)
    BY <2>1, <2>2 DEF MergeQueue
  <2>4. live'.rows = poll.answer
    BY <2>3 DEF AdoptQueue
  <2>5. QED
    BY <2>1, <2>4
<1>4. CASE Resort
  <2>1. live'.rows = live.latest
    BY <1>4 DEF Resort, ApplyResort, AdoptQueue
  <2>2. QED
    BY <1>1, <2>1 DEF Whole
<1>5. ASSUME NEW w \in writes, Removal(w) PROVE FALSE
  BY <1>1, <1>5, RemoveRowsIsWhole DEF Removal
<1>6. QED
  BY <1>1, <1>2, <1>3, <1>4, <1>5, HowTheListChanges

LEMMA PlacesStep ==
    ASSUME QueueInv, [Next]_vars, Order(live.rows) # Order(live'.rows),
           ui.within \/ ui.selected # {} \/ ui.dialog # NoDialog
    PROVE  \/ live' = ApplyResort(live)
           \/ (load.stage = "answered" /\ live' = AdoptQueue(load.answer))
           \/ \E w \in writes \ writes' : w.stage = "answered"
                                          /\ live'.rows = Only(live.rows, Request \ Done(w))
<1>1. live \in Views /\ Whole(live) /\ live' # live
  BY ViewIsWhole
<1>2. CASE LoadLands
  BY <1>2 DEF LoadLands
<1>3. CASE PollLands
  <2>1. live' = MergeQueue(live, poll.answer, TRUE) /\ poll.answer \in Rows
    <3>1. Frozen = TRUE
      BY DEF Frozen, QueueInv, QueueTyped, ScreenTyped
    <3>2. QED
      BY <1>3, <3>1, PollIsHeard DEF PollLands, LP!Land, Heard
  <2>2. Order(live'.rows) = Order(live.rows)
    BY <1>1, <2>1, MergeQueueIsWhole
  <2>3. QED
    BY <2>2
<1>4. CASE Resort
  BY <1>4 DEF Resort
<1>5. ASSUME NEW w \in writes, Removal(w)
      PROVE  w \in writes \ writes' /\ w.stage = "answered"
             /\ live'.rows = Only(live.rows, Request \ Done(w))
  BY <1>1, <1>5, RemoveRowsIsWhole DEF Removal
<1>6. QED
  BY <1>1, <1>2, <1>3, <1>4, <1>5, HowTheListChanges
-----------------------------------------------------------------------------
\* The types, for the requests, the reads and writes under way and the screen.
THEOREM QueueIsTyped == Spec => []QueueTyped
BY QueueAlways, PTL DEF QueueInv

\* Every row the planner was told he decided is decided on the server, and
\* stays so, whatever was lost, answered again or moved meanwhile.
THEOREM ToldIsTrueAlways == Spec => []ToldIsTrue
BY QueueAlways, PTL DEF QueueInv

\* A row is confirmed only as the planner saw it when he pressed: with the
\* hash of his screen, and never over a conflict.
THEOREM ConfirmedAsShownAlways == Spec => ConfirmedAsShown
<1>1. QueueInv /\ [Next]_vars
      => [\A a \in Request :
             (server[a].status = "PENDING" /\ server'[a].status = "CONFIRMED")
             => /\ server[a].hash \notin Clashing
                /\ \E w \in writes : /\ w.stage = "sent" /\ a \in w.ids
                                      /\ (w.kind = "bulk" \/ w.hash = server[a].hash)]_vars
  BY ConfirmStep
<1>2. QED
  BY <1>1, QueueAlways, PTL DEF Spec, ConfirmedAsShown

\* A row that has left his list comes back only with a read the server answered
\* earlier, one that is staged or lands now.
THEOREM ReturnsOnlyByALateRead == Spec => DecidedRowReturnsOnlyByALateRead
<1>1. QueueInv /\ [Next]_vars
      => [\A a \in told : (a \notin Ids(live.rows) /\ a \in Ids(live'.rows))
             => \/ a \in Ids(live.staged)
                \/ (poll.flight = "answered" /\ a \in Ids(poll.answer))
                \/ (load.stage = "answered" /\ a \in Ids(load.answer))]_vars
  BY ReturnStep
<1>2. QED
  BY <1>1, QueueAlways, PTL DEF Spec, DecidedRowReturnsOnlyByALateRead

\* While he has the focus on a row, a selection or a dialog, rows keep their
\* places but for what he asks for and what he decided.
THEOREM RowsStayPutAlways == Spec => RowsStayPut
<1>1. QueueInv /\ [Next]_vars
      => [(/\ Order(live.rows) # Order(live'.rows)
           /\ ui.within \/ ui.selected # {} \/ ui.dialog # NoDialog)
          => \/ live' = ApplyResort(live)
             \/ (load.stage = "answered" /\ live' = AdoptQueue(load.answer))
             \/ \E w \in writes \ writes' : w.stage = "answered"
                                            /\ live'.rows = Only(live.rows, Request \ Done(w))]_vars
  BY PlacesStep
<1>2. QED
  BY <1>1, QueueAlways, PTL DEF Spec, RowsStayPut
=============================================================================
