----------------------------- MODULE DriverChat -----------------------------
(***************************************************************************)
(* The driver's conversation (features/driver) about one shipment, and the *)
(* assistant's turns behind it.  A message opens a stream; the server      *)
(* prepares the turn, runs a tool, remembers the turn and answers `done'.  *)
(* The composer is never disabled, so turns overlap; a stream may break at *)
(* any step, the phone may lose its connection, and the driver may leave   *)
(* the conversation and come back.                                         *)
(*                                                                         *)
(* What the model decides to call is taken from what the driver asked for. *)
(***************************************************************************)
EXTENDS Naturals, Integers, Sequences, FiniteSets

CONSTANTS
    Slot,           \* the slots the assistant may offer
    None,
    MaxMessages,    \* bound: messages the driver writes
    MaxTroubles,    \* bound: retries, page changes and changes of the connection
    MaxNow,         \* bound: the clock
    Ttl,            \* a hold's life, in instants
    Skew            \* how fast the phone's clock may be

Message == 1 .. MaxMessages              \* client_message_id, in the order written
Ask == {"find", "confirm"} \cup Slot     \* a slot stands for "Request it"
Call == Message \X (0 .. MaxTroubles)     \* a message and which attempt it is

DriverAssumption ==
    /\ {MaxMessages, MaxTroubles, MaxNow, Ttl} \subseteq Nat
    /\ Skew \subseteq Nat
    /\ None \notin Nat \cup Call

VARIABLES
    page,           \* "loading" (the list, its context asked for), "list" or "chat"
    context,        \* the answer to that read, None until it is read
    online,         \* navigator.onLine
    live,           \* onlineAtom and the countdown clock's live
    ticked,         \* the countdown clock's now: the last tick
    offset,         \* its offsetMs: what it adds to a reading
    skew,           \* how fast this phone's own clock is
    messages,       \* messagesByThreadAtom: the driver's own messages
    card,           \* the state of each option in the last set that carries it
    hold,           \* holdsByThreadAtom
    thread,         \* threadsAtom: the promise of the shipment's row
    replies,        \* quickRepliesAtom: what they offer
    turn,           \* turnAtom
    abort,          \* the call whose controller the ref has
    calls,          \* streams: what the page and the server know of each
    granted,        \* server: the holds, in the order they were granted
    remembered,     \* server: client_message_ids in the thread's history
    now,
    troubles,
    told            \* history: the holds the driver was told have lapsed

place == <<page, context>>
phone == <<online, live, ticked, offset, skew>>
talk == <<messages, card, hold, thread, replies>>
streams == <<turn, abort, calls>>
history == <<troubles, told>>
server == <<granted, remembered, now>>
vars == <<place, phone, talk, streams, history, server>>

NoCall == [client |-> "none", mine |-> FALSE, server |-> "none", answer |-> None]
Say(ask, delivery) == [ask |-> ask, delivery |-> delivery]

\* A row's promise, and the hold whose deadline its chip counts down to.
Row(promise, h) == [promise |-> promise, hold |-> h]

Init ==
    /\ page = "loading" /\ context = None
    /\ online = TRUE /\ live = TRUE
    /\ ticked = 0 /\ offset = 0
    /\ skew \in Skew
    /\ messages = << >>
    /\ card = [s \in Slot |-> "none"]
    /\ hold = None /\ thread = Row("NONE", None) /\ replies = "none"
    /\ turn = FALSE /\ abort = None
    /\ calls = [c \in Call |-> NoCall]
    /\ granted = << >> /\ remembered = {} /\ now = 0
    /\ troubles = 0 /\ told = {}
-----------------------------------------------------------------------------
(* The shared countdown clock.                                              *)

Reading == ticked + skew + offset        \* serverNow
Expired(h) == granted[h].expires <= Reading

\* setServerTime: the offset that takes this phone's clock to a server's.
SetServerTime(asOf) == asOf - (now + skew)

\* Time passes; the tick, each second, only while the connection is there.
Advance ==
    /\ now < MaxNow
    /\ now' = now + 1
    /\ ticked' = IF live THEN now' ELSE ticked
    /\ UNCHANGED <<place, online, live, offset, skew, talk, streams, history, granted, remembered>>

\* setOptionState: the card of the slot in the last set that carries it.
SetOptionState(s, state) == IF card[s] = "none" THEN card ELSE [card EXCEPT ![s] = state]

\* HoldLapseWatch: with the hold on the screen and its countdown run out.
HoldLapses(h) == page = "chat" /\ h # None /\ live /\ Expired(h)

\* lapseHold: the card, the notice, the replies, and the hold dropped.
LapseHold(h) ==
    /\ HoldLapses(h)
    /\ hold' = None
    /\ card' = SetOptionState(granted[h].slot, "lapsed")
    /\ replies' = "again"
    /\ told' = told \cup {h}
    /\ UNCHANGED <<place, phone, messages, thread, streams, troubles, server>>
-----------------------------------------------------------------------------
(* Sending.                                                                 *)

\* send(): the stream of attempt k at message m is opened.
Open(m, k) ==
    /\ calls' = [calls EXCEPT ![<<m, k>>] = [client |-> "open", mine |-> TRUE,
                                             server |-> "asked", answer |-> None]]
    /\ abort' = <<m, k>>
    /\ turn' = TRUE
    /\ replies' = "none"

\* OptionCard: only a card in its first state takes a tap.
Interactive(s) == card[s] = "default"

\* Composer: words go out whatever is under way; a driver with a card before
\* him asks for its slot by tapping it.
Offered(ask) == ask \in Slot => card[ask] = "none" \/ Interactive(ask)

\* send() of a new message; offline it is queued and nothing is sent.
Send(ask) ==
    /\ page = "chat" /\ Len(messages) < MaxMessages /\ Offered(ask)
    /\ IF live
          THEN /\ messages' = Append(messages, Say(ask, "sending"))
               /\ Open(Len(messages) + 1, 0)
          ELSE /\ messages' = Append(messages, Say(ask, "queued"))
               /\ UNCHANGED <<streams, replies>>
    /\ UNCHANGED <<place, phone, card, hold, thread, history, server>>

\* Delivery: the one state that has a Retry.
HasRetry(m) == messages[m].delivery = "failed"

\* retry: the same client_message_id; offline it is marked as being sent.
Retry(m) ==
    /\ page = "chat" /\ troubles < MaxTroubles /\ HasRetry(m)
    /\ troubles' = troubles + 1
    /\ messages' = [messages EXCEPT ![m].delivery = "sending"]
    /\ IF live THEN Open(m, troubles + 1) ELSE UNCHANGED <<streams, replies>>
    /\ UNCHANGED <<place, phone, card, hold, thread, told, server>>

\* The end of send(): what the message's row says from now on.
Finally(c, delivery) ==
    /\ messages' = [messages EXCEPT ![c[1]].delivery = delivery]
    /\ calls' = [calls EXCEPT ![c].client = "closed", ![c].mine = FALSE, ![c].answer = None]
    /\ turn' = FALSE
    /\ abort' = IF calls[c].mine THEN None ELSE abort

\* An error frame or a lost connection.  The turn may go on or be given up: one
\* that is given up is not remembered, and what its tool did stands.
BreakStream(c) ==
    /\ calls[c].client = "open"
    /\ Finally(c, "failed")
    /\ UNCHANGED <<place, phone, card, hold, thread, replies, history, server>>

\* toOptionSet: a new set, every card of it open.
NewSet == [s \in Slot |-> "default"]

\* toHoldFromRequestSlot: the hold an answer carries, if it does.
HoldOf(a) == IF a.tool = "granted" THEN a.hold ELSE None

\* toPart, findLastOptionSetIndex: what a tool found is a set of cards, which takes
\* the place of the last; a hold turns the card of its slot, where there is one.
Cards(a) ==
    IF a.tool = "find" THEN NewSet
    ELSE IF HoldOf(a) # None THEN SetOptionState(granted[HoldOf(a)].slot, "held") ELSE card

\* commitDone: the last frame brings options, or a hold granted or confirmed,
\* and the server's time; with it the stream ends.
CommitDone(c) ==
    LET a == calls[c].answer
        h == HoldOf(a) IN
    /\ calls[c].client = "open" /\ calls[c].server = "answered"
    /\ Finally(c, "delivered")
    /\ card' = Cards(a)
    /\ hold' = IF h # None THEN h ELSE IF a.tool = "confirmed" THEN None ELSE hold
    /\ replies' = IF h # None THEN "held" ELSE "none"
    /\ offset' = IF a.asOf = None THEN offset ELSE SetServerTime(a.asOf)
    /\ UNCHANGED <<place, online, live, ticked, skew, thread, history, server>>
-----------------------------------------------------------------------------
(* The assistant's turn.                                                    *)

Answer(tool, h, asOf) == [tool |-> tool, hold |-> h, asOf |-> asOf]
At(c, phase, answer) ==
    calls' = [calls EXCEPT ![c].server = phase,
                           ![c].answer = IF calls[c].client = "open" THEN answer ELSE None]
ClientStays == UNCHANGED <<place, phone, talk, turn, abort, history>>

\* _prepare_turn: a message the history has is answered without its tools.
PrepareTurn(c) ==
    /\ calls[c].server = "asked"
    /\ IF c[1] \in remembered
          THEN At(c, "answered", Answer("duplicate", None, None))
          ELSE At(c, "prepared", None)
    /\ ClientStays /\ UNCHANGED server

Booked == \E h \in DOMAIN granted : granted[h].state = "BOOKED"
Live(h) == granted[h].state = "HELD" /\ granted[h].expires > now

GrantedOfTheSlot(m, s) ==                \* mutant of Granted
    {h \in DOMAIN granted : Live(h) /\ granted[h].by = m /\ granted[h].slot = s}

\* The hold request_slot's idempotency row has for the message and the slot.
Granted(m, s) == {h \in DOMAIN granted : granted[h].by = m /\ granted[h].slot = s}

\* request_slot: a replay tells the stored answer; else a hold, if the slot
\* is free and the shipment has no appointment.
RequestSlot(c, s) ==
    /\ calls[c].server = "prepared" /\ messages[c[1]].ask = s
    /\ \/ \E h \in Granted(c[1], s) :
              /\ At(c, "acted", Answer("granted", h, granted[h].expires - Ttl))
              /\ UNCHANGED granted
       \/ /\ Granted(c[1], s) = {}
          /\ ~ Booked /\ \A h \in DOMAIN granted : granted[h].slot = s => ~ Live(h)
          /\ granted' = Append(granted, [slot |-> s, by |-> c[1], expires |-> now + Ttl,
                                         state |-> "HELD", confirmedBy |-> None])
          /\ At(c, "acted", Answer("granted", Len(granted) + 1, now))
       \/ /\ Granted(c[1], s) = {}
          /\ At(c, "acted", Answer("refused", None, now))
          /\ UNCHANGED granted
    /\ ClientStays /\ UNCHANGED <<remembered, now>>

\* confirm_held_slot: a replay tells the stored answer; a live hold is booked.
ConfirmHeldSlot(c, h) ==
    /\ calls[c].server = "prepared" /\ messages[c[1]].ask = "confirm"
    /\ \/ /\ granted[h].confirmedBy = c[1]
          /\ At(c, "acted", Answer("confirmed", h, now))
          /\ UNCHANGED granted
       \/ /\ Live(h) /\ ~ Booked
          /\ granted' = [granted EXCEPT ![h].state = "BOOKED", ![h].confirmedBy = c[1]]
          /\ At(c, "acted", Answer("confirmed", h, now))
       \/ /\ ~ Live(h) /\ granted[h].confirmedBy # c[1]
          /\ At(c, "acted", Answer("refused", None, now))
          /\ UNCHANGED granted
    /\ ClientStays /\ UNCHANGED <<remembered, now>>

\* find_feasible_slots.
FindSlots(c) ==
    /\ calls[c].server = "prepared" /\ messages[c[1]].ask = "find"
    /\ At(c, "acted", Answer("find", None, now))
    /\ ClientStays /\ UNCHANGED server

PersistUnlessRefused(c) ==               \* mutant of PersistTurn
    /\ calls[c].server = "acted"
    /\ remembered' = IF calls[c].answer # None /\ calls[c].answer.tool = "refused" THEN remembered
                     ELSE remembered \cup {c[1]}
    /\ At(c, "answered", calls[c].answer)
    /\ ClientStays /\ UNCHANGED <<granted, now>>

\* _persist_and_build_result: the turn is remembered, and answered.
PersistTurn(c) ==
    /\ calls[c].server = "acted"
    /\ remembered' = remembered \cup {c[1]}
    /\ At(c, "answered", calls[c].answer)
    /\ ClientStays /\ UNCHANGED <<granted, now>>
-----------------------------------------------------------------------------
(* Pages and the connection.                                                *)

\* DriverContext: a live hold is no appointment, and has the promise if there is none.
DriverContext(h) ==
    [hold |-> h, asOf |-> now,
     promise |-> IF Booked THEN "PENDING_CONFIRMATION" ELSE IF h # None THEN "HELD" ELSE "NONE"]

\* driver_reads: the shipment's live hold and its promise, at the server's time.
ReadContext ==
    /\ page = "loading" /\ context = None /\ online
    /\ \E h \in {x \in DOMAIN granted : Live(x)} \cup {None} :
           /\ h = None => \A x \in DOMAIN granted : ~ Live(x)
           /\ context' = DriverContext(h)
    /\ UNCHANGED <<page, phone, talk, streams, history, server>>

\* toThreads: the row's promise; only a hold has a deadline to count to.
ToThread(c) == Row(c.promise, IF c.promise = "HELD" THEN c.hold ELSE None)

\* sync(): the conversation, as it opens, takes the connection's state.
Sync(opened) ==
    /\ live' = IF opened THEN online ELSE live
    /\ ticked' = IF live' THEN now ELSE ticked

\* The list has its threads; with only one it opens it.  A hold it is not
\* told of is left as it was.
LandContext(next) ==
    /\ page = "loading" /\ context # None
    /\ page' = next /\ context' = None
    /\ thread' = ToThread(context)
    /\ hold' = IF context.hold = None THEN hold ELSE context.hold
    /\ offset' = SetServerTime(context.asOf)
    /\ Sync(next = "chat")
    /\ UNCHANGED <<online, skew, messages, card, replies, streams, history, server>>

\* A card of the list.
OpenThread ==
    /\ page = "list" /\ troubles < MaxTroubles
    /\ page' = "chat" /\ Sync(TRUE)
    /\ troubles' = troubles + 1
    /\ UNCHANGED <<context, online, offset, skew, talk, streams, told, server>>

\* Back to the list: the newest stream is aborted, and nothing is said of it.
Leave ==
    /\ page = "chat" /\ troubles < MaxTroubles
    /\ page' = "loading" /\ context' = None
    /\ troubles' = troubles + 1
    /\ turn' = (turn /\ abort = None)
    /\ abort' = None
    /\ calls' = [c \in Call |->
                   IF c = abort THEN [NoCall EXCEPT !.client = "closed", !.server = calls[c].server]
                   ELSE [calls[c] EXCEPT !.mine = FALSE]]
    /\ UNCHANGED <<phone, talk, told, server>>

\* The window's online and offline events, heard while the conversation is open.
Connection ==
    /\ troubles < MaxTroubles
    /\ online' = ~ online
    /\ live' = IF page = "chat" THEN online' ELSE live
    /\ ticked' = IF live' THEN now ELSE ticked
    /\ troubles' = troubles + 1
    /\ UNCHANGED <<place, offset, skew, talk, streams, told, server>>

Driver ==
    \/ \E ask \in Ask : Send(ask)
    \/ \E m \in DOMAIN messages : Retry(m)
    \/ OpenThread \/ Leave

Turn(c) ==
    \/ PrepareTurn(c)
    \/ \E s \in Slot : RequestSlot(c, s)
    \/ \E h \in DOMAIN granted : ConfirmHeldSlot(c, h)
    \/ FindSlots(c) \/ PersistTurn(c)

Stream(c) == BreakStream(c) \/ CommitDone(c)

Next ==
    \/ Driver
    \/ \E c \in Call : Turn(c) \/ Stream(c)
    \/ ReadContext \/ (\E next \in {"list", "chat"} : LandContext(next)) \/ Connection
    \/ Advance \/ LapseHold(hold)

Spec == Init /\ [][Next]_vars
-----------------------------------------------------------------------------
\* DriverConversation and StateLine: the live hold wins over the thread's row.
Header == IF hold # None THEN Row("HELD", hold) ELSE thread

\* PromiseChip: a hold or a request with a deadline is counted down, to "Expired".
Chip(row) == [state |-> row.promise, expired |-> row.hold # None /\ Expired(row.hold)]

\* A message never costs two holds, however often it is retried and wherever
\* its turn broke: what a turn did is found again by the message's key.
OneHoldPerMessage ==
    \A g, h \in DOMAIN granted : granted[g].by = granted[h].by => g = h

\* What the conversation says agrees with what happened: it seems to be thinking
\* only while a stream is open, a delivered message is in the history, the
\* replies that confirm a hold come with one, a promise above a hold is booked,
\* and a hold is said to have lapsed, and its chip to have expired, only once it
\* has: a fast phone lapses nothing early.
ConversationIsTrue ==
    /\ turn => \E c \in Call : calls[c].client = "open"
    /\ \A m \in DOMAIN messages : messages[m].delivery = "delivered" => m \in remembered
    /\ replies = "held" => Header.promise = "HELD"
    /\ Header.promise = "PENDING_CONFIRMATION" => Booked
    /\ \A h \in told : granted[h].expires <= now
    /\ page = "chat" /\ Chip(Header).expired => granted[Header.hold].expires <= now
=============================================================================
