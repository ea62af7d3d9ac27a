--------------------------- MODULE ConsolesProofs ---------------------------
(* The screens of the browser application: what a driver's conversation     *)
(* says and costs, and what the gate's kiosks say and record.  Each screen   *)
(* has an invariant of its own, which holds while it is mounted.             *)
EXTENDS Consoles, Integers, SequenceTheorems, TLAPS

Delivery == {"sending", "queued", "failed", "delivered"}
MessageRow == [ask : Driver!Ask, delivery : Delivery]
Grant == [slot : Slot, by : Driver!Message, expires : Nat, state : {"HELD", "BOOKED"},
          confirmedBy : Driver!Message \cup {None}]
TurnAnswer == [tool : {"duplicate", "granted", "refused", "confirmed", "find"},
               hold : Nat \cup {None}, asOf : Nat \cup {None}]
Stream == [client : {"none", "open", "closed"}, mine : BOOLEAN,
           server : {"none", "asked", "prepared", "acted", "answered"},
           answer : TurnAnswer \cup {None}]

ChatTyped ==
    /\ messages \in Seq(MessageRow) /\ Len(messages) <= MaxMessages
    /\ granted \in Seq(Grant)
    /\ calls \in [Driver!Call -> Stream]
    /\ now \in Nat /\ ticked \in Nat /\ ticked <= now
    /\ offset \in Int /\ skew \in Nat /\ troubles \in Nat

\* A hold is of a message that asked for its slot, and of one such message.
GrantsAsked ==
    \A h \in DOMAIN granted :
        /\ granted[h].by \in DOMAIN messages
        /\ messages[granted[h].by].ask = granted[h].slot
        /\ Ttl <= granted[h].expires /\ granted[h].expires - Ttl <= now

\* What the server says of a turn: at a time that was, of a hold there is.
AnswerOk(a, holds, clock) ==
    /\ a \in TurnAnswer
    /\ a.asOf # None => a.asOf <= clock
    /\ a.tool = "granted" => a.hold \in holds /\ a.asOf # None

CallOk(r, m, holds, written, kept, clock) ==
    /\ r.server # "none" \/ r.client = "open" => m \in written
    /\ r.server = "answered" => m \in kept
    /\ r.client = "open" /\ r.server \in {"acted", "answered"} => AnswerOk(r.answer, holds, clock)

CallsOk ==
    \A c \in Driver!Call :
        CallOk(calls[c], c[1], DOMAIN granted, DOMAIN messages, remembered, now)

\* A clock that shows a deadline was set by the server, so it is not early.
ScreenOk ==
    /\ hold \in DOMAIN granted \cup {None}
    /\ thread \in [promise : {"NONE", "HELD", "PENDING_CONFIRMATION"}, hold : Nat \cup {None}]
    /\ thread.hold \in DOMAIN granted \cup {None}
    /\ hold # None \/ thread.hold # None => offset + skew <= 0
    /\ replies = "held" => hold # None
    /\ thread.promise = "PENDING_CONFIRMATION" => Driver!Booked

ContextOk ==
    context # None =>
        /\ context \in [hold : Nat \cup {None}, asOf : Nat,
                        promise : {"NONE", "HELD", "PENDING_CONFIRMATION"}]
        /\ context.hold \in DOMAIN granted \cup {None}
        /\ context.asOf <= now
        /\ context.promise = "PENDING_CONFIRMATION" => Driver!Booked

TurnOk == turn => \E c \in Driver!Call : calls[c].client = "open"
DeliveredOk == \A m \in DOMAIN messages : messages[m].delivery = "delivered" => m \in remembered
ToldOk == \A h \in told : h \in DOMAIN granted /\ granted[h].expires <= now

ChatInv ==
    /\ ChatTyped /\ GrantsAsked /\ CallsOk
    /\ ScreenOk /\ ContextOk /\ TurnOk /\ DeliveredOk /\ ToldOk
    /\ Driver!OneHoldPerMessage

USE DEF Delivery
-----------------------------------------------------------------------------
(* The driver's conversation.                                               *)

LEMMA NoneIsNoNumber == None \notin Nat
BY ConsolesAssumption DEF Driver!DriverAssumption

\* Messages, holds and the history only grow, and a booking stands.
Grows ==
    /\ DOMAIN messages \subseteq DOMAIN messages'
    /\ \A m \in DOMAIN messages : messages'[m].ask = messages[m].ask
    /\ remembered \subseteq remembered' /\ now <= now' /\ now' \in Nat
    /\ DOMAIN granted \subseteq DOMAIN granted'
    /\ \A h \in DOMAIN granted :
           /\ granted'[h].slot = granted[h].slot /\ granted'[h].by = granted[h].by
           /\ granted'[h].expires = granted[h].expires
           /\ granted[h].state = "BOOKED" => granted'[h].state = "BOOKED"

LEMMA StaysOk ==
    ASSUME ChatInv, Grows, NEW r, NEW m,
           CallOk(r, m, DOMAIN granted, DOMAIN messages, remembered, now)
    PROVE  CallOk(r, m, DOMAIN granted', DOMAIN messages', remembered', now')
<1>1. now \in Nat /\ now' \in Nat /\ now <= now'
  BY DEF ChatInv, ChatTyped, Grows
<1>2. ASSUME NEW a, AnswerOk(a, DOMAIN granted, now)
      PROVE  AnswerOk(a, DOMAIN granted', now')
  <2>1. a \in TurnAnswer
    BY <1>2 DEF AnswerOk
  <2>2. a.asOf # None => a.asOf \in Int
    BY <2>1 DEF TurnAnswer
  <2>3. a.asOf # None => a.asOf <= now'
    BY <1>1, <1>2, <2>2 DEF AnswerOk
  <2>4. QED
    BY <1>2, <2>1, <2>3 DEF AnswerOk, Grows
<1>3. QED
  BY <1>2 DEF CallOk, Grows

LEMMA CallsStay ==
    ASSUME ChatInv, Grows, UNCHANGED calls
    PROVE  calls' \in [Driver!Call -> Stream] /\ CallsOk'
<1>1. calls' \in [Driver!Call -> Stream]
  BY DEF ChatInv, ChatTyped
<1>2. \A c \in Driver!Call :
          CallOk(calls[c], c[1], DOMAIN granted', DOMAIN messages', remembered', now')
  BY StaysOk DEF ChatInv, CallsOk
<1>3. QED
  BY <1>1, <1>2 DEF CallsOk

LEMMA OneCallMoves ==
    ASSUME ChatInv, Grows, NEW c \in Driver!Call, NEW r \in Stream,
           calls' = [calls EXCEPT ![c] = r],
           CallOk(r, c[1], DOMAIN granted', DOMAIN messages', remembered', now')
    PROVE  /\ calls' \in [Driver!Call -> Stream] /\ CallsOk'
           /\ \A d \in Driver!Call : calls'[d] = IF d = c THEN r ELSE calls[d]
<1>1. calls \in [Driver!Call -> Stream]
  BY DEF ChatInv, ChatTyped
<1>2. calls' \in [Driver!Call -> Stream]
      /\ \A d \in Driver!Call : calls'[d] = IF d = c THEN r ELSE calls[d]
  BY <1>1
<1>3. \A d \in Driver!Call :
          CallOk(calls[d], d[1], DOMAIN granted', DOMAIN messages', remembered', now')
  BY StaysOk DEF ChatInv, CallsOk
<1>4. \A d \in Driver!Call :
          CallOk(calls'[d], d[1], DOMAIN granted', DOMAIN messages', remembered', now')
  BY <1>2, <1>3
<1>5. QED
  BY <1>2, <1>4 DEF CallsOk

LEMMA HoldAt ==
    ASSUME ChatInv, NEW h \in DOMAIN granted
    PROVE  /\ granted[h].slot \in Slot /\ granted[h].by \in Driver!Message
           /\ granted[h].expires \in Nat
<1>1. granted \in Seq(Grant)
  BY DEF ChatInv, ChatTyped
<1>2. granted[h] \in Grant
  BY <1>1
<1>3. QED
  BY <1>2 DEF Grant

LEMMA BookingsStand == ASSUME Grows, Driver!Booked PROVE Driver!Booked'
BY DEF Grows, Driver!Booked

\* What the page shows stays true while it does not change.
LEMMA ScreenStays ==
    ASSUME ChatInv, Grows, UNCHANGED <<hold, thread, replies, offset, skew>>
    PROVE  ScreenOk'
<1>1. DOMAIN granted \subseteq DOMAIN granted'
  BY DEF Grows
<1>2. Driver!Booked => Driver!Booked'
  BY BookingsStand
<1>3. QED
  BY <1>1, <1>2 DEF ChatInv, ScreenOk

LEMMA ContextStays == ASSUME ChatInv, Grows, UNCHANGED context PROVE ContextOk'
<1>1. DOMAIN granted \subseteq DOMAIN granted' /\ now \in Nat /\ now' \in Nat /\ now <= now'
  BY DEF Grows, ChatInv, ChatTyped
<1>2. Driver!Booked => Driver!Booked'
  BY BookingsStand
<1>3. QED
  BY <1>1, <1>2 DEF ChatInv, ContextOk

LEMMA ToldStays == ASSUME ChatInv, Grows, UNCHANGED told PROVE ToldOk'
<1>1. now \in Nat /\ now' \in Nat /\ now <= now' /\ \A h \in DOMAIN granted : granted[h].expires \in Nat
  BY HoldAt DEF Grows, ChatInv, ChatTyped
<1>2. QED
  BY <1>1 DEF Grows, ChatInv, ToldOk

LEMMA GrantsStay ==
    ASSUME ChatInv, Grows, DOMAIN granted' = DOMAIN granted
    PROVE  GrantsAsked' /\ Driver!OneHoldPerMessage'
<1>1. now \in Nat /\ now' \in Nat /\ now <= now' /\ Ttl \in Nat
      /\ \A h \in DOMAIN granted : granted[h].expires \in Nat
  BY ConsolesAssumption, HoldAt DEF Grows, ChatInv, ChatTyped, Driver!DriverAssumption
<1>2. GrantsAsked'
  <2>1. SUFFICES ASSUME NEW h \in DOMAIN granted'
                 PROVE  /\ granted'[h].by \in DOMAIN messages'
                        /\ messages'[granted'[h].by].ask = granted'[h].slot
                        /\ Ttl <= granted'[h].expires /\ granted'[h].expires - Ttl <= now'
    BY DEF GrantsAsked
  <2>2. h \in DOMAIN granted
    OBVIOUS
  <2>3. /\ granted[h].by \in DOMAIN messages /\ messages[granted[h].by].ask = granted[h].slot
        /\ Ttl <= granted[h].expires /\ granted[h].expires - Ttl <= now
    BY <2>2 DEF ChatInv, GrantsAsked
  <2>4. /\ granted'[h].slot = granted[h].slot /\ granted'[h].by = granted[h].by
        /\ granted'[h].expires = granted[h].expires
    BY <2>2 DEF Grows
  <2>5. granted[h].by \in DOMAIN messages' /\ messages'[granted[h].by].ask = messages[granted[h].by].ask
    BY <2>3 DEF Grows
  <2>6. QED
    BY <1>1, <2>2, <2>3, <2>4, <2>5
<1>3. Driver!OneHoldPerMessage'
  BY DEF ChatInv, Grows, Driver!OneHoldPerMessage
<1>4. QED
  BY <1>2, <1>3

\* The server's part and the driver's messages are as they were.
LEMMA Alike ==
    ASSUME ChatInv, UNCHANGED <<granted, remembered, messages>>, now' \in Nat, now <= now'
    PROVE  Grows
BY DEF Grows

LEMMA CallAt ==
    ASSUME ChatInv, NEW c \in Driver!Call
    PROVE  /\ calls[c] \in Stream /\ c[1] \in Driver!Message
           /\ CallOk(calls[c], c[1], DOMAIN granted, DOMAIN messages, remembered, now)
<1>1. c[1] \in Driver!Message
  BY DEF Driver!Call
<1>2. QED
  BY <1>1 DEF ChatInv, ChatTyped, CallsOk

LEMMA Numbers ==
    ASSUME ChatInv
    PROVE  /\ now \in Nat /\ ticked \in Nat /\ ticked <= now /\ skew \in Nat /\ offset \in Int
           /\ troubles \in Nat /\ Ttl \in Nat /\ None \notin Nat
           /\ messages \in Seq(MessageRow) /\ granted \in Seq(Grant)
BY ConsolesAssumption DEF ChatInv, ChatTyped, Driver!DriverAssumption

\* Steps of the page and of the clock, no message and no stream among them.
LEMMA PageKeeps ==
    ASSUME ChatInv, UNCHANGED <<granted, remembered, messages, calls, turn, skew>>,
           now' \in Nat, now <= now', ticked' \in Nat, ticked' <= now', offset' \in Int,
           troubles' \in Nat, ScreenOk', ContextOk', ToldOk'
    PROVE  ChatInv'
<1>1. Grows
  BY Alike
<1>2. calls' \in [Driver!Call -> Stream] /\ CallsOk'
  BY <1>1, CallsStay
<1>3. ChatTyped'
  BY <1>2 DEF ChatInv, ChatTyped
<1>4. GrantsAsked' /\ Driver!OneHoldPerMessage'
  BY <1>1, GrantsStay
<1>5. TurnOk' /\ DeliveredOk'
  BY DEF ChatInv, TurnOk, DeliveredOk
<1>6. QED
  BY <1>2, <1>3, <1>4, <1>5 DEF ChatInv

LEMMA AdvanceKeeps == ASSUME ChatInv, Driver!Advance PROVE ChatInv'
<1>1. /\ UNCHANGED <<granted, remembered, messages, calls, turn, skew, hold, thread, replies>>
      /\ UNCHANGED <<offset, context, told, troubles>>
      /\ now' = now + 1 /\ ticked' = IF live THEN now' ELSE ticked
  BY DEF Driver!Advance, Driver!place, Driver!talk, Driver!streams, Driver!history
<1>2. now' \in Nat /\ now <= now' /\ ticked' \in Nat /\ ticked' <= now'
  BY <1>1, Numbers
<1>3. Grows
  BY <1>1, <1>2, Alike
<1>4. ScreenOk' /\ ContextOk' /\ ToldOk'
  BY <1>1, <1>3, ScreenStays, ContextStays, ToldStays
<1>5. QED
  BY <1>1, <1>2, <1>4, Numbers, PageKeeps

\* A deadline is seen to pass only when it has.
LEMMA NeverEarly ==
    ASSUME ChatInv, NEW h \in DOMAIN granted, Driver!Expired(h), offset + skew <= 0
    PROVE  granted[h].expires <= now
BY Numbers, HoldAt DEF Driver!Expired, Driver!Reading

LEMMA LapseKeeps == ASSUME ChatInv, Driver!LapseHold(hold) PROVE ChatInv'
<1>1. /\ UNCHANGED <<granted, remembered, messages, calls, turn, skew, thread, offset, context>>
      /\ UNCHANGED <<troubles, now, ticked>>
      /\ hold' = None /\ replies' = "again" /\ told' = told \cup {hold}
      /\ hold # None /\ Driver!Expired(hold)
  BY DEF Driver!LapseHold, Driver!HoldLapses, Driver!place, Driver!phone, Driver!streams,
         Driver!server
<1>2. hold \in DOMAIN granted /\ granted[hold].expires <= now
  BY <1>1, NeverEarly DEF ChatInv, ScreenOk
<1>3. Grows
  BY <1>1, Alike, Numbers
<1>4. Driver!Booked => Driver!Booked'
  BY <1>3, BookingsStand
<1>5. ScreenOk'
  BY <1>1, <1>4 DEF ChatInv, ScreenOk
<1>6. ContextOk' /\ ToldOk'
  BY <1>1, <1>2, <1>3, ContextStays DEF ChatInv, ToldOk
<1>7. QED
  BY <1>1, <1>5, <1>6, Numbers, PageKeeps

LEMMA ReadContextKeeps == ASSUME ChatInv, Driver!ReadContext PROVE ChatInv'
<1>1. /\ UNCHANGED <<granted, remembered, messages, calls, turn, skew, hold, thread, replies>>
      /\ UNCHANGED <<offset, told, troubles, now, ticked>>
  BY DEF Driver!ReadContext, Driver!phone, Driver!talk, Driver!streams, Driver!history,
         Driver!server
<1>2. PICK h \in DOMAIN granted \cup {None} : context' = Driver!DriverContext(h)
  BY DEF Driver!ReadContext
<1>3. Grows
  BY <1>1, Alike, Numbers
<1>4. Driver!Booked => Driver!Booked'
  BY <1>3, BookingsStand
<1>5. h \in Nat \cup {None}
  BY Numbers
<1>6. ContextOk'
  BY <1>1, <1>2, <1>4, <1>5, Numbers DEF ContextOk, Driver!DriverContext
<1>7. ScreenOk' /\ ToldOk'
  BY <1>1, <1>3, ScreenStays, ToldStays
<1>8. QED
  BY <1>1, <1>6, <1>7, Numbers, PageKeeps

LEMMA LandContextKeeps ==
    ASSUME ChatInv, NEW next \in {"list", "chat"}, Driver!LandContext(next)
    PROVE  ChatInv'
<1>1. /\ UNCHANGED <<granted, remembered, messages, calls, turn, skew, replies, told, troubles, now>>
      /\ context # None /\ context' = None
      /\ thread' = Driver!ToThread(context)
      /\ hold' = IF context.hold = None THEN hold ELSE context.hold
      /\ offset' = context.asOf - (now + skew)
      /\ ticked' = now \/ ticked' = ticked
  BY DEF Driver!LandContext, Driver!Sync, Driver!SetServerTime, Driver!streams, Driver!history,
         Driver!server
<1>2. /\ context \in [hold : Nat \cup {None}, asOf : Nat,
                      promise : {"NONE", "HELD", "PENDING_CONFIRMATION"}]
      /\ context.hold \in DOMAIN granted \cup {None}
      /\ context.asOf <= now
      /\ context.promise = "PENDING_CONFIRMATION" => Driver!Booked
  BY <1>1 DEF ChatInv, ContextOk
<1>3. offset' \in Int /\ offset' + skew <= 0
  BY <1>1, <1>2, Numbers
<1>4. Grows
  BY <1>1, Alike, Numbers
<1>5. Driver!Booked => Driver!Booked'
  BY <1>4, BookingsStand
<1>6. /\ thread' \in [promise : {"NONE", "HELD", "PENDING_CONFIRMATION"}, hold : Nat \cup {None}]
      /\ thread'.hold \in DOMAIN granted \cup {None}
      /\ thread'.promise = context.promise
  BY <1>1, <1>2 DEF Driver!ToThread, Driver!Row
<1>7. hold' \in DOMAIN granted \cup {None} /\ (hold # None => hold' # None)
  BY <1>1, <1>2 DEF ChatInv, ScreenOk
<1>8. ScreenOk'
  BY <1>1, <1>2, <1>3, <1>5, <1>6, <1>7 DEF ChatInv, ScreenOk
<1>9. ContextOk' /\ ToldOk'
  BY <1>1, <1>4, ToldStays DEF ContextOk
<1>10. QED
  BY <1>1, <1>3, <1>8, <1>9, Numbers, PageKeeps

LEMMA PhoneKeeps == ASSUME ChatInv, Driver!OpenThread \/ Driver!Connection PROVE ChatInv'
<1>1. /\ UNCHANGED <<granted, remembered, messages, calls, turn, skew, hold, thread, replies>>
      /\ UNCHANGED <<offset, context, told, now>>
      /\ ticked' = now \/ ticked' = ticked
      /\ troubles' = troubles + 1
  BY DEF Driver!OpenThread, Driver!Connection, Driver!Sync, Driver!place, Driver!talk,
         Driver!streams, Driver!server
<1>2. Grows
  BY <1>1, Alike, Numbers
<1>3. ScreenOk' /\ ContextOk' /\ ToldOk'
  BY <1>1, <1>2, ScreenStays, ContextStays, ToldStays
<1>4. QED
  BY <1>1, <1>3, Numbers, PageKeeps

\* Steps of the conversation, the server and the page's clock as they were.
LEMMA TalkKeeps ==
    ASSUME ChatInv, Grows, UNCHANGED <<granted, remembered, now, ticked, skew, context, told>>,
           offset' \in Int, troubles' \in Nat,
           messages' \in Seq(MessageRow), Len(messages') <= MaxMessages,
           calls' \in [Driver!Call -> Stream], CallsOk', ScreenOk', TurnOk', DeliveredOk'
    PROVE  ChatInv'
<1>1. ChatTyped'
  BY DEF ChatInv, ChatTyped
<1>2. ContextOk' /\ ToldOk'
  BY ContextStays, ToldStays
<1>3. GrantsAsked' /\ Driver!OneHoldPerMessage'
  BY GrantsStay
<1>4. QED
  BY <1>1, <1>2, <1>3 DEF ChatInv

\* A stream is opened for a message there is.
LEMMA Opened ==
    ASSUME ChatInv, Grows, messages' \in Seq(MessageRow), Len(messages') <= MaxMessages,
           NEW m \in DOMAIN messages', NEW k \in 0 .. MaxTroubles, Driver!Open(m, k)
    PROVE  calls' \in [Driver!Call -> Stream] /\ CallsOk' /\ TurnOk' /\ replies' = "none"
<1> DEFINE r == [client |-> "open", mine |-> TRUE, server |-> "asked", answer |-> None]
<1>1. MaxMessages \in Nat /\ MaxTroubles \in Nat
  BY ConsolesAssumption DEF Driver!DriverAssumption
<1>2. <<m, k>> \in Driver!Call
  BY <1>1 DEF Driver!Call, Driver!Message
<1>3. r \in Stream /\ calls' = [calls EXCEPT ![<<m, k>>] = r] /\ replies' = "none"
  BY DEF Stream, Driver!Open
<1>4. CallOk(r, <<m, k>>[1], DOMAIN granted', DOMAIN messages', remembered', now')
  BY DEF CallOk
<1>5. r.client = "open"
  OBVIOUS
<1> HIDE DEF r
<1>6. /\ calls' \in [Driver!Call -> Stream] /\ CallsOk'
      /\ \A d \in Driver!Call : calls'[d] = IF d = <<m, k>> THEN r ELSE calls[d]
  BY <1>2, <1>3, <1>4, OneCallMoves
<1>7. TurnOk'
  BY <1>2, <1>5, <1>6 DEF TurnOk
<1>8. QED
  BY <1>3, <1>6, <1>7

LEMMA SendKeeps == ASSUME ChatInv, NEW ask \in Driver!Ask, Driver!Send(ask) PROVE ChatInv'
<1> DEFINE row(d) == [ask |-> ask, delivery |-> d]
<1>1. PICK d \in {"sending", "queued"} :
         /\ messages' = Append(messages, row(d))
         /\ \/ Driver!Open(Len(messages) + 1, 0)
            \/ UNCHANGED <<turn, calls, replies>>
  BY DEF Driver!Send, Driver!Say, Driver!streams
<1>2. /\ UNCHANGED <<granted, remembered, now, ticked, skew, context, told, offset, troubles>>
      /\ UNCHANGED <<hold, thread>> /\ Len(messages) < MaxMessages
  BY DEF Driver!Send, Driver!place, Driver!phone, Driver!history, Driver!server
<1>3. row(d) \in MessageRow
  BY DEF MessageRow
<1>4. row(d).delivery = d
  OBVIOUS
<1> HIDE DEF row
<1>5. /\ messages' \in Seq(MessageRow) /\ Len(messages') = Len(messages) + 1
      /\ Len(messages') <= MaxMessages /\ DOMAIN messages' = 1 .. Len(messages) + 1
      /\ \A m \in DOMAIN messages : messages'[m] = messages[m]
      /\ messages'[Len(messages) + 1] = row(d)
  BY <1>1, <1>2, <1>3, Numbers, ConsolesAssumption DEF Driver!DriverAssumption
<1>6. Grows
  BY <1>2, <1>5, Numbers DEF Grows
<1>7. calls' \in [Driver!Call -> Stream] /\ CallsOk' /\ TurnOk'
      /\ (replies' = "none" \/ UNCHANGED replies)
  <2>1. CASE Driver!Open(Len(messages) + 1, 0)
    <3>1. Len(messages) + 1 \in DOMAIN messages' /\ 0 \in 0 .. MaxTroubles
      BY <1>5, Numbers, ConsolesAssumption DEF Driver!DriverAssumption
    <3>2. QED
      BY <1>5, <1>6, <2>1, <3>1, Opened
  <2>2. CASE UNCHANGED <<turn, calls, replies>>
    BY <1>6, <2>2, CallsStay DEF ChatInv, TurnOk
  <2>3. QED
    BY <1>1, <2>1, <2>2
<1>8. Driver!Booked => Driver!Booked'
  BY <1>6, BookingsStand
<1>9. ScreenOk'
  BY <1>2, <1>7, <1>8 DEF ChatInv, ScreenOk
<1>10. DeliveredOk'
  <2>1. SUFFICES ASSUME NEW m \in DOMAIN messages', messages'[m].delivery = "delivered"
                 PROVE  m \in remembered
    BY <1>2 DEF DeliveredOk
  <2>2. m # Len(messages) + 1
    BY <1>4, <1>5, <2>1
  <2>3. m \in DOMAIN messages
    BY <1>5, <2>1, <2>2, Numbers
  <2>4. QED
    BY <1>5, <2>1, <2>3 DEF ChatInv, DeliveredOk
<1>11. QED
  BY <1>2, <1>5, <1>6, <1>7, <1>9, <1>10, Numbers, TalkKeeps

\* A message's row says something else of its delivery.
LEMMA RowMoves ==
    ASSUME ChatInv, NEW m \in DOMAIN messages, NEW d \in Delivery,
           d = "delivered" => m \in remembered,
           messages' = [messages EXCEPT ![m].delivery = d],
           UNCHANGED <<granted, remembered, now>>
    PROVE  /\ messages' \in Seq(MessageRow) /\ Len(messages') <= MaxMessages
           /\ DOMAIN messages' = DOMAIN messages /\ Grows /\ DeliveredOk'
<1>1. messages \in Seq(MessageRow) /\ Len(messages) <= MaxMessages
  BY DEF ChatInv, ChatTyped
<1>2. messages[m] \in MessageRow
  BY <1>1
<1>3. [messages[m] EXCEPT !.delivery = d] \in MessageRow
      /\ [messages[m] EXCEPT !.delivery = d].ask = messages[m].ask
      /\ [messages[m] EXCEPT !.delivery = d].delivery = d
  BY <1>2 DEF MessageRow
<1>4. /\ DOMAIN messages' = DOMAIN messages
      /\ messages' \in Seq(MessageRow) /\ Len(messages') = Len(messages)
      /\ \A i \in DOMAIN messages : messages'[i] = IF i = m THEN [messages[m] EXCEPT !.delivery = d]
                                                   ELSE messages[i]
  BY <1>1, <1>3
<1>5. Grows
  BY <1>3, <1>4, Numbers DEF Grows
<1>6. DeliveredOk'
  BY <1>3, <1>4 DEF ChatInv, DeliveredOk
<1>7. QED
  BY <1>1, <1>4, <1>5, <1>6

LEMMA RetryKeeps == ASSUME ChatInv, NEW m \in DOMAIN messages, Driver!Retry(m) PROVE ChatInv'
<1>1. /\ UNCHANGED <<granted, remembered, now, ticked, skew, context, told, offset>>
      /\ UNCHANGED <<hold, thread>>
      /\ troubles' = troubles + 1 /\ troubles < MaxTroubles
      /\ messages' = [messages EXCEPT ![m].delivery = "sending"]
      /\ \/ Driver!Open(m, troubles + 1)
         \/ UNCHANGED <<turn, calls, replies>>
  BY DEF Driver!Retry, Driver!place, Driver!phone, Driver!streams, Driver!server
<1>2. /\ messages' \in Seq(MessageRow) /\ Len(messages') <= MaxMessages
      /\ DOMAIN messages' = DOMAIN messages /\ Grows /\ DeliveredOk'
  BY <1>1, RowMoves
<1>3. troubles + 1 \in 0 .. MaxTroubles
  BY <1>1, Numbers, ConsolesAssumption DEF Driver!DriverAssumption
<1>4. calls' \in [Driver!Call -> Stream] /\ CallsOk' /\ TurnOk'
      /\ (replies' = "none" \/ UNCHANGED replies)
  <2>1. CASE Driver!Open(m, troubles + 1)
    BY <1>2, <1>3, <2>1, Opened
  <2>2. CASE UNCHANGED <<turn, calls, replies>>
    BY <1>2, <2>2, CallsStay DEF ChatInv, TurnOk
  <2>3. QED
    BY <1>1, <2>1, <2>2
<1>5. Driver!Booked => Driver!Booked'
  BY <1>2, BookingsStand
<1>6. ScreenOk'
  BY <1>1, <1>4, <1>5 DEF ChatInv, ScreenOk
<1>7. QED
  BY <1>1, <1>2, <1>4, <1>6, Numbers, TalkKeeps

\* The end of a stream closes its call and leaves nothing under way.
LEMMA StreamEnds ==
    ASSUME ChatInv, NEW c \in Driver!Call, calls[c].client = "open",
           NEW d \in {"failed", "delivered"}, d = "delivered" => calls[c].server = "answered",
           Driver!Finally(c, d), UNCHANGED <<granted, remembered, now>>
    PROVE  /\ messages' \in Seq(MessageRow) /\ Len(messages') <= MaxMessages /\ Grows
           /\ DeliveredOk' /\ calls' \in [Driver!Call -> Stream] /\ CallsOk' /\ TurnOk'
<1> DEFINE r == [calls[c] EXCEPT !.client = "closed", !.mine = FALSE, !.answer = None]
<1>1. /\ messages' = [messages EXCEPT ![c[1]].delivery = d] /\ ~ turn'
      /\ calls' = [calls EXCEPT ![c].client = "closed", ![c].mine = FALSE, ![c].answer = None]
  BY DEF Driver!Finally
<1>2. /\ calls[c] \in Stream /\ c[1] \in DOMAIN messages
      /\ calls[c].server = "answered" => c[1] \in remembered
      /\ CallOk(calls[c], c[1], DOMAIN granted, DOMAIN messages, remembered, now)
  BY CallAt DEF CallOk
<1>3. /\ messages' \in Seq(MessageRow) /\ Len(messages') <= MaxMessages
      /\ DOMAIN messages' = DOMAIN messages /\ Grows /\ DeliveredOk'
  BY <1>1, <1>2, RowMoves
<1>4. r \in Stream /\ r.client = "closed" /\ r.server = calls[c].server
  BY <1>2 DEF Stream
<1>5. CallOk(r, c[1], DOMAIN granted', DOMAIN messages', remembered', now')
  BY <1>2, <1>3, <1>4 DEF CallOk
<1>6. calls' = [calls EXCEPT ![c] = r]
  BY <1>1, <1>2 DEF ChatInv, ChatTyped, Stream
<1> HIDE DEF r
<1>7. calls' \in [Driver!Call -> Stream] /\ CallsOk'
  BY <1>3, <1>4, <1>5, <1>6, OneCallMoves
<1>8. QED
  BY <1>1, <1>3, <1>7 DEF TurnOk

LEMMA BreakKeeps ==
    ASSUME ChatInv, NEW c \in Driver!Call, Driver!BreakStream(c)
    PROVE  ChatInv'
<1>1. /\ UNCHANGED <<granted, remembered, now, ticked, skew, context, told, offset, troubles>>
      /\ UNCHANGED <<hold, thread, replies>>
      /\ calls[c].client = "open" /\ Driver!Finally(c, "failed")
  BY DEF Driver!BreakStream, Driver!place, Driver!phone, Driver!history, Driver!server
<1>2. /\ messages' \in Seq(MessageRow) /\ Len(messages') <= MaxMessages /\ Grows
      /\ DeliveredOk' /\ calls' \in [Driver!Call -> Stream] /\ CallsOk' /\ TurnOk'
  BY <1>1, StreamEnds
<1>3. ScreenOk'
  BY <1>1, <1>2, ScreenStays
<1>4. QED
  BY <1>1, <1>2, <1>3, Numbers, TalkKeeps

LEMMA DoneKeeps ==
    ASSUME ChatInv, NEW c \in Driver!Call, Driver!CommitDone(c)
    PROVE  ChatInv'
<1> DEFINE a == calls[c].answer
           h == Driver!HoldOf(a)
<1>1. /\ UNCHANGED <<granted, remembered, now, ticked, skew, context, told, troubles, thread>>
      /\ calls[c].client = "open" /\ calls[c].server = "answered"
      /\ Driver!Finally(c, "delivered")
      /\ hold' = IF h # None THEN h ELSE IF a.tool = "confirmed" THEN None ELSE hold
      /\ replies' = IF h # None THEN "held" ELSE "none"
      /\ offset' = IF a.asOf = None THEN offset ELSE a.asOf - (now + skew)
  BY DEF Driver!CommitDone, Driver!place, Driver!history, Driver!server, Driver!SetServerTime
<1>2. /\ messages' \in Seq(MessageRow) /\ Len(messages') <= MaxMessages /\ Grows
      /\ DeliveredOk' /\ calls' \in [Driver!Call -> Stream] /\ CallsOk' /\ TurnOk'
  BY <1>1, StreamEnds
<1>3. AnswerOk(a, DOMAIN granted, now)
  BY <1>1, CallAt DEF CallOk
<1>4. /\ a.asOf = None \/ (a.asOf \in Nat /\ a.asOf <= now)
      /\ h # None => h \in DOMAIN granted /\ a.asOf # None
  BY <1>3 DEF AnswerOk, TurnAnswer, Driver!HoldOf
<1> HIDE DEF a, h
<1>5. /\ offset' \in Int
      /\ offset + skew <= 0 \/ h # None => offset' + skew <= 0
  BY <1>1, <1>4, Numbers
<1>6. Driver!Booked => Driver!Booked'
  BY <1>2, BookingsStand
<1>7. hold \in DOMAIN granted \cup {None} /\ (hold # None \/ thread.hold # None => offset + skew <= 0)
  BY DEF ChatInv, ScreenOk
<1>8. hold' \in DOMAIN granted \cup {None}
      /\ (hold' # None \/ thread.hold # None => offset' + skew <= 0)
      /\ (replies' = "held" => hold' # None)
  BY <1>1, <1>4, <1>5, <1>7
<1>9. ScreenOk'
  BY <1>1, <1>6, <1>8 DEF ChatInv, ScreenOk
<1>10. QED
  BY <1>1, <1>2, <1>5, <1>9, Numbers, TalkKeeps

\* Leaving closes the newest call and makes the others nobody's.
LEMMA LeaveKeeps == ASSUME ChatInv, Driver!Leave PROVE ChatInv'
<1> DEFINE r(c) == IF c = abort THEN [Driver!NoCall EXCEPT !.client = "closed", !.server = calls[c].server]
                   ELSE [calls[c] EXCEPT !.mine = FALSE]
<1>1. /\ UNCHANGED <<granted, remembered, now, ticked, skew, told, offset, messages>>
      /\ UNCHANGED <<hold, thread, replies>>
      /\ troubles' = troubles + 1 /\ context' = None
      /\ turn' = (turn /\ abort = None)
      /\ calls' = [c \in Driver!Call |-> r(c)]
  BY DEF Driver!Leave, Driver!phone, Driver!talk, Driver!server
<1> HIDE DEF r
<1>2. Grows
  BY <1>1, Alike, Numbers
<1>3. \A c \in Driver!Call :
          /\ r(c) \in Stream
          /\ CallOk(r(c), c[1], DOMAIN granted, DOMAIN messages, remembered, now)
          /\ c = abort \/ r(c).client = calls[c].client
  <2>1. TAKE c \in Driver!Call
  <2>2. /\ calls[c] \in Stream
        /\ CallOk(calls[c], c[1], DOMAIN granted, DOMAIN messages, remembered, now)
    BY CallAt
  <2>3. CASE c = abort
    <3>1. r(c) \in Stream /\ r(c).client = "closed" /\ r(c).server = calls[c].server
      BY <2>2, <2>3 DEF r, Stream, Driver!NoCall
    <3>2. QED
      BY <2>2, <2>3, <3>1 DEF CallOk
  <2>4. CASE c # abort
    <3>1. r(c) \in Stream /\ r(c).client = calls[c].client /\ r(c).server = calls[c].server
          /\ r(c).answer = calls[c].answer
      BY <2>2, <2>4 DEF r, Stream
    <3>2. QED
      BY <2>2, <3>1 DEF CallOk
  <2>5. QED
    BY <2>3, <2>4
<1>4. calls' \in [Driver!Call -> Stream]
  BY <1>1, <1>3
<1>5. CallsOk'
  BY <1>1, <1>3 DEF CallsOk
<1>6. TurnOk'
  <2>1. SUFFICES ASSUME turn' PROVE \E c \in Driver!Call : calls'[c].client = "open"
    BY DEF TurnOk
  <2>2. PICK c \in Driver!Call : calls[c].client = "open"
    BY <1>1, <2>1 DEF ChatInv, TurnOk
  <2>3. c # abort
    BY <1>1, <2>1, ConsolesAssumption DEF Driver!DriverAssumption
  <2>4. QED
    BY <1>1, <1>3, <2>2, <2>3
<1>7. ScreenOk' /\ ContextOk' /\ ToldOk'
  BY <1>1, <1>2, ScreenStays, ToldStays DEF ContextOk
<1>8. GrantsAsked' /\ Driver!OneHoldPerMessage'
  BY <1>1, <1>2, GrantsStay
<1>9. ChatTyped'
  BY <1>1, <1>4, Numbers DEF ChatInv, ChatTyped
<1>10. DeliveredOk'
  BY <1>1 DEF ChatInv, DeliveredOk
<1>11. QED
  BY <1>5, <1>6, <1>7, <1>8, <1>9, <1>10 DEF ChatInv

\* A step of a turn: the page is as it was, the call has gone further.
LEMMA TurnMoves ==
    ASSUME ChatInv, Grows, NEW c \in Driver!Call, calls[c].server # "none",
           NEW phase \in {"prepared", "acted", "answered"}, NEW a \in TurnAnswer \cup {None},
           Driver!At(c, phase, a), Driver!ClientStays, now' = now,
           phase = "answered" => c[1] \in remembered',
           phase # "prepared" /\ calls[c].client = "open" => AnswerOk(a, DOMAIN granted', now'),
           granted' \in Seq(Grant), GrantsAsked', Driver!OneHoldPerMessage'
    PROVE  ChatInv'
<1> DEFINE b == IF calls[c].client = "open" THEN a ELSE None
           r == [calls[c] EXCEPT !.server = phase, !.answer = b]
<1>1. UNCHANGED <<context, ticked, offset, skew, messages, hold, thread, replies, turn, troubles, told>>
  BY DEF Driver!ClientStays, Driver!place, Driver!phone, Driver!talk, Driver!history
<1>2. /\ calls[c] \in Stream
      /\ CallOk(calls[c], c[1], DOMAIN granted, DOMAIN messages, remembered, now)
  BY CallAt
<1>3. calls' = [calls EXCEPT ![c] = r]
  BY <1>2 DEF Driver!At, ChatInv, ChatTyped, Stream
<1>4. /\ r \in Stream /\ r.server = phase /\ r.client = calls[c].client
      /\ (calls[c].client = "open" => r.answer = a)
  BY <1>2 DEF Stream
<1> HIDE DEF b, r
<1>5. c[1] \in DOMAIN messages'
  BY <1>1, <1>2 DEF CallOk
<1>6. CallOk(r, c[1], DOMAIN granted', DOMAIN messages', remembered', now')
  BY <1>4, <1>5 DEF CallOk
<1>7. /\ calls' \in [Driver!Call -> Stream] /\ CallsOk'
      /\ \A d \in Driver!Call : calls'[d] = IF d = c THEN r ELSE calls[d]
  BY <1>3, <1>4, <1>6, OneCallMoves
<1>8. \A d \in Driver!Call : calls'[d].client = calls[d].client
  BY <1>4, <1>7
<1>9. TurnOk'
  BY <1>1, <1>8 DEF ChatInv, TurnOk
<1>10. DeliveredOk'
  BY <1>1 DEF ChatInv, DeliveredOk, Grows
<1>11. ScreenOk' /\ ContextOk' /\ ToldOk'
  BY <1>1, ScreenStays, ContextStays, ToldStays
<1>12. ChatTyped'
  BY <1>1, <1>7 DEF ChatInv, ChatTyped
<1>13. QED
  BY <1>7, <1>9, <1>10, <1>11, <1>12 DEF ChatInv

LEMMA PrepareKeeps ==
    ASSUME ChatInv, NEW c \in Driver!Call, Driver!PrepareTurn(c)
    PROVE  ChatInv'
<1> DEFINE dup == Driver!Answer("duplicate", None, None)
<1>1. /\ UNCHANGED <<granted, remembered, now>> /\ Driver!ClientStays
      /\ calls[c].server # "none"
      /\ \/ c[1] \in remembered /\ Driver!At(c, "answered", dup)
         \/ Driver!At(c, "prepared", None)
  BY DEF Driver!PrepareTurn, Driver!server
<1>2. UNCHANGED messages
  BY <1>1 DEF Driver!ClientStays, Driver!talk
<1>3. Grows /\ GrantsAsked' /\ Driver!OneHoldPerMessage'
  BY <1>1, <1>2, Alike, GrantsStay, Numbers
<1>4. dup \in TurnAnswer /\ AnswerOk(dup, DOMAIN granted, now)
  BY DEF Driver!Answer, TurnAnswer, AnswerOk
<1> HIDE DEF dup
<1>5. CASE c[1] \in remembered /\ Driver!At(c, "answered", dup)
  BY <1>1, <1>3, <1>4, <1>5, TurnMoves, Numbers
<1>6. CASE Driver!At(c, "prepared", None)
  BY <1>1, <1>3, <1>6, TurnMoves, Numbers
<1>7. QED
  BY <1>1, <1>5, <1>6

LEMMA FindKeeps ==
    ASSUME ChatInv, NEW c \in Driver!Call, Driver!FindSlots(c)
    PROVE  ChatInv'
<1> DEFINE a == Driver!Answer("find", None, now)
<1>1. /\ UNCHANGED <<granted, remembered, now>> /\ Driver!ClientStays
      /\ calls[c].server # "none" /\ Driver!At(c, "acted", a)
  BY DEF Driver!FindSlots, Driver!server
<1>2. UNCHANGED messages
  BY <1>1 DEF Driver!ClientStays, Driver!talk
<1>3. Grows /\ GrantsAsked' /\ Driver!OneHoldPerMessage'
  BY <1>1, <1>2, Alike, GrantsStay, Numbers
<1>4. a \in TurnAnswer /\ AnswerOk(a, DOMAIN granted, now)
  BY Numbers DEF Driver!Answer, TurnAnswer, AnswerOk
<1> HIDE DEF a
<1>5. QED
  BY <1>1, <1>3, <1>4, TurnMoves, Numbers

LEMMA PersistKeeps ==
    ASSUME ChatInv, NEW c \in Driver!Call, Driver!PersistTurn(c)
    PROVE  ChatInv'
<1> DEFINE a == calls[c].answer
<1>1. /\ UNCHANGED <<granted, now>> /\ Driver!ClientStays
      /\ remembered' = remembered \cup {c[1]}
      /\ calls[c].server = "acted" /\ Driver!At(c, "answered", a)
  BY DEF Driver!PersistTurn
<1>2. UNCHANGED messages
  BY <1>1 DEF Driver!ClientStays, Driver!talk
<1>3. Grows
  BY <1>1, <1>2, Numbers DEF Grows
<1>4. GrantsAsked' /\ Driver!OneHoldPerMessage'
  BY <1>1, <1>3, GrantsStay
<1>5. a \in TurnAnswer \cup {None}
      /\ (calls[c].client = "open" => AnswerOk(a, DOMAIN granted, now))
  BY <1>1, CallAt DEF CallOk, Stream
<1> HIDE DEF a
<1>6. QED
  BY <1>1, <1>3, <1>4, <1>5, TurnMoves, Numbers

\* A hold that was granted stands for its message: no other is granted to it.
LEMMA RequestKeeps ==
    ASSUME ChatInv, NEW c \in Driver!Call, NEW s \in Slot, Driver!RequestSlot(c, s)
    PROVE  ChatInv'
<1> DEFINE old(h) == Driver!Answer("granted", h, granted[h].expires - Ttl)
           new == Driver!Answer("granted", Len(granted) + 1, now)
           no == Driver!Answer("refused", None, now)
           g == [slot |-> s, by |-> c[1], expires |-> now + Ttl, state |-> "HELD",
                 confirmedBy |-> None]
<1>1. /\ UNCHANGED <<remembered, now>> /\ Driver!ClientStays
      /\ calls[c].server # "none" /\ messages[c[1]].ask = s
  BY DEF Driver!RequestSlot
<1>2. UNCHANGED messages
  BY <1>1 DEF Driver!ClientStays, Driver!talk
<1>3. \/ UNCHANGED granted /\ \E h \in Driver!Granted(c[1], s) : Driver!At(c, "acted", old(h))
      \/ UNCHANGED granted /\ Driver!At(c, "acted", no)
      \/ /\ Driver!Granted(c[1], s) = {} /\ granted' = Append(granted, g)
         /\ Driver!At(c, "acted", new)
  BY DEF Driver!RequestSlot
<1>4. c[1] \in DOMAIN messages /\ c[1] \in Driver!Message
  BY <1>1, CallAt DEF CallOk
<1>5. ASSUME UNCHANGED granted PROVE Grows /\ GrantsAsked' /\ Driver!OneHoldPerMessage'
  BY <1>1, <1>2, <1>5, Alike, GrantsStay, Numbers
<1>6. CASE UNCHANGED granted /\ \E h \in Driver!Granted(c[1], s) : Driver!At(c, "acted", old(h))
  <2>1. PICK h \in DOMAIN granted : Driver!At(c, "acted", old(h))
    BY <1>6 DEF Driver!Granted
  <2>2. /\ granted[h].expires \in Nat /\ Ttl <= granted[h].expires
        /\ granted[h].expires - Ttl <= now /\ h \in Nat
    BY HoldAt, Numbers DEF ChatInv, GrantsAsked
  <2>3. granted[h].expires - Ttl \in Nat
    BY <2>2, Numbers
  <2>4. old(h) \in TurnAnswer /\ AnswerOk(old(h), DOMAIN granted, now)
    BY <2>2, <2>3, Numbers DEF Driver!Answer, TurnAnswer, AnswerOk
  <2> HIDE DEF old
  <2>5. QED
    BY <1>1, <1>5, <1>6, <2>1, <2>4, TurnMoves, Numbers
<1>7. CASE UNCHANGED granted /\ Driver!At(c, "acted", no)
  <2>1. no \in TurnAnswer /\ AnswerOk(no, DOMAIN granted, now)
    BY Numbers DEF Driver!Answer, TurnAnswer, AnswerOk
  <2> HIDE DEF no
  <2>2. QED
    BY <1>1, <1>5, <1>7, <2>1, TurnMoves, Numbers
<1>8. CASE /\ Driver!Granted(c[1], s) = {} /\ granted' = Append(granted, g)
           /\ Driver!At(c, "acted", new)
  <2>1. g \in Grant
    BY <1>4, Numbers DEF Grant
  <2>2. g.slot = s /\ g.by = c[1] /\ g.expires = now + Ttl
    OBVIOUS
  <2> HIDE DEF g
  <2>3. /\ granted' \in Seq(Grant) /\ DOMAIN granted' = 1 .. Len(granted) + 1
        /\ DOMAIN granted = 1 .. Len(granted) /\ Len(granted) \in Nat
        /\ granted'[Len(granted) + 1] = g
        /\ \A h \in DOMAIN granted : granted'[h] = granted[h]
    BY <1>8, <2>1, Numbers
  <2>4. Grows
    BY <1>1, <1>2, <2>3, Numbers DEF Grows
  <2>5. GrantsAsked'
    <3>1. SUFFICES ASSUME NEW h \in DOMAIN granted'
                   PROVE  /\ granted'[h].by \in DOMAIN messages
                          /\ messages[granted'[h].by].ask = granted'[h].slot
                          /\ Ttl <= granted'[h].expires /\ granted'[h].expires - Ttl <= now
      BY <1>1, <1>2 DEF GrantsAsked
    <3>2. CASE h = Len(granted) + 1
      BY <1>1, <1>4, <2>2, <2>3, <3>2, Numbers
    <3>3. CASE h \in DOMAIN granted
      BY <2>3, <3>3 DEF ChatInv, GrantsAsked
    <3>4. QED
      BY <2>3, <3>2, <3>3
  <2>6. Driver!OneHoldPerMessage'
    <3>1. \A h \in DOMAIN granted : granted[h].by # c[1]
      BY <1>1, <1>8 DEF ChatInv, GrantsAsked, Driver!Granted
    <3>2. \A h, i \in DOMAIN granted : granted[h].by = granted[i].by => h = i
      BY DEF ChatInv, Driver!OneHoldPerMessage
    <3>3. SUFFICES ASSUME NEW h \in DOMAIN granted', NEW i \in DOMAIN granted',
                          granted'[h].by = granted'[i].by
                   PROVE  h = i
      BY DEF Driver!OneHoldPerMessage
    <3>4. CASE h \in DOMAIN granted /\ i \in DOMAIN granted
      BY <2>3, <3>2, <3>3, <3>4
    <3>5. CASE h = Len(granted) + 1 \/ i = Len(granted) + 1
      BY <2>2, <2>3, <3>1, <3>3, <3>5
    <3>6. QED
      BY <2>3, <3>4, <3>5
  <2>7. new \in TurnAnswer /\ AnswerOk(new, DOMAIN granted', now)
    BY <2>3, Numbers DEF Driver!Answer, TurnAnswer, AnswerOk
  <2> HIDE DEF new
  <2>8. QED
    BY <1>1, <1>8, <2>3, <2>4, <2>5, <2>6, <2>7, TurnMoves, Numbers
<1>9. QED
  BY <1>3, <1>6, <1>7, <1>8

LEMMA ConfirmKeeps ==
    ASSUME ChatInv, NEW c \in Driver!Call, NEW h \in DOMAIN granted, Driver!ConfirmHeldSlot(c, h)
    PROVE  ChatInv'
<1> DEFINE yes == Driver!Answer("confirmed", h, now)
           no == Driver!Answer("refused", None, now)
           g == [granted[h] EXCEPT !.state = "BOOKED", !.confirmedBy = c[1]]
<1>1. /\ UNCHANGED <<remembered, now>> /\ Driver!ClientStays
      /\ calls[c].server # "none"
      /\ Driver!At(c, "acted", yes) \/ Driver!At(c, "acted", no)
      /\ \/ UNCHANGED granted
         \/ granted' = [granted EXCEPT ![h].state = "BOOKED", ![h].confirmedBy = c[1]]
  BY DEF Driver!ConfirmHeldSlot
<1>2. UNCHANGED messages
  BY <1>1 DEF Driver!ClientStays, Driver!talk
<1>3. /\ granted' \in Seq(Grant) /\ DOMAIN granted' = DOMAIN granted /\ Grows
  <2>1. CASE UNCHANGED granted
    BY <1>1, <1>2, <2>1, Alike, Numbers
  <2>2. CASE granted' = [granted EXCEPT ![h].state = "BOOKED", ![h].confirmedBy = c[1]]
    <3>1. granted[h] \in Grant /\ c[1] \in Driver!Message
      BY Numbers, CallAt
    <3>2. g \in Grant /\ g.slot = granted[h].slot /\ g.by = granted[h].by
          /\ g.expires = granted[h].expires /\ g.state = "BOOKED"
      BY <3>1 DEF Grant
    <3>3. granted' = [granted EXCEPT ![h] = g]
      BY <2>2, <3>1 DEF Grant
    <3> HIDE DEF g
    <3>4. /\ granted' \in Seq(Grant) /\ DOMAIN granted' = DOMAIN granted
          /\ \A i \in DOMAIN granted : granted'[i] = IF i = h THEN g ELSE granted[i]
      BY <3>2, <3>3, Numbers
    <3>5. QED
      BY <1>1, <1>2, <3>2, <3>4, Numbers DEF Grows
  <2>3. QED
    BY <1>1, <2>1, <2>2
<1>4. GrantsAsked' /\ Driver!OneHoldPerMessage'
  BY <1>3, GrantsStay
<1>5. h \in Nat
  BY Numbers
<1>6. /\ yes \in TurnAnswer /\ AnswerOk(yes, DOMAIN granted, now)
      /\ no \in TurnAnswer /\ AnswerOk(no, DOMAIN granted, now)
  BY <1>5, Numbers DEF Driver!Answer, TurnAnswer, AnswerOk
<1> HIDE DEF yes, no
<1>7. CASE Driver!At(c, "acted", yes)
  BY <1>1, <1>3, <1>4, <1>6, <1>7, TurnMoves
<1>8. CASE Driver!At(c, "acted", no)
  BY <1>1, <1>3, <1>4, <1>6, <1>8, TurnMoves
<1>9. QED
  BY <1>1, <1>7, <1>8

LEMMA ChatStart == ASSUME Driver!Init PROVE ChatInv
<1>1. /\ messages = << >> /\ granted = << >> /\ remembered = {} /\ told = {}
      /\ now = 0 /\ ticked = 0 /\ offset = 0 /\ troubles = 0 /\ skew \in Skew
      /\ calls = [c \in Driver!Call |-> Driver!NoCall]
      /\ hold = None /\ thread = Driver!Row("NONE", None) /\ replies = "none"
      /\ turn = FALSE /\ context = None
  BY DEF Driver!Init
<1>2. skew \in Nat /\ MaxMessages \in Nat
  BY <1>1, ConsolesAssumption DEF Driver!DriverAssumption
<1>3. << >> \in Seq(MessageRow) /\ << >> \in Seq(Grant) /\ Len(<< >>) = 0 /\ DOMAIN << >> = {}
  OBVIOUS
<1>4. Driver!NoCall \in Stream
  BY DEF Driver!NoCall, Stream
<1>5. ChatTyped
  BY <1>1, <1>2, <1>3, <1>4 DEF ChatTyped
<1>6. CallsOk
  BY <1>1 DEF CallsOk, CallOk, Driver!NoCall
<1>7. ScreenOk /\ ContextOk /\ TurnOk
  BY <1>1 DEF ScreenOk, ContextOk, TurnOk, Driver!Row
<1>8. GrantsAsked /\ Driver!OneHoldPerMessage /\ DeliveredOk /\ ToldOk
  BY <1>1, <1>3 DEF GrantsAsked, Driver!OneHoldPerMessage, DeliveredOk, ToldOk
<1>9. QED
  BY <1>5, <1>6, <1>7, <1>8 DEF ChatInv

LEMMA ChatKeeps == ASSUME ChatInv, [Driver!Next]_Driver!vars PROVE ChatInv'
<1>1. CASE Driver!Driver
  BY <1>1, SendKeeps, RetryKeeps, PhoneKeeps, LeaveKeeps DEF Driver!Driver
<1>2. ASSUME NEW c \in Driver!Call, Driver!Turn(c)
      PROVE  ChatInv'
  BY <1>2, PrepareKeeps, RequestKeeps, ConfirmKeeps, FindKeeps, PersistKeeps DEF Driver!Turn
<1>3. ASSUME NEW c \in Driver!Call, Driver!Stream(c)
      PROVE  ChatInv'
  BY <1>3, BreakKeeps, DoneKeeps DEF Driver!Stream
<1>4. CASE Driver!ReadContext \/ \E next \in {"list", "chat"} : Driver!LandContext(next)
  BY <1>4, ReadContextKeeps, LandContextKeeps
<1>5. CASE Driver!Connection \/ Driver!Advance \/ Driver!LapseHold(hold)
  BY <1>5, PhoneKeeps, AdvanceKeeps, LapseKeeps
<1>6. CASE UNCHANGED Driver!vars
  <2>1. UNCHANGED <<granted, remembered, messages, calls, turn, skew, hold, thread, replies,
                    offset, context, told, now, ticked, troubles>>
    BY <1>6 DEF Driver!vars, Driver!place, Driver!phone, Driver!talk, Driver!streams,
                Driver!history, Driver!server
  <2>2. Grows
    BY <2>1, Alike, Numbers
  <2>3. ScreenOk' /\ ContextOk' /\ ToldOk'
    BY <2>1, <2>2, ScreenStays, ContextStays, ToldStays
  <2>4. QED
    BY <2>1, <2>3, Numbers, PageKeeps
<1>7. QED
  BY <1>1, <1>2, <1>3, <1>4, <1>5, <1>6 DEF Driver!Next

\* What the page says follows: the chip counts down to a deadline of the server.
LEMMA ChatIsTrue == ASSUME ChatInv PROVE Driver!ConversationIsTrue
<1> DEFINE row == Driver!Header
<1>1. /\ hold \in DOMAIN granted \cup {None} /\ thread.hold \in DOMAIN granted \cup {None}
      /\ hold # None \/ thread.hold # None => offset + skew <= 0
      /\ replies = "held" => hold # None
      /\ thread.promise = "PENDING_CONFIRMATION" => Driver!Booked
  BY DEF ChatInv, ScreenOk
<1>2. /\ row.hold = IF hold # None THEN hold ELSE thread.hold
      /\ row.promise = IF hold # None THEN "HELD" ELSE thread.promise
  BY DEF Driver!Header, Driver!Row
<1> HIDE DEF row
<1>3. (replies = "held" => row.promise = "HELD")
      /\ (row.promise = "PENDING_CONFIRMATION" => Driver!Booked)
  BY <1>1, <1>2
<1>4. ASSUME Driver!Chip(row).expired
      PROVE  granted[row.hold].expires <= now
  <2>1. row.hold # None /\ Driver!Expired(row.hold)
    BY <1>4 DEF Driver!Chip
  <2>2. row.hold \in DOMAIN granted /\ offset + skew <= 0
    BY <1>1, <1>2, <2>1
  <2>3. QED
    BY <2>1, <2>2, NeverEarly
<1>5. turn => \E c \in Driver!Call : calls[c].client = "open"
  BY DEF ChatInv, TurnOk
<1>6. \A m \in DOMAIN messages : messages[m].delivery = "delivered" => m \in remembered
  BY DEF ChatInv, DeliveredOk
<1>7. \A h \in told : granted[h].expires <= now
  BY DEF ChatInv, ToldOk
<1>8. QED
  BY <1>3, <1>4, <1>5, <1>6, <1>7 DEF row, Driver!ConversationIsTrue
-----------------------------------------------------------------------------
(* The gate: what each kiosk shows, and what the tools have done. *)

GateAction == {"GATE_IN", "CALL_TO_DOCK", "DOCK_IN", "START_UNLOAD", "END_UNLOAD", "GATE_OUT"}
GateRow == [gated : BOOLEAN, queue : {"NOT_QUEUED", "WAITING", "CALLED_TO_DOCK", "IN_DOCK", "COMPLETED"},
            dock : Dock \cup {None}, started : BOOLEAN, ended : BOOLEAN, out : BOOLEAN]
GateCard == [truck : Truck, next : GateAction \cup {None}, dock : Dock \cup {None}]
GateCode == {"GATE_IN_RECORDED", "ALREADY_CHECKED_IN", "NO_ACTIVE_APPOINTMENT", "QUEUE_UPDATED",
             "INVALID_TRANSITION", "DOCK_OCCUPIED", "DOCK_IN_RECORDED", "DOCK_MISMATCH", "RECORDED",
             "ALREADY_GATED_OUT", "COMPLETED"}
GateCall == [kiosk : Kiosk, card : GateCard, key : Nat, client : {"open", "closed"},
             server : {"asked", "lost", "locked", "done"},
             result : GateCode \cup {"occupied", "free", None}]
GateScreen == [shift : BOOLEAN, phase : {"search", "list", "truck", "outcome"},
               card : GateCard \cup {None}, found : SUBSET GateCard, key : Nat, waiting : Nat,
               failed : BOOLEAN, outcome : Nat]

GateEvent == {"GATE_IN", "DOCK_IN", "UNLOAD_START", "UNLOAD_END", "GATE_OUT"}

\* The first n steps of a visit are what the log has.
LogHas(l, n) == l \in Seq(GateEvent) /\ Len(l) = n /\ \A i \in 1 .. n : l[i] = Gate!Steps[i]

\* A visit so far: the row the tools have made, and the events they recorded.
VisitAt(r, l) ==
    \/ /\ ~ r.gated /\ r.queue = "NOT_QUEUED" /\ r.dock = None
       /\ ~ r.started /\ ~ r.ended /\ ~ r.out /\ LogHas(l, 0)
    \/ /\ r.gated /\ r.queue \in {"WAITING", "CALLED_TO_DOCK"} /\ r.dock = None
       /\ ~ r.started /\ ~ r.ended /\ ~ r.out /\ LogHas(l, 1)
    \/ /\ r.gated /\ r.queue = "IN_DOCK" /\ r.dock # None
       /\ ~ r.ended /\ ~ r.out /\ LogHas(l, IF r.started THEN 3 ELSE 2)
    \/ /\ r.gated /\ r.queue = "COMPLETED" /\ r.dock # None
       /\ r.started /\ r.ended /\ LogHas(l, IF r.out THEN 5 ELSE 4)

Visits ==
    /\ checkin \in [Truck -> GateRow]
    /\ log = [t \in Truck |-> log[t]]
    /\ \A t \in Truck : VisitAt(checkin[t], log[t])
    /\ appt \in [Truck -> Dock \cup {None}]

\* A card is stale, but a truck it shows as unloaded is.
CardOk(c, rows) == c \in GateCard /\ (c.next = "GATE_OUT" => rows[c.truck].ended)

\* What a stored answer says of the truck's row.
OnRecord(code, r) ==
    /\ code \in {"GATE_IN_RECORDED", "ALREADY_CHECKED_IN"} => r.gated
    /\ code \in {"DOCK_IN_RECORDED", "DOCK_MISMATCH"} => r.dock # None
    /\ code \in {"COMPLETED", "ALREADY_GATED_OUT"} => r.out

TapOk(c, n, rows) ==
    /\ CardOk(c.card, rows) /\ c.card.next # None
    /\ c.key \in 1 .. n
    /\ c.card.next = "DOCK_IN" => c.card.dock \in Dock
    /\ c.server = "locked" => /\ c.card.next = "DOCK_IN" /\ c.result \in {"occupied", "free"}
                              /\ rows[c.card.truck].queue = "CALLED_TO_DOCK"
    /\ c.server = "done" => c.result \in GateCode /\ OnRecord(c.result, rows[c.card.truck])

TapsOk ==
    /\ calls \in Seq(GateCall)
    /\ \A i \in DOMAIN calls : TapOk(calls[i], Len(calls), checkin)

SameTap(c, d) == c.truck = d.truck /\ c.next = d.next

KeysAgree ==
    \A i, j \in DOMAIN calls : calls[i].key = calls[j].key => SameTap(calls[i].card, calls[j].card)

OneLockIn ==
    \A i, j \in DOMAIN calls :
        calls[i].server = "locked" /\ calls[j].server = "locked"
        /\ calls[i].card.truck = calls[j].card.truck => i = j

\* A dock that was free when it was looked at is free, or let in another meanwhile.
SeenFree ==
    \A i \in DOMAIN calls : calls[i].server = "locked" /\ calls[i].result = "free" =>
        \A u \in Truck \ {calls[i].card.truck} :
            Gate!InDock(checkin[u], calls[i].card.dock) => calls[i].card.truck \in raced

KioskOk(s, k, taps, rows) ==
    /\ s \in GateScreen
    /\ \A c \in s.found : CardOk(c, rows)
    /\ s.phase = "truck" => CardOk(s.card, rows)
    /\ s.key # 0 => /\ s.key \in DOMAIN taps /\ taps[s.key].key = s.key
                    /\ s.phase = "truck" /\ SameTap(taps[s.key].card, s.card)
    /\ s.waiting # 0 => s.waiting \in DOMAIN taps /\ taps[s.waiting].client = "open"
                        /\ taps[s.waiting].kiosk = k
    /\ s.outcome # 0 => s.outcome \in DOMAIN taps /\ taps[s.outcome].server = "done"
                        /\ s.card \in GateCard /\ SameTap(taps[s.outcome].card, s.card)

KiosksOk ==
    /\ kiosk = [k \in Kiosk |-> kiosk[k]]
    /\ \A k \in Kiosk : KioskOk(kiosk[k], k, calls, checkin)

LookupsOk ==
    /\ lookups = [k \in Kiosk |-> lookups[k]]
    /\ \A k \in Kiosk : \A cards \in lookups[k] : \A c \in cards : CardOk(c, checkin)

GateInv ==
    /\ Visits /\ TapsOk /\ KeysAgree /\ OneLockIn /\ SeenFree /\ KiosksOk /\ LookupsOk
    /\ Gate!DockSharedOnlyInARace
-----------------------------------------------------------------------------
(* The gate's kiosks.                                                       *)

LEMMA GateNone == None \notin Dock
BY ConsolesAssumption DEF Gate!GateAssumption

\* What the tools have done of a visit stays done.
RowsGrow ==
    \A t \in Truck :
        /\ checkin[t].gated => checkin'[t].gated
        /\ checkin[t].dock # None => checkin'[t].dock # None
        /\ checkin[t].ended => checkin'[t].ended
        /\ checkin[t].out => checkin'[t].out

TapsGrow ==
    /\ calls' \in Seq(GateCall) /\ Len(calls) <= Len(calls')
    /\ \A i \in DOMAIN calls :
           /\ calls'[i].kiosk = calls[i].kiosk /\ calls'[i].card = calls[i].card
           /\ calls'[i].key = calls[i].key
           /\ calls[i].server = "done" => calls'[i].server = "done"

LEMMA CardStays ==
    ASSUME RowsGrow, NEW c, CardOk(c, checkin)
    PROVE  CardOk(c, checkin')
BY DEF RowsGrow, CardOk, GateCard

LEMMA LookupsStay == ASSUME GateInv, RowsGrow, UNCHANGED lookups PROVE LookupsOk'
BY CardStays DEF GateInv, LookupsOk

LEMMA TapDomain ==
    ASSUME GateInv
    PROVE  /\ calls \in Seq(GateCall) /\ Len(calls) \in Nat /\ DOMAIN calls = 1 .. Len(calls)
           /\ \A i \in DOMAIN calls : calls[i] \in GateCall /\ i \in Nat \ {0}
<1>1. calls \in Seq(GateCall)
  BY DEF GateInv, TapsOk
<1>2. QED
  BY <1>1

LEMMA KioskStays ==
    ASSUME GateInv, RowsGrow, TapsGrow, NEW s, NEW k, KioskOk(s, k, calls, checkin),
           s.waiting # 0 => calls'[s.waiting].client = "open"
    PROVE  KioskOk(s, k, calls', checkin')
<1>1. DOMAIN calls \subseteq DOMAIN calls'
  BY TapDomain DEF TapsGrow
<1>2. /\ \A c \in s.found : CardOk(c, checkin')
      /\ s.phase = "truck" => CardOk(s.card, checkin')
  BY CardStays DEF KioskOk
<1>3. s.key # 0 => /\ s.key \in DOMAIN calls' /\ calls'[s.key].key = s.key
                   /\ s.phase = "truck" /\ SameTap(calls'[s.key].card, s.card)
  BY <1>1 DEF KioskOk, TapsGrow
<1>4. s.waiting # 0 => s.waiting \in DOMAIN calls' /\ calls'[s.waiting].kiosk = k
  BY <1>1 DEF KioskOk, TapsGrow
<1>5. s.outcome # 0 => s.outcome \in DOMAIN calls' /\ calls'[s.outcome].server = "done"
                       /\ s.card \in GateCard /\ SameTap(calls'[s.outcome].card, s.card)
  BY <1>1 DEF KioskOk, TapsGrow
<1>6. QED
  BY <1>2, <1>3, <1>4, <1>5 DEF KioskOk

LEMMA TapStays ==
    ASSUME RowsGrow, NEW n \in Nat, NEW m \in Nat, n <= m, NEW c \in GateCall, TapOk(c, n, checkin),
           c.server = "locked" => checkin'[c.card.truck].queue = checkin[c.card.truck].queue
    PROVE  TapOk(c, m, checkin')
<1>1. c.card.truck \in Truck
  BY DEF GateCall, GateCard
<1>2. CardOk(c.card, checkin')
  BY CardStays DEF TapOk
<1>3. c.server = "done" => c.result \in GateCode /\ OnRecord(c.result, checkin'[c.card.truck])
  BY <1>1 DEF TapOk, OnRecord, RowsGrow
<1>4. c.key \in 1 .. m
  BY DEF TapOk
<1>5. QED
  BY <1>2, <1>3, <1>4 DEF TapOk

\* A card as the server makes it now.
LEMMA CardNow ==
    ASSUME GateInv, NEW t \in Truck
    PROVE  CardOk(Gate!Card(t), checkin) /\ Gate!Card(t).truck = t
<1>1. checkin[t] \in GateRow /\ appt[t] \in Dock \cup {None} /\ VisitAt(checkin[t], log[t])
  BY DEF GateInv, Visits
<1>2. Gate!NextAction(checkin[t]) \in GateAction \cup {None}
  BY <1>1 DEF Gate!NextAction, GateRow, GateAction, VisitAt
<1>3. ~ checkin[t].ended => Gate!NextAction(checkin[t]) \in GateAction \ {"GATE_OUT"}
  BY <1>1 DEF Gate!NextAction, GateRow, GateAction, VisitAt
<1>4. QED
  BY <1>1, <1>2, <1>3 DEF CardOk, Gate!Card, GateCard

\* Steps of the kiosks alone.
LEMMA ScreensKeep ==
    ASSUME GateInv, UNCHANGED <<calls, checkin, log, raced>>, appt' \in [Truck -> Dock \cup {None}],
           KiosksOk', LookupsOk'
    PROVE  GateInv'
BY DEF GateInv, Visits, TapsOk, KeysAgree, OneLockIn, SeenFree, Gate!DockSharedOnlyInARace

LEMMA NothingMoves ==
    ASSUME GateInv, UNCHANGED <<calls, checkin>> PROVE RowsGrow /\ TapsGrow
BY TapDomain DEF RowsGrow, TapsGrow

LEMMA KioskMoves ==
    ASSUME GateInv, NEW k \in Kiosk, NEW s, kiosk' = [kiosk EXCEPT ![k] = s],
           KioskOk(s, k, calls', checkin'),
           \A m \in Kiosk \ {k} : KioskOk(kiosk[m], m, calls', checkin')
    PROVE  KiosksOk'
<1>1. kiosk = [m \in Kiosk |-> kiosk[m]]
  BY DEF GateInv, KiosksOk
<1>2. kiosk' = [m \in Kiosk |-> kiosk'[m]] /\ \A m \in Kiosk : kiosk'[m] = IF m = k THEN s ELSE kiosk[m]
  BY <1>1
<1>3. \A m \in Kiosk : KioskOk(kiosk'[m], m, calls', checkin')
  BY <1>2
<1>4. QED
  BY <1>2, <1>3 DEF KiosksOk

LEMMA ScreenMoves ==
    ASSUME GateInv, NEW k \in Kiosk, NEW s, kiosk' = [kiosk EXCEPT ![k] = s],
           KioskOk(s, k, calls, checkin), UNCHANGED <<calls, checkin>>
    PROVE  KiosksOk'
<1>1. KioskOk(s, k, calls', checkin') /\ \A m \in Kiosk : KioskOk(kiosk[m], m, calls', checkin')
  BY DEF GateInv, KiosksOk
<1>2. QED
  BY <1>1, KioskMoves

\* A screen that starts afresh.
LEMMA BlankOk ==
    ASSUME NEW k, NEW taps, NEW rows, NEW shift \in BOOLEAN,
           NEW phase \in {"search", "list", "truck", "outcome"},
           NEW shows \in GateCard \cup {None}, NEW found \in SUBSET GateCard, NEW w \in Nat,
           \A c \in found : CardOk(c, rows),
           phase = "truck" => CardOk(shows, rows),
           w # 0 => w \in DOMAIN taps /\ taps[w].client = "open" /\ taps[w].kiosk = k,
           NEW s, s = [shift |-> shift, phase |-> phase, card |-> shows, found |-> found, key |-> 0,
                       waiting |-> w, failed |-> FALSE, outcome |-> 0]
    PROVE  KioskOk(s, k, taps, rows)
<1>1. s \in GateScreen
  BY DEF GateScreen
<1>2. QED
  BY <1>1 DEF KioskOk

LEMMA KioskAt ==
    ASSUME GateInv, NEW k \in Kiosk
    PROVE  KioskOk(kiosk[k], k, calls, checkin) /\ kiosk[k] \in GateScreen
BY DEF GateInv, KiosksOk, KioskOk

LEMMA RearmedOk ==
    ASSUME GateInv, NEW k \in Kiosk, NEW shows, CardOk(shows, checkin)
    PROVE  KioskOk(Gate!Rearmed(kiosk[k], shows), k, calls, checkin)
<1> DEFINE s == kiosk[k]
<1>1. KioskOk(s, k, calls, checkin) /\ s \in GateScreen
  BY KioskAt
<1>2. shows \in GateCard
  BY DEF CardOk
<1>3. CASE s.phase = "truck" /\ s.card.truck = shows.truck /\ s.card.next = shows.next
  <2> DEFINE r == [s EXCEPT !.card = shows]
  <2>1. Gate!Rearmed(s, shows) = r
    BY <1>3 DEF Gate!Rearmed
  <2>2. /\ r \in GateScreen /\ r.card = shows /\ r.found = s.found /\ r.key = s.key
        /\ r.phase = s.phase /\ r.waiting = s.waiting /\ r.outcome = s.outcome
    BY <1>1, <1>2 DEF GateScreen
  <2>3. SameTap(s.card, shows)
    BY <1>3 DEF SameTap
  <2> HIDE DEF r
  <2>4. KioskOk(r, k, calls, checkin)
    BY <1>1, <1>2, <2>2, <2>3 DEF KioskOk, SameTap
  <2>5. QED
    BY <2>1, <2>4
<1>4. CASE ~ (s.phase = "truck" /\ s.card.truck = shows.truck /\ s.card.next = shows.next)
  <2> DEFINE w == IF s.phase = "truck" THEN s.waiting ELSE 0
  <2>1. Gate!Rearmed(s, shows) =
           [shift |-> s.shift, phase |-> "truck", card |-> shows, found |-> {}, key |-> 0,
            waiting |-> w, failed |-> FALSE, outcome |-> 0]
    BY <1>4 DEF Gate!Rearmed, Gate!Screen
  <2>2. /\ w \in Nat /\ s.shift \in BOOLEAN
        /\ w # 0 => w \in DOMAIN calls /\ calls[w].client = "open" /\ calls[w].kiosk = k
    BY <1>1 DEF KioskOk, GateScreen
  <2> HIDE DEF w
  <2>3. QED
    BY <1>2, <2>1, <2>2, BlankOk
<1>5. QED
  BY <1>3, <1>4

LEMMA ShownOk ==
    ASSUME GateInv, NEW k \in Kiosk, NEW found, \A c \in found : CardOk(c, checkin)
    PROVE  KioskOk(Gate!Shown(kiosk[k], found), k, calls, checkin)
<1>1. CASE \E c \in found : found = {c}
  <2>1. found # {}
    BY <1>1
  <2>2. PICK shows : shows = CHOOSE c \in found : TRUE
    OBVIOUS
  <2>3. shows \in found
    BY <2>1, <2>2
  <2>4. Gate!Shown(kiosk[k], found) = Gate!Rearmed(kiosk[k], shows)
    BY <1>1, <2>2 DEF Gate!Shown
  <2>5. QED
    BY <2>3, <2>4, RearmedOk
<1>2. CASE ~ \E c \in found : found = {c}
  <2>1. Gate!Shown(kiosk[k], found) =
           [shift |-> kiosk[k].shift, phase |-> "list", card |-> None, found |-> found, key |-> 0,
            waiting |-> 0, failed |-> FALSE, outcome |-> 0]
    BY <1>2 DEF Gate!Shown, Gate!Screen
  <2>2. kiosk[k].shift \in BOOLEAN /\ found \in SUBSET GateCard
    BY KioskAt DEF GateScreen, CardOk
  <2>3. QED
    BY <2>1, <2>2, BlankOk
<1>3. QED
  BY <1>1, <1>2

LEMMA SearchKeeps ==
    ASSUME GateInv, NEW k \in Kiosk, NEW matches \in SUBSET Truck, Gate!Search(k, matches)
    PROVE  GateInv'
<1> DEFINE found == {Gate!Card(t) : t \in matches}
<1>1. /\ UNCHANGED <<kiosk, calls, checkin, log, raced, appt>>
      /\ lookups' = [lookups EXCEPT ![k] = @ \cup {found}]
  BY DEF Gate!Search, Gate!yard
<1>2. \A c \in found : CardOk(c, checkin)
  BY CardNow
<1> HIDE DEF found
<1>3. LookupsOk'
  BY <1>1, <1>2 DEF GateInv, LookupsOk
<1>4. KiosksOk' /\ appt \in [Truck -> Dock \cup {None}]
  BY <1>1 DEF GateInv, KiosksOk, Visits
<1>5. QED
  BY <1>1, <1>3, <1>4, ScreensKeep

\* The answer to a search goes; what it says the kiosk shows, or does not.
LEMMA LookupGoes ==
    ASSUME GateInv, NEW k \in Kiosk, NEW cards, lookups' = [lookups EXCEPT ![k] = @ \ {cards}],
           UNCHANGED <<calls, checkin, log, raced, appt>>, KiosksOk'
    PROVE  GateInv'
<1>1. LookupsOk'
  BY DEF GateInv, LookupsOk
<1>2. appt \in [Truck -> Dock \cup {None}]
  BY DEF GateInv, Visits
<1>3. QED
  BY <1>1, <1>2, ScreensKeep

LEMMA LandsKeeps ==
    ASSUME GateInv, NEW k \in Kiosk, NEW cards \in lookups[k], Gate!LookupLands(k, cards)
    PROVE  GateInv'
<1>1. /\ UNCHANGED <<calls, checkin, log, raced, appt>>
      /\ lookups' = [lookups EXCEPT ![k] = @ \ {cards}]
  BY DEF Gate!LookupLands, Gate!yard
<1>2. PICK found \in {cards, {Gate!Card(c.truck) : c \in cards}} :
         kiosk' = [kiosk EXCEPT ![k] = Gate!Shown(kiosk[k], found)]
  BY DEF Gate!LookupLands
<1>3. \A c \in cards : CardOk(c, checkin) /\ c.truck \in Truck
  BY DEF GateInv, LookupsOk, CardOk, GateCard
<1>4. \A c \in found : CardOk(c, checkin)
  BY <1>2, <1>3, CardNow
<1>5. KiosksOk'
  BY <1>1, <1>2, <1>4, ShownOk, ScreenMoves
<1>6. QED
  BY <1>1, <1>5, LookupGoes

LEMMA FailsKeeps ==
    ASSUME GateInv, NEW k \in Kiosk, NEW cards \in lookups[k], Gate!LookupFails(k, cards)
    PROVE  GateInv'
<1>1. /\ UNCHANGED <<kiosk, calls, checkin, log, raced, appt>>
      /\ lookups' = [lookups EXCEPT ![k] = @ \ {cards}]
  BY DEF Gate!LookupFails, Gate!yard
<1>2. KiosksOk'
  BY <1>1 DEF GateInv, KiosksOk
<1>3. QED
  BY <1>1, <1>2, LookupGoes

\* The officer moves through the screens of his kiosk.
LEMMA ScreenKeeps ==
    ASSUME GateInv, NEW k \in Kiosk,
           \/ \E shows \in kiosk[k].found : Gate!Pick(k, shows)
           \/ Gate!BackToSearch(k) \/ Gate!EndShift(k) \/ Gate!StartShift(k)
    PROVE  GateInv'
<1>1. UNCHANGED <<calls, checkin, log, raced, appt, lookups>>
  BY DEF Gate!Pick, Gate!BackToSearch, Gate!EndShift, Gate!StartShift, Gate!yard
<1>2. PICK s : kiosk' = [kiosk EXCEPT ![k] = s] /\ KioskOk(s, k, calls, checkin)
  <2>1. CASE \E shows \in kiosk[k].found : Gate!Pick(k, shows)
    <3>1. PICK shows \in kiosk[k].found : kiosk' = [kiosk EXCEPT ![k] = Gate!Rearmed(kiosk[k], shows)]
      BY <2>1 DEF Gate!Pick
    <3>2. CardOk(shows, checkin)
      BY KioskAt DEF KioskOk
    <3>3. QED
      BY <3>1, <3>2, RearmedOk
  <2>2. CASE Gate!BackToSearch(k) \/ Gate!EndShift(k)
    <3> DEFINE blank(b) == [shift |-> b, phase |-> "search", card |-> None, found |-> {}, key |-> 0,
                            waiting |-> 0, failed |-> FALSE, outcome |-> 0]
    <3>1. PICK b \in BOOLEAN : kiosk' = [kiosk EXCEPT ![k] = blank(b)]
      BY <2>2, ZenonT(30) DEF Gate!BackToSearch, Gate!EndShift, Gate!Screen
    <3>2. KioskOk(blank(b), k, calls, checkin)
      BY BlankOk
    <3> HIDE DEF blank
    <3>3. QED
      BY <3>1, <3>2
  <2>3. CASE Gate!StartShift(k)
    <3> DEFINE s == [kiosk[k] EXCEPT !.shift = TRUE]
    <3>1. kiosk' = [kiosk EXCEPT ![k] = s]
      BY <2>3 DEF Gate!StartShift
    <3>2. KioskOk(kiosk[k], k, calls, checkin) /\ kiosk[k] \in GateScreen
      BY KioskAt
    <3>3. /\ s \in GateScreen /\ s.card = kiosk[k].card /\ s.found = kiosk[k].found /\ s.key = kiosk[k].key
          /\ s.phase = kiosk[k].phase /\ s.waiting = kiosk[k].waiting /\ s.outcome = kiosk[k].outcome
      BY <3>2 DEF GateScreen
    <3> HIDE DEF s
    <3>4. KioskOk(s, k, calls, checkin)
      BY <3>2, <3>3 DEF KioskOk
    <3>5. QED
      BY <3>1, <3>4
  <2>4. QED
    BY <2>1, <2>2, <2>3
<1>3. KiosksOk'
  BY <1>1, <1>2, ScreenMoves
<1>4. LookupsOk' /\ appt \in [Truck -> Dock \cup {None}]
  BY <1>1 DEF GateInv, LookupsOk, Visits
<1>5. QED
  BY <1>1, <1>3, <1>4, ScreensKeep

LEMMA RebookKeeps == ASSUME GateInv, NEW t \in Truck, Gate!Rebook(t) PROVE GateInv'
<1>1. UNCHANGED <<kiosk, lookups, calls, checkin, log, raced>>
  BY DEF Gate!Rebook, Gate!screens, Gate!yard
<1>2. appt' \in [Truck -> Dock \cup {None}]
  BY DEF Gate!Rebook, GateInv, Visits
<1>3. KiosksOk' /\ LookupsOk'
  BY <1>1 DEF GateInv, KiosksOk, LookupsOk
<1>4. QED
  BY <1>1, <1>2, <1>3, ScreensKeep

\* One tap's call goes further.
LEMMA CallMoves ==
    ASSUME GateInv, NEW i \in DOMAIN calls, NEW r \in GateCall, calls' = [calls EXCEPT ![i] = r],
           r.kiosk = calls[i].kiosk, r.card = calls[i].card, r.key = calls[i].key,
           calls[i].server = "done" => r.server = "done"
    PROVE  /\ TapsGrow /\ KeysAgree' /\ DOMAIN calls' = DOMAIN calls /\ Len(calls') = Len(calls)
           /\ \A j \in DOMAIN calls : calls'[j] = IF j = i THEN r ELSE calls[j]
<1>1. calls \in Seq(GateCall) /\ Len(calls) \in Nat
  BY TapDomain
<1>2. /\ calls' \in Seq(GateCall) /\ DOMAIN calls' = DOMAIN calls /\ Len(calls') = Len(calls)
      /\ \A j \in DOMAIN calls : calls'[j] = IF j = i THEN r ELSE calls[j]
  BY <1>1
<1>3. TapsGrow
  BY <1>1, <1>2 DEF TapsGrow
<1>4. KeysAgree'
  BY <1>2 DEF GateInv, KeysAgree
<1>5. QED
  BY <1>2, <1>3, <1>4

LEMMA TapAt ==
    ASSUME GateInv, NEW i \in DOMAIN calls
    PROVE  /\ calls[i] \in GateCall /\ calls[i].kiosk \in Kiosk
           /\ calls[i].card \in GateCard /\ calls[i].card.truck \in Truck
           /\ TapOk(calls[i], Len(calls), checkin)
<1>1. calls[i] \in GateCall
  BY TapDomain
<1>2. TapOk(calls[i], Len(calls), checkin)
  BY DEF GateInv, TapsOk
<1>3. QED
  BY <1>1, <1>2 DEF GateCall, GateCard

\* The kiosk's side of a call ends: what the server did of it stands.
LEMMA CallEnds ==
    ASSUME GateInv, NEW i \in DOMAIN calls, NEW r \in GateCall, calls' = [calls EXCEPT ![i] = r],
           r.kiosk = calls[i].kiosk, r.card = calls[i].card, r.key = calls[i].key,
           r.result = calls[i].result,
           r.server = calls[i].server \/ (calls[i].server = "asked" /\ r.server = "lost"),
           UNCHANGED <<checkin, log, raced, appt, lookups>>, KiosksOk'
    PROVE  GateInv'
<1>1. /\ TapsGrow /\ KeysAgree' /\ DOMAIN calls' = DOMAIN calls /\ Len(calls') = Len(calls)
      /\ \A j \in DOMAIN calls : calls'[j] = IF j = i THEN r ELSE calls[j]
  BY CallMoves
<1>2. TapOk(r, Len(calls), checkin)
  BY TapAt DEF TapOk
<1>3. TapsOk'
  BY <1>1, <1>2 DEF TapsGrow, GateInv, TapsOk
<1>4. OneLockIn' /\ SeenFree'
  BY <1>1 DEF GateInv, OneLockIn, SeenFree
<1>5. Visits' /\ LookupsOk' /\ Gate!DockSharedOnlyInARace'
  BY DEF GateInv, Visits, LookupsOk, Gate!DockSharedOnlyInARace
<1>6. QED
  BY <1>1, <1>3, <1>4, <1>5 DEF GateInv

LEMMA CallFailsKeeps ==
    ASSUME GateInv, NEW i \in DOMAIN calls, Gate!CallFails(i)
    PROVE  GateInv'
<1> DEFINE k == calls[i].kiosk
           s == [kiosk[k] EXCEPT !.waiting = 0, !.failed = TRUE]
<1> HIDE DEF s
<1>1. PICK server \in {calls[i].server, IF calls[i].server = "asked" THEN "lost" ELSE calls[i].server} :
         calls' = [calls EXCEPT ![i].client = "closed", ![i].server = server]
  BY DEF Gate!CallFails
<1> DEFINE r == [calls[i] EXCEPT !.client = "closed", !.server = server]
<1>2. /\ UNCHANGED <<checkin, log, raced, appt, lookups>>
      /\ kiosk' = IF kiosk[k].waiting = i
                  THEN [kiosk EXCEPT ![k].waiting = 0, ![k].failed = TRUE] ELSE kiosk
  BY DEF Gate!CallFails, Gate!yard
<1>3. k \in Kiosk /\ calls[i] \in GateCall
  BY TapAt
<1>4. /\ r \in GateCall /\ r.kiosk = calls[i].kiosk /\ r.card = calls[i].card /\ r.key = calls[i].key
      /\ r.result = calls[i].result /\ r.server = server /\ server \in {"asked", "lost", "locked", "done"}
  BY <1>1, <1>3 DEF GateCall
<1>5. calls' = [calls EXCEPT ![i] = r]
  BY <1>1, <1>3 DEF GateCall
<1> HIDE DEF r
<1>6. r.server = calls[i].server \/ (calls[i].server = "asked" /\ r.server = "lost")
  BY <1>1, <1>4
<1>7. /\ TapsGrow /\ KeysAgree' /\ DOMAIN calls' = DOMAIN calls /\ Len(calls') = Len(calls)
      /\ \A j \in DOMAIN calls : calls'[j] = IF j = i THEN r ELSE calls[j]
  BY <1>4, <1>5, <1>6, CallMoves
<1>8. RowsGrow
  BY <1>2 DEF RowsGrow
<1>9. ASSUME NEW m \in Kiosk, m # k \/ kiosk[m].waiting # i
      PROVE  KioskOk(kiosk[m], m, calls', checkin')
  <2>1. KioskOk(kiosk[m], m, calls, checkin)
    BY KioskAt
  <2>2. kiosk[m].waiting # i
    BY <1>9, <2>1, TapDomain DEF KioskOk
  <2>3. kiosk[m].waiting # 0 => calls'[kiosk[m].waiting].client = "open"
    BY <1>7, <2>1, <2>2 DEF KioskOk
  <2>4. QED
    BY <1>7, <1>8, <2>1, <2>3, KioskStays
<1>10. KiosksOk'
  <2>1. CASE kiosk[k].waiting = i
    <3>1. KioskOk(kiosk[k], k, calls, checkin) /\ kiosk[k] \in GateScreen
      BY <1>3, KioskAt
    <3>2. /\ s \in GateScreen /\ s.card = kiosk[k].card /\ s.found = kiosk[k].found /\ s.key = kiosk[k].key
          /\ s.phase = kiosk[k].phase /\ s.waiting = 0 /\ s.outcome = kiosk[k].outcome
      BY <3>1 DEF s, GateScreen
    <3>3. kiosk' = [kiosk EXCEPT ![k] = s]
      BY <1>2, <1>3, <2>1, <3>1 DEF s, GateScreen, GateInv, KiosksOk
    <3>4. KioskOk(s, k, calls, checkin)
      BY <3>1, <3>2 DEF KioskOk
    <3>5. KioskOk(s, k, calls', checkin')
      BY <1>7, <1>8, <3>2, <3>4, KioskStays
    <3>6. QED
      BY <1>3, <1>9, <3>3, <3>5, KioskMoves
  <2>2. CASE kiosk[k].waiting # i
    <3>1. UNCHANGED kiosk
      BY <1>2, <2>2
    <3>2. \A m \in Kiosk : KioskOk(kiosk[m], m, calls', checkin')
      BY <1>9, <2>2
    <3>3. QED
      BY <3>1, <3>2 DEF GateInv, KiosksOk
  <2>3. QED
    BY <2>1, <2>2
<1>11. QED
  BY <1>2, <1>4, <1>5, <1>6, <1>10, CallEnds

LEMMA OutcomeKeeps ==
    ASSUME GateInv, NEW i \in DOMAIN calls, Gate!OutcomeLands(i)
    PROVE  GateInv'
<1> DEFINE k == calls[i].kiosk
           r == [calls[i] EXCEPT !.client = "closed"]
           s == [Gate!Screen("outcome", calls[i].card) EXCEPT !.shift = kiosk[k].shift, !.outcome = i]
<1> HIDE DEF k, r, s
<1>1. /\ UNCHANGED <<checkin, log, raced, appt, lookups>>
      /\ calls' = [calls EXCEPT ![i].client = "closed"]
      /\ kiosk' = [kiosk EXCEPT ![k] = s]
      /\ calls[i].server = "done"
  <2>1. kiosk' = [kiosk EXCEPT ![k] = s]
    BY DEF Gate!OutcomeLands, k, s
  <2>2. QED
    BY <2>1 DEF Gate!OutcomeLands, Gate!yard
<1>2. k \in Kiosk /\ calls[i] \in GateCall /\ calls[i].card \in GateCard /\ i \in Nat
  BY TapAt, TapDomain DEF k
<1>3. /\ r \in GateCall /\ r.kiosk = calls[i].kiosk /\ r.card = calls[i].card /\ r.key = calls[i].key
      /\ r.result = calls[i].result /\ r.server = calls[i].server
      /\ calls' = [calls EXCEPT ![i] = r]
  BY <1>1, <1>2 DEF r, GateCall
<1>4. /\ TapsGrow /\ KeysAgree' /\ DOMAIN calls' = DOMAIN calls /\ Len(calls') = Len(calls)
      /\ \A j \in DOMAIN calls : calls'[j] = IF j = i THEN r ELSE calls[j]
  BY <1>3, CallMoves
<1>5. RowsGrow
  BY <1>1 DEF RowsGrow
<1>6. ASSUME NEW m \in Kiosk \ {k}
      PROVE  KioskOk(kiosk[m], m, calls', checkin')
  <2>1. KioskOk(kiosk[m], m, calls, checkin)
    BY KioskAt
  <2>2. kiosk[m].waiting # i
    BY <1>6, <2>1, TapDomain DEF k, KioskOk
  <2>3. kiosk[m].waiting # 0 => calls'[kiosk[m].waiting].client = "open"
    BY <1>4, <2>1, <2>2 DEF KioskOk
  <2>4. QED
    BY <1>4, <1>5, <2>1, <2>3, KioskStays
<1>7. KioskOk(s, k, calls', checkin')
  <2>1. /\ s \in GateScreen /\ s.phase = "outcome" /\ s.card = calls[i].card /\ s.found = {}
        /\ s.key = 0 /\ s.waiting = 0 /\ s.outcome = i
    <3>1. kiosk[k].shift \in BOOLEAN
      BY <1>2, KioskAt DEF GateScreen
    <3> DEFINE b == Gate!Screen("outcome", calls[i].card)
    <3>2. /\ b \in GateScreen /\ b.phase = "outcome" /\ b.card = calls[i].card /\ b.found = {}
          /\ b.key = 0 /\ b.waiting = 0
      BY <1>2 DEF Gate!Screen, GateScreen
    <3> HIDE DEF b
    <3>3. s = [b EXCEPT !.shift = kiosk[k].shift, !.outcome = i]
      BY DEF b, s
    <3>4. QED
      BY <1>2, <3>1, <3>2, <3>3 DEF GateScreen
  <2>2. i \in DOMAIN calls' /\ calls'[i].server = "done" /\ SameTap(calls'[i].card, calls[i].card)
    BY <1>1, <1>3, <1>4 DEF SameTap
  <2>3. QED
    BY <1>2, <2>1, <2>2 DEF KioskOk
<1>8. KiosksOk'
  BY <1>1, <1>2, <1>6, <1>7, KioskMoves
<1>9. QED
  BY <1>1, <1>3, <1>8, CallEnds

\* A tap on the action: its call has the kiosk's key, or a fresh one.
LEMMA TapKeeps == ASSUME GateInv, NEW k \in Kiosk, Gate!Tap(k) PROVE GateInv'
<1> DEFINE s == kiosk[k]
           n == Len(calls) + 1
           key == IF s.key = 0 THEN n ELSE s.key
           c == [kiosk |-> k, card |-> s.card, key |-> key, client |-> "open", server |-> "asked",
                 result |-> None]
           called == [s EXCEPT !.key = key, !.waiting = n, !.failed = FALSE]
           thrown == [s EXCEPT !.failed = TRUE]
<1>1. KioskOk(s, k, calls, checkin) /\ s \in GateScreen /\ calls \in Seq(GateCall) /\ Len(calls) \in Nat
  BY KioskAt, TapDomain
<1>2. /\ UNCHANGED <<lookups, checkin, log, raced, appt>>
      /\ s.phase = "truck" /\ s.card.next # None
      /\ \/ /\ kiosk' = [kiosk EXCEPT ![k].failed = TRUE] /\ UNCHANGED calls
         \/ /\ ~ Gate!Throws(s.card)
            /\ kiosk' = [kiosk EXCEPT ![k].key = key, ![k].waiting = n, ![k].failed = FALSE]
            /\ calls' = Append(calls, c)
  BY DEF Gate!Tap, Gate!CanTap, Gate!yard
<1>3. CASE kiosk' = [kiosk EXCEPT ![k].failed = TRUE] /\ UNCHANGED calls
  <2>1. kiosk' = [kiosk EXCEPT ![k] = thrown]
    BY <1>1, <1>3 DEF GateInv, KiosksOk, GateScreen
  <2>2. /\ thrown \in GateScreen /\ thrown.card = s.card /\ thrown.found = s.found
        /\ thrown.key = s.key /\ thrown.phase = s.phase /\ thrown.waiting = s.waiting
        /\ thrown.outcome = s.outcome
    BY <1>1 DEF GateScreen
  <2> HIDE DEF thrown, s
  <2>3. KioskOk(thrown, k, calls, checkin)
    BY <1>1, <2>2 DEF KioskOk
  <2>4. KiosksOk'
    BY <1>2, <1>3, <2>1, <2>3, ScreenMoves
  <2>5. LookupsOk' /\ appt \in [Truck -> Dock \cup {None}]
    BY <1>2 DEF GateInv, LookupsOk, Visits
  <2>6. QED
    BY <1>2, <1>3, <2>4, <2>5, ScreensKeep
<1>4. CASE /\ ~ Gate!Throws(s.card)
           /\ kiosk' = [kiosk EXCEPT ![k].key = key, ![k].waiting = n, ![k].failed = FALSE]
           /\ calls' = Append(calls, c)
  <2>1. s.card \in GateCard /\ CardOk(s.card, checkin)
    BY <1>1, <1>2 DEF KioskOk, CardOk
  <2>2. key \in 1 .. n /\ (key = n \/ (key = s.key /\ s.key # 0 /\ s.key \in DOMAIN calls))
    BY <1>1 DEF KioskOk
  <2>3. /\ c \in GateCall /\ c.kiosk = k /\ c.card = s.card /\ c.key = key
        /\ c.client = "open" /\ c.server = "asked"
    BY <2>1, <2>2 DEF GateCall
  <2>4. kiosk' = [kiosk EXCEPT ![k] = called]
    BY <1>1, <1>4 DEF GateInv, KiosksOk, GateScreen
  <2>5. /\ called \in GateScreen /\ called.card = s.card /\ called.found = s.found
        /\ called.key = key /\ called.phase = s.phase /\ called.waiting = n
        /\ called.outcome = s.outcome
    <3>1. key \in Nat /\ n \in Nat
      BY <1>1, <2>2
    <3> HIDE DEF n, key, c, s
    <3>2. QED
      BY <1>1, <3>1 DEF GateScreen
  <2> HIDE DEF called, c, key
  <2>6. /\ calls' \in Seq(GateCall) /\ DOMAIN calls' = 1 .. n /\ Len(calls') = n
        /\ DOMAIN calls = 1 .. Len(calls) /\ calls'[n] = c
        /\ \A i \in DOMAIN calls : calls'[i] = calls[i]
    BY <1>1, <1>4, <2>3
  <2>7. TapsGrow /\ RowsGrow
    BY <1>1, <1>2, <2>6 DEF TapsGrow, RowsGrow
  <2>8. ASSUME NEW m, NEW r, KioskOk(r, m, calls, checkin)
        PROVE  KioskOk(r, m, calls', checkin')
    <3>1. r.waiting # 0 => calls'[r.waiting].client = "open"
      BY <2>6, <2>8 DEF KioskOk
    <3>2. QED
      BY <2>7, <2>8, <3>1, KioskStays
  <2>9. KioskOk(called, k, calls', checkin')
    <3>1. KioskOk(s, k, calls', checkin')
      BY <1>1, <2>8
    <3>2. key # 0 /\ key \in DOMAIN calls' /\ calls'[key].key = key /\ SameTap(calls'[key].card, s.card)
      <4>1. CASE key = n
        BY <1>1, <2>3, <2>6, <4>1 DEF SameTap
      <4>2. CASE key = s.key /\ s.key # 0 /\ s.key \in DOMAIN calls
        BY <2>6, <3>1, <4>2 DEF KioskOk
      <4>3. QED
        BY <2>2, <4>1, <4>2
    <3>3. n \in DOMAIN calls' /\ calls'[n].client = "open" /\ calls'[n].kiosk = k
      BY <1>1, <2>3, <2>6
    <3> HIDE DEF n
    <3>4. QED
      BY <1>2, <2>5, <3>1, <3>2, <3>3 DEF KioskOk
  <2>10. KiosksOk'
    BY <2>4, <2>8, <2>9, KioskAt, KioskMoves
  <2>11. TapsOk'
    <3>1. SUFFICES ASSUME NEW i \in DOMAIN calls'
                   PROVE  TapOk(calls'[i], n, checkin')
      BY <2>6 DEF TapsOk
    <3>2. CASE i = n
      <4>1. s.card.next = "DOCK_IN" => s.card.dock \in Dock
        BY <1>4, <2>1 DEF Gate!Throws, GateCard
      <4>2. TapOk(c, n, checkin)
        BY <1>2, <2>1, <2>2, <2>3, <4>1 DEF TapOk
      <4>3. QED
        BY <1>2, <2>6, <3>2, <4>2
    <3>3. CASE i \in DOMAIN calls
      <4>1. calls[i] \in GateCall /\ TapOk(calls[i], Len(calls), checkin)
        BY <3>3, TapAt
      <4>2. n \in Nat /\ Len(calls) <= n /\ calls'[i] = calls[i]
        BY <1>1, <2>6, <3>3
      <4>3. QED
        BY <1>1, <1>2, <2>7, <4>1, <4>2, TapStays
    <3>4. QED
      BY <1>1, <2>6, <3>2, <3>3
  <2>12. KeysAgree'
    <3>1. \A i, j \in DOMAIN calls : calls[i].key = calls[j].key => SameTap(calls[i].card, calls[j].card)
      BY DEF GateInv, KeysAgree
    <3>2. ASSUME NEW i \in DOMAIN calls, calls[i].key = key PROVE SameTap(calls[i].card, c.card)
      <4>1. key # n
        BY <1>1, <3>2, TapAt DEF TapOk
      <4>2. key = s.key /\ s.key \in DOMAIN calls /\ calls[s.key].key = s.key
            /\ SameTap(calls[s.key].card, s.card)
        BY <1>1, <2>2, <4>1 DEF KioskOk
      <4>3. QED
        BY <2>3, <3>1, <3>2, <4>2 DEF SameTap
    <3>3. SUFFICES ASSUME NEW i \in DOMAIN calls', NEW j \in DOMAIN calls', calls'[i].key = calls'[j].key
                   PROVE  SameTap(calls'[i].card, calls'[j].card)
      BY DEF KeysAgree
    <3>4. CASE i \in DOMAIN calls /\ j \in DOMAIN calls
      BY <2>6, <3>1, <3>3, <3>4
    <3>5. CASE i = n /\ j = n
      BY <3>5 DEF SameTap
    <3>6. CASE i \in DOMAIN calls /\ j = n
      BY <2>3, <2>6, <3>2, <3>3, <3>6
    <3>7. CASE i = n /\ j \in DOMAIN calls
      BY <2>3, <2>6, <3>2, <3>3, <3>7 DEF SameTap
    <3>8. QED
      BY <1>1, <2>6, <3>4, <3>5, <3>6, <3>7
  <2>13. ASSUME NEW i \in DOMAIN calls', calls'[i].server = "locked"
         PROVE  i \in DOMAIN calls /\ calls'[i] = calls[i]
    BY <1>1, <2>3, <2>6, <2>13
  <2>14. OneLockIn' /\ SeenFree'
    BY <1>2, <2>13 DEF GateInv, OneLockIn, SeenFree
  <2>15. Visits' /\ LookupsOk' /\ Gate!DockSharedOnlyInARace'
    BY <1>2 DEF GateInv, Visits, LookupsOk, Gate!DockSharedOnlyInARace
  <2>16. QED
    BY <2>10, <2>11, <2>12, <2>14, <2>15 DEF GateInv
<1>5. QED
  BY <1>2, <1>3, <1>4

\* A tool's step on a truck's row, which no other call has locked.
LEMMA ToolKeeps ==
    ASSUME GateInv, NEW i \in DOMAIN calls, NEW r \in GateCall, calls' = [calls EXCEPT ![i] = r],
           r.kiosk = calls[i].kiosk, r.card = calls[i].card, r.key = calls[i].key,
           r.client = calls[i].client, calls[i].server # "done",
           UNCHANGED <<kiosk, lookups>>, RowsGrow, Visits', TapOk(r, Len(calls), checkin'),
           \A j \in DOMAIN calls \ {i} : calls[j].server = "locked" =>
               checkin'[calls[j].card.truck].queue = checkin[calls[j].card.truck].queue,
           r.server = "locked" => \A j \in DOMAIN calls \ {i} : calls[j].server = "locked" =>
                                      calls[j].card.truck # r.card.truck,
           SeenFree', Gate!DockSharedOnlyInARace'
    PROVE  GateInv'
<1>1. /\ TapsGrow /\ KeysAgree' /\ DOMAIN calls' = DOMAIN calls /\ Len(calls') = Len(calls)
      /\ \A j \in DOMAIN calls : calls'[j] = IF j = i THEN r ELSE calls[j]
  BY CallMoves
<1>2. TapsOk'
  <2>1. SUFFICES ASSUME NEW j \in DOMAIN calls PROVE TapOk(calls'[j], Len(calls), checkin')
    BY <1>1 DEF TapsOk, TapsGrow
  <2>2. CASE j = i
    BY <1>1, <2>2
  <2>3. CASE j # i
    <3>1. calls[j] \in GateCall /\ TapOk(calls[j], Len(calls), checkin) /\ Len(calls) \in Nat
      BY TapAt, TapDomain
    <3>2. TapOk(calls[j], Len(calls), checkin')
      BY <2>3, <3>1, TapStays
    <3>3. QED
      BY <1>1, <2>3, <3>2
  <2>4. QED
    BY <2>2, <2>3
<1>3. OneLockIn'
  BY <1>1 DEF GateInv, OneLockIn
<1>4. KiosksOk'
  <2>1. \A j \in DOMAIN calls : calls'[j].client = calls[j].client
    BY <1>1
  <2>2. ASSUME NEW k \in Kiosk PROVE KioskOk(kiosk[k], k, calls', checkin')
    <3>1. KioskOk(kiosk[k], k, calls, checkin)
      BY KioskAt
    <3>2. kiosk[k].waiting # 0 => calls'[kiosk[k].waiting].client = "open"
      BY <2>1, <3>1 DEF KioskOk
    <3>3. QED
      BY <1>1, <3>1, <3>2, KioskStays
  <2>3. QED
    BY <2>2 DEF GateInv, KiosksOk
<1>5. LookupsOk'
  BY LookupsStay
<1>6. QED
  BY <1>1, <1>2, <1>3, <1>4, <1>5 DEF GateInv

\* The call is answered.
LEMMA Answered ==
    ASSUME GateInv, NEW i \in DOMAIN calls, NEW code \in GateCode, Gate!Answer(i, code)
    PROVE  \E r \in GateCall :
               /\ calls' = [calls EXCEPT ![i] = r]
               /\ r.kiosk = calls[i].kiosk /\ r.card = calls[i].card /\ r.key = calls[i].key
               /\ r.client = calls[i].client /\ r.server = "done" /\ r.result = code
<1> DEFINE r == [calls[i] EXCEPT !.server = "done", !.result = code]
<1>1. calls[i] \in GateCall /\ calls \in Seq(GateCall)
  BY TapDomain
<1>2. /\ r \in GateCall /\ calls' = [calls EXCEPT ![i] = r]
      /\ r.kiosk = calls[i].kiosk /\ r.card = calls[i].card /\ r.key = calls[i].key
      /\ r.client = calls[i].client /\ r.server = "done" /\ r.result = code
  BY <1>1 DEF Gate!Answer, GateCall
<1> HIDE DEF r
<1>3. QED
  BY <1>2

\* An answered call says what is on record.
LEMMA AnsweredOk ==
    ASSUME GateInv, NEW i \in DOMAIN calls, NEW r \in GateCall, RowsGrow,
           r.card = calls[i].card, r.key = calls[i].key,
           r.server = "done", r.result \in GateCode, OnRecord(r.result, checkin'[calls[i].card.truck])
    PROVE  TapOk(r, Len(calls), checkin')
<1>1. TapOk(calls[i], Len(calls), checkin)
  BY TapAt
<1>2. CardOk(calls[i].card, checkin')
  BY <1>1, CardStays DEF TapOk
<1>3. QED
  BY <1>1, <1>2 DEF TapOk

LEMMA RefusedKeeps ==
    ASSUME GateInv, NEW i \in DOMAIN calls, calls[i].server # "done", NEW code \in GateCode,
           Gate!Refused(i, code), OnRecord(code, checkin[calls[i].card.truck]),
           UNCHANGED <<kiosk, lookups, appt>>
    PROVE  GateInv'
<1>1. UNCHANGED <<checkin, log, raced>> /\ Gate!Answer(i, code)
  BY DEF Gate!Refused, Gate!yard
<1>2. PICK r \in GateCall :
         /\ calls' = [calls EXCEPT ![i] = r]
         /\ r.kiosk = calls[i].kiosk /\ r.card = calls[i].card /\ r.key = calls[i].key
         /\ r.client = calls[i].client /\ r.server = "done" /\ r.result = code
  BY <1>1, Answered
<1>3. RowsGrow /\ Visits' /\ Gate!DockSharedOnlyInARace'
  BY <1>1 DEF RowsGrow, GateInv, Visits, Gate!DockSharedOnlyInARace
<1>4. TapOk(r, Len(calls), checkin')
  BY <1>1, <1>2, <1>3, AnsweredOk
<1>5. \A j \in DOMAIN calls : calls'[j] = IF j = i THEN r ELSE calls[j]
  BY <1>2, CallMoves
<1>6. SeenFree'
  BY <1>1, <1>2, <1>5, CallMoves DEF GateInv, SeenFree
<1>7. QED
  BY <1>1, <1>2, <1>3, <1>4, <1>6, ToolKeeps

\* A truck's row and its events are written, nobody else's.
LEMMA Written ==
    ASSUME GateInv, NEW t \in Truck, NEW row \in GateRow, NEW added, Gate!Write(t, row, added),
           VisitAt(row, log[t] \o added), UNCHANGED appt,
           checkin[t].gated => row.gated, checkin[t].dock # None => row.dock # None,
           checkin[t].ended => row.ended, checkin[t].out => row.out
    PROVE  /\ Visits' /\ RowsGrow
           /\ \A u \in Truck : checkin'[u] = IF u = t THEN row ELSE checkin[u]
<1>1. checkin \in [Truck -> GateRow] /\ log = [u \in Truck |-> log[u]]
  BY DEF GateInv, Visits
<1>2. /\ checkin' \in [Truck -> GateRow] /\ log' = [u \in Truck |-> log'[u]]
      /\ \A u \in Truck : checkin'[u] = IF u = t THEN row ELSE checkin[u]
      /\ \A u \in Truck : log'[u] = IF u = t THEN log[t] \o added ELSE log[u]
  BY <1>1 DEF Gate!Write
<1>3. Visits'
  BY <1>2 DEF GateInv, Visits
<1>4. RowsGrow
  BY <1>2 DEF RowsGrow
<1>5. QED
  BY <1>2, <1>3, <1>4

LEMMA WriteKeeps ==
    ASSUME GateInv, NEW i \in DOMAIN calls, calls[i].server # "done",
           NEW t, t = calls[i].card.truck, NEW row \in GateRow, NEW added,
           Gate!Write(t, row, added), VisitAt(row, log[t] \o added),
           row.dock = checkin[t].dock, checkin[t].gated => row.gated,
           checkin[t].ended => row.ended, checkin[t].out => row.out,
           \A j \in DOMAIN calls \ {i} : calls[j].server = "locked" => calls[j].card.truck # t,
           NEW code \in GateCode, Gate!Answer(i, code), OnRecord(code, row),
           UNCHANGED <<kiosk, lookups, appt, raced>>
    PROVE  GateInv'
<1>1. t \in Truck
  BY TapAt
<1>2. /\ Visits' /\ RowsGrow
      /\ \A u \in Truck : checkin'[u] = IF u = t THEN row ELSE checkin[u]
  BY <1>1, Written
<1>3. PICK r \in GateCall :
         /\ calls' = [calls EXCEPT ![i] = r]
         /\ r.kiosk = calls[i].kiosk /\ r.card = calls[i].card /\ r.key = calls[i].key
         /\ r.client = calls[i].client /\ r.server = "done" /\ r.result = code
  BY Answered
<1>4. TapOk(r, Len(calls), checkin')
  BY <1>1, <1>2, <1>3, AnsweredOk
<1>5. \A u \in Truck : \A d : Gate!InDock(checkin'[u], d) => Gate!InDock(checkin[u], d)
  BY <1>1, <1>2 DEF Gate!InDock, GateInv, Visits, GateRow
<1>6. Gate!DockSharedOnlyInARace'
  BY <1>5 DEF GateInv, Gate!DockSharedOnlyInARace
<1>7. DOMAIN calls' = DOMAIN calls /\ \A j \in DOMAIN calls : calls'[j] = IF j = i THEN r ELSE calls[j]
  BY <1>3, CallMoves
<1>8. SeenFree'
  BY <1>3, <1>5, <1>7 DEF GateInv, SeenFree
<1>9. \A j \in DOMAIN calls \ {i} : calls[j].server = "locked" =>
          checkin'[calls[j].card.truck].queue = checkin[calls[j].card.truck].queue
  BY <1>2, TapAt
<1>10. QED
  BY <1>2, <1>3, <1>4, <1>6, <1>8, <1>9, ToolKeeps

LEMMA StepsAre ==
    /\ Len(Gate!Steps) = 5 /\ Gate!Steps \in Seq(GateEvent)
    /\ Gate!Steps[1] = "GATE_IN" /\ Gate!Steps[2] = "DOCK_IN" /\ Gate!Steps[3] = "UNLOAD_START"
    /\ Gate!Steps[4] = "UNLOAD_END" /\ Gate!Steps[5] = "GATE_OUT"
BY DEF Gate!Steps, GateEvent

LEMMA OneMore ==
    ASSUME NEW l, NEW n \in 0 .. 4, LogHas(l, n), NEW e \in GateEvent, e = Gate!Steps[n + 1]
    PROVE  LogHas(l \o <<e>>, n + 1)
<1>1. l \in Seq(GateEvent) /\ Len(l) = n /\ \A i \in 1 .. n : l[i] = Gate!Steps[i]
  BY DEF LogHas
<1>2. <<e>> \in Seq(GateEvent) /\ Len(<<e>>) = 1 /\ <<e>>[1] = e
  OBVIOUS
<1>3. /\ l \o <<e>> \in Seq(GateEvent) /\ Len(l \o <<e>>) = n + 1
      /\ \A i \in 1 .. n + 1 : (l \o <<e>>)[i] = IF i <= n THEN l[i] ELSE <<e>>[i - n]
  BY <1>1, <1>2, ConcatProperties
<1>4. \A i \in 1 .. n + 1 : (l \o <<e>>)[i] = Gate!Steps[i]
  <2>1. TAKE i \in 1 .. n + 1
  <2>2. CASE i <= n
    BY <1>1, <1>3, <2>2
  <2>3. CASE i = n + 1
    <3>1. ~ (i <= n) /\ i - n = 1
      BY <2>3
    <3>2. (l \o <<e>>)[i] = <<e>>[1]
      BY <1>3, <3>1
    <3>3. QED
      BY <1>2, <2>3, <3>2
  <2>4. i <= n \/ i = n + 1
    OBVIOUS
  <2>5. QED
    BY <2>2, <2>3, <2>4
<1>5. QED
  BY <1>3, <1>4 DEF LogHas

\* The log with the event a tool records.
LEMMA VisitGoesOn ==
    ASSUME NEW r \in GateRow, NEW l, VisitAt(r, l)
    PROVE  /\ l \o << >> = l
           /\ ~ r.gated => LogHas(l \o <<"GATE_IN">>, 1)
           /\ r.queue = "CALLED_TO_DOCK" => LogHas(l \o <<"DOCK_IN">>, 2)
           /\ r.queue = "IN_DOCK" /\ ~ r.started => LogHas(l \o <<"UNLOAD_START">>, 3)
           /\ r.started /\ ~ r.ended => LogHas(l \o <<"UNLOAD_END">>, 4)
           /\ r.ended /\ ~ r.out => LogHas(l \o <<"GATE_OUT">>, 5)
<1>1. l \in Seq(GateEvent)
  BY DEF VisitAt, LogHas
<1>2. l \o << >> = l
  BY <1>1, ConcatEmptySeq
<1>3. \A n \in 0 .. 4 : \A e \in GateEvent :
          LogHas(l, n) /\ e = Gate!Steps[n + 1] => LogHas(l \o <<e>>, n + 1)
  BY OneMore
<1>4. /\ LogHas(l, 0) => LogHas(l \o <<"GATE_IN">>, 1)
      /\ LogHas(l, 1) => LogHas(l \o <<"DOCK_IN">>, 2)
      /\ LogHas(l, 2) => LogHas(l \o <<"UNLOAD_START">>, 3)
      /\ LogHas(l, 3) => LogHas(l \o <<"UNLOAD_END">>, 4)
      /\ LogHas(l, 4) => LogHas(l \o <<"GATE_OUT">>, 5)
  <2>1. LogHas(l, 0) => LogHas(l \o <<"GATE_IN">>, 0 + 1)
    BY <1>3, StepsAre DEF GateEvent
  <2>2. LogHas(l, 1) => LogHas(l \o <<"DOCK_IN">>, 1 + 1)
    BY <1>3, StepsAre DEF GateEvent
  <2>3. LogHas(l, 2) => LogHas(l \o <<"UNLOAD_START">>, 2 + 1)
    BY <1>3, StepsAre DEF GateEvent
  <2>4. LogHas(l, 3) => LogHas(l \o <<"UNLOAD_END">>, 3 + 1)
    BY <1>3, StepsAre DEF GateEvent
  <2>5. LogHas(l, 4) => LogHas(l \o <<"GATE_OUT">>, 4 + 1)
    BY <1>3, StepsAre DEF GateEvent
  <2>6. 0 + 1 = 1 /\ 1 + 1 = 2 /\ 2 + 1 = 3 /\ 3 + 1 = 4 /\ 4 + 1 = 5
    OBVIOUS
  <2>7. QED
    BY <2>1, <2>2, <2>3, <2>4, <2>5, <2>6
<1>5. /\ ~ r.gated => LogHas(l, 0)
      /\ r.queue = "CALLED_TO_DOCK" => LogHas(l, 1)
      /\ r.queue = "IN_DOCK" /\ ~ r.started => LogHas(l, 2)
      /\ r.started /\ ~ r.ended => LogHas(l, 3)
      /\ r.ended /\ ~ r.out => LogHas(l, 4)
  BY DEF VisitAt, GateRow
<1>6. QED
  BY <1>2, <1>4, <1>5

LEMMA TruckAt ==
    ASSUME GateInv, NEW t \in Truck
    PROVE  checkin[t] \in GateRow /\ VisitAt(checkin[t], log[t])
BY DEF GateInv, Visits

LEMMA GateInKeeps ==
    ASSUME GateInv, NEW i \in DOMAIN calls, Gate!RecordGateIn(i)
    PROVE  GateInv'
<1> DEFINE t == calls[i].card.truck
           r == checkin[t]
           row == [r EXCEPT !.gated = TRUE, !.queue = "WAITING"]
<1>1. /\ UNCHANGED <<kiosk, lookups, appt>> /\ calls[i].server # "done"
      /\ \A j \in DOMAIN calls \ {i} : calls[j].server = "locked" => calls[j].card.truck # t
      /\ \/ \E code \in Gate!Stored(i) : Gate!Refused(i, code)
         \/ Gate!Refused(i, "NO_ACTIVE_APPOINTMENT")
         \/ r.gated /\ Gate!Refused(i, "ALREADY_CHECKED_IN")
         \/ /\ ~ r.gated /\ Gate!Write(t, row, <<"GATE_IN">>)
            /\ Gate!Answer(i, "GATE_IN_RECORDED") /\ UNCHANGED raced
  BY DEF Gate!RecordGateIn, Gate!Asked, Gate!screens
<1>2. t \in Truck /\ r \in GateRow /\ VisitAt(r, log[t])
  BY TapAt, TruckAt
<1> HIDE DEF t, r
<1>3. CASE \E code \in Gate!Stored(i) : Gate!Refused(i, code)
  <2>1. PICK j \in DOMAIN calls :
           calls[j].key = calls[i].key /\ calls[j].server = "done" /\ Gate!Refused(i, calls[j].result)
    BY <1>3 DEF Gate!Stored
  <2>2. SameTap(calls[j].card, calls[i].card)
    BY <2>1 DEF GateInv, KeysAgree
  <2>3. calls[j].result \in GateCode /\ OnRecord(calls[j].result, checkin[calls[i].card.truck])
    BY <2>1, <2>2, TapAt DEF TapOk, SameTap
  <2>4. QED
    BY <1>1, <2>1, <2>3, RefusedKeeps
<1>4. CASE Gate!Refused(i, "NO_ACTIVE_APPOINTMENT")
  <2>1. "NO_ACTIVE_APPOINTMENT" \in GateCode
        /\ OnRecord("NO_ACTIVE_APPOINTMENT", checkin[calls[i].card.truck])
    BY DEF GateCode, OnRecord
  <2>2. QED
    BY <1>1, <1>4, <2>1, RefusedKeeps
<1>5. CASE r.gated /\ Gate!Refused(i, "ALREADY_CHECKED_IN")
  <2>1. "ALREADY_CHECKED_IN" \in GateCode
        /\ OnRecord("ALREADY_CHECKED_IN", checkin[calls[i].card.truck])
    BY <1>5 DEF GateCode, OnRecord, r, t
  <2>2. QED
    BY <1>1, <1>5, <2>1, RefusedKeeps
<1>6. CASE /\ ~ r.gated /\ Gate!Write(t, row, <<"GATE_IN">>)
           /\ Gate!Answer(i, "GATE_IN_RECORDED") /\ UNCHANGED raced
  <2>1. LogHas(log[t] \o <<"GATE_IN">>, 1)
    BY <1>2, <1>6, VisitGoesOn
  <2>2. /\ row \in GateRow /\ row.gated /\ row.queue = "WAITING" /\ row.dock = r.dock
        /\ row.started = r.started /\ row.ended = r.ended /\ row.out = r.out
    BY <1>2 DEF GateRow
  <2> HIDE DEF row
  <2>3. VisitAt(row, log[t] \o <<"GATE_IN">>)
    BY <1>2, <1>6, <2>1, <2>2 DEF VisitAt
  <2>4. "GATE_IN_RECORDED" \in GateCode /\ OnRecord("GATE_IN_RECORDED", row)
    BY <2>2 DEF GateCode, OnRecord
  <2>5. t = calls[i].card.truck /\ r = checkin[t]
    BY DEF t, r
  <2>6. QED
    BY <1>1, <1>2, <1>6, <2>2, <2>3, <2>4, <2>5, WriteKeeps
<1>7. QED
  BY <1>1, <1>3, <1>4, <1>5, <1>6

LEMMA QueueKeeps ==
    ASSUME GateInv, NEW i \in DOMAIN calls, Gate!UpdateQueueState(i)
    PROVE  GateInv'
<1> DEFINE t == calls[i].card.truck
           r == checkin[t]
           row == [r EXCEPT !.queue = "CALLED_TO_DOCK"]
<1>1. /\ UNCHANGED <<kiosk, lookups, appt>> /\ calls[i].server # "done"
      /\ \A j \in DOMAIN calls \ {i} : calls[j].server = "locked" => calls[j].card.truck # t
      /\ \/ /\ r.queue = "WAITING" /\ Gate!Write(t, row, << >>)
            /\ Gate!Answer(i, "QUEUE_UPDATED") /\ UNCHANGED raced
         \/ Gate!Refused(i, "INVALID_TRANSITION")
  BY DEF Gate!UpdateQueueState, Gate!Asked, Gate!screens
<1>2. t \in Truck /\ r \in GateRow /\ VisitAt(r, log[t]) /\ t = calls[i].card.truck /\ r = checkin[t]
  BY TapAt, TruckAt
<1> HIDE DEF t, r
<1>3. CASE Gate!Refused(i, "INVALID_TRANSITION")
  <2>1. "INVALID_TRANSITION" \in GateCode
        /\ OnRecord("INVALID_TRANSITION", checkin[calls[i].card.truck])
    BY DEF GateCode, OnRecord
  <2>2. QED
    BY <1>1, <1>3, <2>1, RefusedKeeps
<1>4. CASE /\ r.queue = "WAITING" /\ Gate!Write(t, row, << >>)
           /\ Gate!Answer(i, "QUEUE_UPDATED") /\ UNCHANGED raced
  <2>1. log[t] \o << >> = log[t]
    BY <1>2, VisitGoesOn
  <2>2. /\ row \in GateRow /\ row.gated = r.gated /\ row.queue = "CALLED_TO_DOCK" /\ row.dock = r.dock
        /\ row.started = r.started /\ row.ended = r.ended /\ row.out = r.out
    BY <1>2 DEF GateRow
  <2> HIDE DEF row
  <2>3. VisitAt(row, log[t] \o << >>)
    BY <1>2, <1>4, <2>1, <2>2 DEF VisitAt
  <2>4. "QUEUE_UPDATED" \in GateCode /\ OnRecord("QUEUE_UPDATED", row)
    BY DEF GateCode, OnRecord
  <2>5. QED
    BY <1>1, <1>2, <1>4, <2>2, <2>3, <2>4, WriteKeeps
<1>5. QED
  BY <1>1, <1>3, <1>4

LEMMA UnloadKeeps ==
    ASSUME GateInv, NEW i \in DOMAIN calls, NEW start \in BOOLEAN, Gate!RecordUnload(i, start)
    PROVE  GateInv'
<1> DEFINE t == calls[i].card.truck
           r == checkin[t]
           begun == [r EXCEPT !.started = TRUE]
           over == [r EXCEPT !.ended = TRUE, !.queue = "COMPLETED"]
<1>1. /\ UNCHANGED <<kiosk, lookups, appt>> /\ calls[i].server # "done"
      /\ \A j \in DOMAIN calls \ {i} : calls[j].server = "locked" => calls[j].card.truck # t
      /\ \/ /\ r.queue = "IN_DOCK" /\ ~ r.started /\ Gate!Write(t, begun, <<"UNLOAD_START">>)
            /\ Gate!Answer(i, "RECORDED") /\ UNCHANGED raced
         \/ /\ r.started /\ ~ r.ended /\ Gate!Write(t, over, <<"UNLOAD_END">>)
            /\ Gate!Answer(i, "RECORDED") /\ UNCHANGED raced
         \/ Gate!Refused(i, "INVALID_TRANSITION")
  BY DEF Gate!RecordUnload, Gate!CanUnload, Gate!Asked, Gate!screens
<1>2. t \in Truck /\ r \in GateRow /\ VisitAt(r, log[t]) /\ t = calls[i].card.truck /\ r = checkin[t]
  BY TapAt, TruckAt
<1> HIDE DEF t, r
<1>3. CASE Gate!Refused(i, "INVALID_TRANSITION")
  <2>1. "INVALID_TRANSITION" \in GateCode
        /\ OnRecord("INVALID_TRANSITION", checkin[calls[i].card.truck])
    BY DEF GateCode, OnRecord
  <2>2. QED
    BY <1>1, <1>3, <2>1, RefusedKeeps
<1>4. CASE /\ r.queue = "IN_DOCK" /\ ~ r.started /\ Gate!Write(t, begun, <<"UNLOAD_START">>)
           /\ Gate!Answer(i, "RECORDED") /\ UNCHANGED raced
  <2>1. LogHas(log[t] \o <<"UNLOAD_START">>, 3)
    BY <1>2, <1>4, VisitGoesOn
  <2>2. /\ begun \in GateRow /\ begun.gated = r.gated /\ begun.queue = r.queue /\ begun.dock = r.dock
        /\ begun.started /\ begun.ended = r.ended /\ begun.out = r.out
    BY <1>2 DEF GateRow
  <2> HIDE DEF begun
  <2>3. VisitAt(begun, log[t] \o <<"UNLOAD_START">>)
    BY <1>2, <1>4, <2>1, <2>2 DEF VisitAt
  <2>4. "RECORDED" \in GateCode /\ OnRecord("RECORDED", begun)
    BY DEF GateCode, OnRecord
  <2>5. QED
    BY <1>1, <1>2, <1>4, <2>2, <2>3, <2>4, WriteKeeps
<1>5. CASE /\ r.started /\ ~ r.ended /\ Gate!Write(t, over, <<"UNLOAD_END">>)
           /\ Gate!Answer(i, "RECORDED") /\ UNCHANGED raced
  <2>1. LogHas(log[t] \o <<"UNLOAD_END">>, 4)
    BY <1>2, <1>5, VisitGoesOn
  <2>2. /\ over \in GateRow /\ over.gated = r.gated /\ over.queue = "COMPLETED" /\ over.dock = r.dock
        /\ over.started = r.started /\ over.ended /\ over.out = r.out
    BY <1>2 DEF GateRow
  <2> HIDE DEF over
  <2>3. VisitAt(over, log[t] \o <<"UNLOAD_END">>)
    BY <1>2, <1>5, <2>1, <2>2 DEF VisitAt
  <2>4. "RECORDED" \in GateCode /\ OnRecord("RECORDED", over)
    BY DEF GateCode, OnRecord
  <2>5. QED
    BY <1>1, <1>2, <1>5, <2>2, <2>3, <2>4, WriteKeeps
<1>6. QED
  BY <1>1, <1>3, <1>4, <1>5

LEMMA GateOutKeeps ==
    ASSUME GateInv, NEW i \in DOMAIN calls, Gate!RecordGateOut(i)
    PROVE  GateInv'
<1> DEFINE t == calls[i].card.truck
           r == checkin[t]
           row == [r EXCEPT !.out = TRUE, !.queue = "COMPLETED"]
<1>1. /\ UNCHANGED <<kiosk, lookups, appt>> /\ calls[i].server # "done"
      /\ calls[i].card.next = "GATE_OUT"
      /\ \A j \in DOMAIN calls \ {i} : calls[j].server = "locked" => calls[j].card.truck # t
      /\ \/ r.out /\ Gate!Refused(i, "ALREADY_GATED_OUT")
         \/ /\ ~ r.out /\ Gate!Write(t, row, <<"GATE_OUT">>)
            /\ Gate!Answer(i, "COMPLETED") /\ UNCHANGED raced
  BY DEF Gate!RecordGateOut, Gate!Asked, Gate!screens
<1>2. t \in Truck /\ r \in GateRow /\ VisitAt(r, log[t]) /\ t = calls[i].card.truck /\ r = checkin[t]
  BY TapAt, TruckAt
<1> HIDE DEF t, r
<1>3. CASE r.out /\ Gate!Refused(i, "ALREADY_GATED_OUT")
  <2>1. "ALREADY_GATED_OUT" \in GateCode
        /\ OnRecord("ALREADY_GATED_OUT", checkin[calls[i].card.truck])
    BY <1>2, <1>3 DEF GateCode, OnRecord
  <2>2. QED
    BY <1>1, <1>3, <2>1, RefusedKeeps
<1>4. CASE /\ ~ r.out /\ Gate!Write(t, row, <<"GATE_OUT">>)
           /\ Gate!Answer(i, "COMPLETED") /\ UNCHANGED raced
  <2>1. r.ended
    BY <1>1, <1>2, TapAt DEF TapOk, CardOk
  <2>2. LogHas(log[t] \o <<"GATE_OUT">>, 5)
    BY <1>2, <1>4, <2>1, VisitGoesOn
  <2>3. /\ row \in GateRow /\ row.gated = r.gated /\ row.queue = "COMPLETED" /\ row.dock = r.dock
        /\ row.started = r.started /\ row.ended = r.ended /\ row.out
    BY <1>2 DEF GateRow
  <2> HIDE DEF row
  <2>4. VisitAt(row, log[t] \o <<"GATE_OUT">>)
    BY <1>2, <1>4, <2>1, <2>2, <2>3 DEF VisitAt
  <2>5. "COMPLETED" \in GateCode /\ OnRecord("COMPLETED", row)
    BY <2>3 DEF GateCode, OnRecord
  <2>6. QED
    BY <1>1, <1>2, <1>4, <2>3, <2>4, <2>5, WriteKeeps
<1>5. QED
  BY <1>1, <1>3, <1>4

\* The first half of a dock-in: the row is locked, the dock looked at.
LEMMA LockKeeps ==
    ASSUME GateInv, NEW i \in DOMAIN calls, Gate!LockForDockIn(i)
    PROVE  GateInv'
<1> DEFINE t == calls[i].card.truck
           d == calls[i].card.dock
           seen == IF Gate!Occupied(t, d) THEN "occupied" ELSE "free"
           r == [calls[i] EXCEPT !.server = "locked", !.result = seen]
<1>1. /\ UNCHANGED <<kiosk, lookups, appt, checkin, log, raced>> /\ calls[i].server # "done"
      /\ calls[i].card.next = "DOCK_IN"
      /\ \A j \in DOMAIN calls : calls[j].server = "locked" => calls[j].card.truck # t
      /\ \/ /\ checkin[t].queue = "CALLED_TO_DOCK"
            /\ calls' = [calls EXCEPT ![i].server = "locked", ![i].result = seen]
         \/ Gate!Answer(i, "INVALID_TRANSITION")
  BY DEF Gate!LockForDockIn, Gate!Asked, Gate!screens, Gate!yard
<1>2. CASE Gate!Answer(i, "INVALID_TRANSITION")
  <2>1. "INVALID_TRANSITION" \in GateCode
        /\ OnRecord("INVALID_TRANSITION", checkin[calls[i].card.truck])
    BY DEF GateCode, OnRecord
  <2>2. Gate!Refused(i, "INVALID_TRANSITION")
    BY <1>1, <1>2 DEF Gate!Refused, Gate!yard
  <2>3. QED
    BY <1>1, <2>1, <2>2, RefusedKeeps
<1>3. CASE /\ checkin[t].queue = "CALLED_TO_DOCK"
           /\ calls' = [calls EXCEPT ![i].server = "locked", ![i].result = seen]
  <2>1. calls[i] \in GateCall /\ calls \in Seq(GateCall) /\ t \in Truck
        /\ TapOk(calls[i], Len(calls), checkin)
    BY TapAt, TapDomain
  <2>2. seen \in {"occupied", "free"}
    OBVIOUS
  <2>3. \A u \in Truck \ {t} : seen = "free" => ~ Gate!InDock(checkin[u], d)
    BY DEF Gate!Occupied
  <2> HIDE DEF seen
  <2>4. /\ r \in GateCall /\ calls' = [calls EXCEPT ![i] = r]
        /\ r.kiosk = calls[i].kiosk /\ r.card = calls[i].card /\ r.key = calls[i].key
        /\ r.client = calls[i].client /\ r.server = "locked" /\ r.result = seen
    BY <1>3, <2>1, <2>2 DEF GateCall
  <2> HIDE DEF r
  <2>5. TapOk(r, Len(calls), checkin')
    BY <1>1, <1>3, <2>1, <2>2, <2>4 DEF TapOk
  <2>6. RowsGrow /\ Visits' /\ Gate!DockSharedOnlyInARace'
    BY <1>1 DEF RowsGrow, GateInv, Visits, Gate!DockSharedOnlyInARace
  <2>7. DOMAIN calls' = DOMAIN calls /\ \A j \in DOMAIN calls : calls'[j] = IF j = i THEN r ELSE calls[j]
    BY <1>1, <2>4, CallMoves
  <2>8. SeenFree'
    BY <1>1, <2>3, <2>4, <2>7 DEF GateInv, SeenFree
  <2>9. QED
    BY <1>1, <2>4, <2>5, <2>6, <2>8, ToolKeeps, ZenonT(30)
<1>4. QED
  BY <1>1, <1>2, <1>3

\* The second half: into the dock, or back among the waiting.
LEMMA DockInKeeps ==
    ASSUME GateInv, NEW i \in DOMAIN calls, Gate!CommitDockIn(i)
    PROVE  GateInv'
<1> DEFINE t == calls[i].card.truck
           d == calls[i].card.dock
           r == checkin[t]
           back == [r EXCEPT !.queue = "WAITING"]
           row == [r EXCEPT !.queue = "IN_DOCK", !.dock = d]
           code == IF appt[t] \in {None, d} THEN "DOCK_IN_RECORDED" ELSE "DOCK_MISMATCH"
<1>1. /\ UNCHANGED <<kiosk, lookups, appt>> /\ calls[i].server = "locked"
      /\ \/ /\ Gate!Write(t, back, << >>) /\ Gate!Answer(i, "DOCK_OCCUPIED") /\ UNCHANGED raced
         \/ /\ calls[i].result # "occupied"
            /\ Gate!Write(t, row, <<"DOCK_IN">>) /\ Gate!Answer(i, code)
            /\ raced' = raced \cup {calls[j].card.truck : j \in {j \in DOMAIN calls \ {i} :
                                           calls[j].server = "locked"}}
  BY DEF Gate!CommitDockIn, Gate!screens
<1>2. /\ t \in Truck /\ r \in GateRow /\ VisitAt(r, log[t]) /\ t = calls[i].card.truck /\ r = checkin[t]
      /\ d = calls[i].card.dock
  BY TapAt, TruckAt
<1>3. r.queue = "CALLED_TO_DOCK" /\ d \in Dock /\ calls[i].result \in {"occupied", "free"}
  BY <1>1, TapAt DEF TapOk
<1>4. r.gated /\ r.dock = None /\ ~ r.started /\ ~ r.ended /\ ~ r.out /\ LogHas(log[t], 1)
  BY <1>2, <1>3 DEF VisitAt, GateRow
<1>5. \A j \in DOMAIN calls \ {i} : calls[j].server = "locked" => calls[j].card.truck # t
  BY <1>1 DEF GateInv, OneLockIn
<1> HIDE DEF t, r, d
<1>6. CASE Gate!Write(t, back, << >>) /\ Gate!Answer(i, "DOCK_OCCUPIED") /\ UNCHANGED raced
  <2>1. log[t] \o << >> = log[t]
    BY <1>2, VisitGoesOn
  <2>2. /\ back \in GateRow /\ back.gated = r.gated /\ back.queue = "WAITING" /\ back.dock = r.dock
        /\ back.started = r.started /\ back.ended = r.ended /\ back.out = r.out
    BY <1>2 DEF GateRow
  <2> HIDE DEF back
  <2>3. VisitAt(back, log[t] \o << >>)
    BY <1>4, <2>1, <2>2 DEF VisitAt
  <2>4. "DOCK_OCCUPIED" \in GateCode /\ OnRecord("DOCK_OCCUPIED", back)
    BY DEF GateCode, OnRecord
  <2>5. QED
    BY <1>1, <1>2, <1>5, <1>6, <2>2, <2>3, <2>4, WriteKeeps
<1>7. CASE /\ calls[i].result # "occupied"
           /\ Gate!Write(t, row, <<"DOCK_IN">>) /\ Gate!Answer(i, code)
           /\ raced' = raced \cup {calls[j].card.truck : j \in {j \in DOMAIN calls \ {i} :
                                          calls[j].server = "locked"}}
  <2>1. LogHas(log[t] \o <<"DOCK_IN">>, 2)
    BY <1>2, <1>3, VisitGoesOn
  <2>2. /\ row \in GateRow /\ row.gated = r.gated /\ row.queue = "IN_DOCK" /\ row.dock = d
        /\ row.started = r.started /\ row.ended = r.ended /\ row.out = r.out
    BY <1>2, <1>3 DEF GateRow
  <2>3. d # None
    BY <1>3, GateNone
  <2>4. code \in GateCode /\ OnRecord(code, row)
    BY <2>2, <2>3 DEF GateCode, OnRecord
  <2> HIDE DEF row, code
  <2>5. VisitAt(row, log[t] \o <<"DOCK_IN">>)
    BY <1>4, <2>1, <2>2, <2>3 DEF VisitAt
  <2>6. /\ Visits' /\ RowsGrow
        /\ \A u \in Truck : checkin'[u] = IF u = t THEN row ELSE checkin[u]
    BY <1>1, <1>2, <1>4, <1>7, <2>2, <2>3, <2>5, Written
  <2>7. PICK a \in GateCall :
           /\ calls' = [calls EXCEPT ![i] = a]
           /\ a.kiosk = calls[i].kiosk /\ a.card = calls[i].card /\ a.key = calls[i].key
           /\ a.client = calls[i].client /\ a.server = "done" /\ a.result = code
    BY <1>7, <2>4, Answered
  <2>8. TapOk(a, Len(calls), checkin')
    BY <1>2, <2>4, <2>6, <2>7, AnsweredOk
  <2>9. DOMAIN calls' = DOMAIN calls /\ \A j \in DOMAIN calls : calls'[j] = IF j = i THEN a ELSE calls[j]
    BY <1>1, <2>7, CallMoves
  <2>10. \A u \in Truck \ {t} : \A e : Gate!InDock(checkin'[u], e) => Gate!InDock(checkin[u], e)
    BY <2>6
  <2>11. \A e : Gate!InDock(checkin'[t], e) => e = d
    BY <1>2, <2>2, <2>6 DEF Gate!InDock
  <2>12. \A u \in Truck \ {t} : Gate!InDock(checkin[u], d) => t \in raced
    BY <1>1, <1>2, <1>3, <1>7 DEF GateInv, SeenFree
  <2>13. Gate!DockSharedOnlyInARace'
    <3>1. SUFFICES ASSUME NEW u \in Truck, NEW v \in Truck, NEW e \in Dock, u # v,
                          Gate!InDock(checkin'[u], e), Gate!InDock(checkin'[v], e)
                   PROVE  {u, v} \cap raced' # {}
      BY DEF Gate!DockSharedOnlyInARace, Gate!InDock
    <3>2. CASE u = t \/ v = t
      BY <1>7, <2>10, <2>11, <2>12, <3>1, <3>2
    <3>3. CASE u # t /\ v # t
      BY <1>7, <2>10, <3>1, <3>3 DEF GateInv, Gate!DockSharedOnlyInARace
    <3>4. QED
      BY <3>2, <3>3
  <2>14. SeenFree'
    <3>1. SUFFICES ASSUME NEW j \in DOMAIN calls, calls'[j].server = "locked", calls'[j].result = "free",
                          NEW u \in Truck \ {calls'[j].card.truck},
                          Gate!InDock(checkin'[u], calls'[j].card.dock)
                   PROVE  calls'[j].card.truck \in raced'
      BY <2>9 DEF SeenFree, Gate!InDock
    <3>2. j # i /\ calls'[j] = calls[j] /\ calls[j].server = "locked"
      BY <2>7, <2>9, <3>1
    <3>3. calls[j].card.truck \in raced'
      BY <1>7, <3>2
    <3>4. QED
      BY <3>2, <3>3
  <2>15. \A j \in DOMAIN calls \ {i} : calls[j].server = "locked" =>
            checkin'[calls[j].card.truck].queue = checkin[calls[j].card.truck].queue
    BY <1>5, <2>6, TapAt
  <2>16. QED
    BY <1>1, <2>6, <2>7, <2>8, <2>13, <2>14, <2>15, ToolKeeps
<1>8. QED
  BY <1>1, <1>6, <1>7

LEMMA FirstSteps == ASSUME NEW n \in 0 .. 5 PROVE LogHas(SubSeq(Gate!Steps, 1, n), n)
<1>1. \A i \in 1 .. n : Gate!Steps[i] \in GateEvent
  BY StepsAre
<1>2. /\ SubSeq(Gate!Steps, 1, n) \in Seq(GateEvent)
      /\ Len(SubSeq(Gate!Steps, 1, n)) = IF 1 <= n THEN n - 1 + 1 ELSE 0
      /\ \A i \in 1 .. n - 1 + 1 : SubSeq(Gate!Steps, 1, n)[i] = Gate!Steps[1 + i - 1]
  BY <1>1, SubSeqProperties
<1>3. n - 1 + 1 = n /\ (1 <= n \/ n = 0) /\ \A i \in 1 .. n : 1 + i - 1 = i
  OBVIOUS
<1>4. Len(SubSeq(Gate!Steps, 1, n)) = n
  BY <1>2, <1>3
<1>5. \A i \in 1 .. n : SubSeq(Gate!Steps, 1, n)[i] = Gate!Steps[i]
  BY <1>2, <1>3
<1>6. QED
  BY <1>2, <1>4, <1>5 DEF LogHas

LEMMA AtStageOk ==
    ASSUME NEW t \in Truck, NEW s \in Gate!Stages, appt[t] \in Dock
    PROVE  /\ Gate!AtStage(t, s) \in GateRow /\ VisitAt(Gate!AtStage(t, s), Gate!StepsOf(s))
           /\ \A d : d # None /\ Gate!InDock(Gate!AtStage(t, s), d) => s = "unloading" /\ d = appt[t]
<1>1. appt[t] # None
  BY GateNone
<1>2. CASE s = "coming"
  <2>1. LogHas(Gate!StepsOf(s), 0)
    BY <1>2, FirstSteps DEF Gate!StepsOf
  <2>2. QED
    BY <1>2, <2>1 DEF Gate!AtStage, Gate!Row, GateRow, VisitAt, Gate!InDock
<1>3. CASE s = "waiting" \/ s = "called"
  <2>1. LogHas(Gate!StepsOf(s), 1)
    BY <1>3, FirstSteps DEF Gate!StepsOf
  <2>2. QED
    BY <1>3, <2>1 DEF Gate!AtStage, Gate!Row, GateRow, VisitAt, Gate!InDock
<1>4. CASE s = "unloading"
  <2>1. LogHas(Gate!StepsOf(s), 3)
    BY <1>4, FirstSteps DEF Gate!StepsOf
  <2>2. QED
    BY <1>1, <1>4, <2>1 DEF Gate!AtStage, Gate!Row, GateRow, VisitAt, Gate!InDock
<1>5. QED
  BY <1>2, <1>3, <1>4 DEF Gate!Stages

LEMMA GateStart == ASSUME Gate!Init PROVE GateInv
<1>1. /\ kiosk = [k \in Kiosk |-> Gate!Screen("search", None)]
      /\ lookups = [k \in Kiosk |-> {}] /\ calls = << >> /\ appt \in [Truck -> Dock] /\ raced = {}
  BY DEF Gate!Init
<1>2. PICK s \in [Truck -> Stage] :
         /\ \A t, u \in Truck : s[t] = "unloading" /\ s[u] = "unloading" /\ appt[t] = appt[u] => t = u
         /\ checkin = [t \in Truck |-> Gate!AtStage(t, s[t])]
         /\ log = [t \in Truck |-> Gate!StepsOf(s[t])]
  BY DEF Gate!Init
<1>3. \A t \in Truck :
         /\ Gate!AtStage(t, s[t]) \in GateRow /\ VisitAt(Gate!AtStage(t, s[t]), Gate!StepsOf(s[t]))
         /\ \A d : d # None /\ Gate!InDock(Gate!AtStage(t, s[t]), d) => s[t] = "unloading" /\ d = appt[t]
  <2>1. TAKE t \in Truck
  <2>2. s[t] \in Gate!Stages /\ appt[t] \in Dock
    BY <1>1, <1>2, ConsolesAssumption DEF Gate!GateAssumption
  <2>3. QED
    BY <2>2, AtStageOk
<1>4. Visits
  BY <1>1, <1>2, <1>3 DEF Visits
<1>5. TapsOk /\ KeysAgree /\ OneLockIn /\ SeenFree
  BY <1>1 DEF TapsOk, KeysAgree, OneLockIn, SeenFree
<1>6. KiosksOk
  <2>1. \A k \in Kiosk : KioskOk(Gate!Screen("search", None), k, calls, checkin)
    <3>1. Gate!Screen("search", None) = [shift |-> TRUE, phase |-> "search", card |-> None,
              found |-> {}, key |-> 0, waiting |-> 0, failed |-> FALSE, outcome |-> 0]
      BY DEF Gate!Screen
    <3>2. QED
      BY <3>1, BlankOk
  <2>2. QED
    BY <1>1, <2>1 DEF KiosksOk
<1>7. LookupsOk
  BY <1>1 DEF LookupsOk
<1>8. Gate!DockSharedOnlyInARace
  <2>1. \A t \in Truck : \A d \in Dock :
            Gate!InDock(checkin[t], d) => s[t] = "unloading" /\ d = appt[t]
    BY <1>2, <1>3, GateNone
  <2>2. QED
    BY <1>2, <2>1 DEF Gate!DockSharedOnlyInARace
<1>9. QED
  BY <1>4, <1>5, <1>6, <1>7, <1>8 DEF GateInv

LEMMA GateKeeps == ASSUME GateInv, [Gate!Next]_Gate!vars PROVE GateInv'
<1>1. ASSUME NEW k \in Kiosk, Gate!Officer(k) PROVE GateInv'
  BY <1>1, SearchKeeps, LandsKeeps, FailsKeeps, ScreenKeeps, TapKeeps DEF Gate!Officer
<1>2. ASSUME NEW i \in DOMAIN calls, Gate!CallFails(i) \/ Gate!OutcomeLands(i) PROVE GateInv'
  BY <1>2, CallFailsKeeps, OutcomeKeeps
<1>3. ASSUME NEW i \in DOMAIN calls, Gate!Tool(i) PROVE GateInv'
  BY <1>3, GateInKeeps, QueueKeeps, LockKeeps, DockInKeeps, UnloadKeeps, GateOutKeeps DEF Gate!Tool
<1>4. ASSUME NEW t \in Truck, Gate!Rebook(t) PROVE GateInv'
  BY <1>4, RebookKeeps
<1>5. CASE UNCHANGED Gate!vars
  <2>1. UNCHANGED <<kiosk, lookups, calls, checkin, log, raced, appt>>
    BY <1>5 DEF Gate!vars, Gate!screens, Gate!yard
  <2>2. KiosksOk' /\ LookupsOk' /\ appt' \in [Truck -> Dock \cup {None}]
    BY <2>1 DEF GateInv, KiosksOk, LookupsOk, Visits
  <2>3. QED
    BY <2>1, <2>2, ScreensKeep
<1>6. QED
  BY <1>1, <1>2, <1>3, <1>4, <1>5 DEF Gate!Next

LEMMA VisitsAreInOrder == ASSUME GateInv PROVE Gate!StepsOnceInOrder
<1>1. SUFFICES ASSUME NEW t \in Truck PROVE Gate!IsPrefix(log[t], Gate!Steps)
  BY DEF Gate!StepsOnceInOrder
<1>2. PICK n \in 0 .. 5 : LogHas(log[t], n)
  BY TruckAt DEF VisitAt
<1>3. /\ log[t] \in Seq(GateEvent) /\ Len(log[t]) = n /\ n <= Len(Gate!Steps)
      /\ \A i \in 1 .. n : log[t][i] = Gate!Steps[i]
  BY <1>2, StepsAre DEF LogHas
<1>4. SubSeq(log[t], 1, n) = SubSeq(Gate!Steps, 1, n)
  <2>1. \A i \in 1 .. n : log[t][i] \in GateEvent /\ Gate!Steps[i] \in GateEvent
    BY <1>3, StepsAre
  <2>2. n \in Int /\ 1 \in Int
    OBVIOUS
  <2>3. QED
    BY <1>3, <2>1, <2>2, SubSeqProperties, SeqEqual
<1>5. QED
  BY <1>3, <1>4 DEF Gate!IsPrefix

LEMMA KiosksAreTrue == ASSUME GateInv PROVE Gate!KioskIsTrue
<1>1. \A k \in Kiosk : kiosk[k].waiting # 0 =>
          calls[kiosk[k].waiting].client = "open" /\ calls[kiosk[k].waiting].kiosk = k
  BY KioskAt DEF KioskOk
<1>2. \A i, j \in DOMAIN calls : calls[i].key = calls[j].key =>
          calls[i].card.truck = calls[j].card.truck /\ calls[i].card.next = calls[j].card.next
  BY DEF GateInv, KeysAgree, SameTap
<1>3. ASSUME NEW k \in Kiosk, kiosk[k].outcome # 0,
             calls[kiosk[k].outcome].result \in DOMAIN Gate!Recorded
      PROVE  \E n \in DOMAIN log[kiosk[k].card.truck] :
                 log[kiosk[k].card.truck][n] = Gate!Recorded[calls[kiosk[k].outcome].result]
  <2> DEFINE i == kiosk[k].outcome
             t == kiosk[k].card.truck
             result == calls[i].result
  <2>1. i \in DOMAIN calls /\ calls[i].server = "done" /\ calls[i].card.truck = t
    BY <1>3, KioskAt DEF KioskOk, SameTap
  <2>2. t \in Truck /\ OnRecord(result, checkin[t]) /\ VisitAt(checkin[t], log[t])
    BY <2>1, TapAt, TruckAt DEF TapOk
  <2> HIDE DEF i, t
  <2>3. result \in {"GATE_IN_RECORDED", "ALREADY_CHECKED_IN", "DOCK_IN_RECORDED", "DOCK_MISMATCH",
                    "COMPLETED", "ALREADY_GATED_OUT"}
    BY <1>3 DEF i, Gate!Recorded
  <2> HIDE DEF result
  <2>4. ASSUME NEW m \in 1 .. 5, NEW n \in m .. 5, LogHas(log[t], n)
        PROVE  m \in DOMAIN log[t] /\ log[t][m] = Gate!Steps[m]
    BY <2>4 DEF LogHas
  <2>5. CASE result \in {"GATE_IN_RECORDED", "ALREADY_CHECKED_IN"}
    <3>1. checkin[t].gated
      BY <2>2, <2>5 DEF OnRecord
    <3>2. \E n \in 1 .. 5 : LogHas(log[t], n)
      BY <2>2, <3>1 DEF VisitAt
    <3>3. 1 \in DOMAIN log[t] /\ log[t][1] = "GATE_IN"
      BY <2>4, <3>2, StepsAre
    <3>4. Gate!Recorded[result] = "GATE_IN"
      BY <2>5 DEF Gate!Recorded
    <3>5. QED
      BY <3>3, <3>4 DEF result, i, t
  <2>6. CASE result \in {"DOCK_IN_RECORDED", "DOCK_MISMATCH"}
    <3>1. checkin[t].dock # None
      BY <2>2, <2>6 DEF OnRecord
    <3>2. \E n \in 2 .. 5 : LogHas(log[t], n)
      BY <2>2, <3>1 DEF VisitAt
    <3>3. 2 \in DOMAIN log[t] /\ log[t][2] = "DOCK_IN"
      BY <2>4, <3>2, StepsAre
    <3>4. Gate!Recorded[result] = "DOCK_IN"
      BY <2>6 DEF Gate!Recorded
    <3>5. QED
      BY <3>3, <3>4 DEF result, i, t
  <2>7. CASE result \in {"COMPLETED", "ALREADY_GATED_OUT"}
    <3>1. checkin[t].out
      BY <2>2, <2>7 DEF OnRecord
    <3>2. LogHas(log[t], 5)
      BY <2>2, <3>1 DEF VisitAt
    <3>3. 5 \in DOMAIN log[t] /\ log[t][5] = "GATE_OUT"
      BY <2>4, <3>2, StepsAre
    <3>4. Gate!Recorded[result] = "GATE_OUT"
      BY <2>7 DEF Gate!Recorded
    <3>5. QED
      BY <3>3, <3>4 DEF result, i, t
  <2>8. QED
    BY <2>3, <2>5, <2>6, <2>7
<1>4. QED
  BY <1>1, <1>2, <1>3 DEF Gate!KioskIsTrue
-----------------------------------------------------------------------------
(* In the application: the screen that is mounted stays, and its steps are  *)
(* the screen's.                                                            *)

ChatMounted == surface = "/driver" => ChatInv

LEMMA ChatAlways == Spec => []ChatMounted
<1>1. Init => ChatMounted
  <2>1. ASSUME Init, surface = "/driver"
        PROVE  Driver!Init
    BY <2>1 DEF Init, InitDriver, InitGate, InitUsers, InitPolicy, InitFleet, InitAudit, InitSignIn
  <2>2. QED
    BY <2>1, ChatStart DEF ChatMounted
<1>2. ChatMounted /\ [Next]_vars => ChatMounted'
  <2>1. ASSUME ChatMounted, [Next]_vars, surface' = "/driver"
        PROVE  ChatInv'
    <3>1. surface = "/driver"
      BY <2>1 DEF Next, vars, DriverStep, GateStep, UsersStep, PolicyStep, FleetStep, AuditStep, SignInStep
    <3>2. [Driver!Next]_Driver!vars
      BY <2>1, <3>1 DEF Next, vars, driver, DriverStep, GateStep, UsersStep, PolicyStep, FleetStep,
                        AuditStep, SignInStep, Driver!vars, Driver!place, Driver!phone, Driver!talk,
                        Driver!streams, Driver!history, Driver!server
    <3>3. QED
      BY <2>1, <3>1, <3>2, ChatKeeps DEF ChatMounted
  <2>2. QED
    BY <2>1 DEF ChatMounted
<1>3. QED
  BY <1>1, <1>2, PTL DEF Spec

\* A message to the assistant costs one hold at most, however often the driver
\* retries it and wherever its turn broke (request_slot's idempotency by the
\* message's id, _prepare_turn's look into the history).
THEOREM MessagesCostOneHold == Spec => []OneHoldPerMessage
<1>1. ChatMounted => OneHoldPerMessage
  BY DEF ChatMounted, ChatInv, OneHoldPerMessage
<1>2. QED
  BY <1>1, ChatAlways, PTL

\* What the conversation shows agrees with the server, through broken streams,
\* overlapping turns, a lost connection and a clock that runs fast
\* (use-driver-turn.ts, conversation.tsx, the countdown clock).
THEOREM ConversationsAreTrue == Spec => []ConversationIsTrue
<1>1. ChatMounted => ConversationIsTrue
  BY ChatIsTrue DEF ChatMounted, ConversationIsTrue
<1>2. QED
  BY <1>1, ChatAlways, PTL

GateMounted == surface = "/gate" => GateInv

LEMMA GateAlways == Spec => []GateMounted
<1>1. Init => GateMounted
  <2>1. ASSUME Init, surface = "/gate"
        PROVE  Gate!Init
    BY <2>1 DEF Init, InitDriver, InitGate, InitUsers, InitPolicy, InitFleet, InitAudit, InitSignIn
  <2>2. QED
    BY <2>1, GateStart DEF GateMounted
<1>2. GateMounted /\ [Next]_vars => GateMounted'
  <2>1. ASSUME GateMounted, [Next]_vars, surface' = "/gate"
        PROVE  GateInv'
    <3>1. surface = "/gate"
      BY <2>1 DEF Next, vars, DriverStep, GateStep, UsersStep, PolicyStep, FleetStep, AuditStep, SignInStep
    <3>2. [Gate!Next]_Gate!vars
      BY <2>1, <3>1 DEF Next, vars, gate, DriverStep, GateStep, UsersStep, PolicyStep, FleetStep,
                        AuditStep, SignInStep, Gate!vars, Gate!screens, Gate!yard
    <3>3. QED
      BY <2>1, <3>1, <3>2, GateKeeps DEF GateMounted
  <2>2. QED
    BY <2>1 DEF GateMounted
<1>3. QED
  BY <1>1, <1>2, PTL DEF Spec

\* A visit's steps are recorded once each and in their order, whatever the
\* kiosks tap twice, retry or tap from a stale card (gate_yard_service.py).
THEOREM VisitsAreOnceInOrder == Spec => []StepsOnceInOrder
<1>1. GateMounted => StepsOnceInOrder
  BY VisitsAreInOrder DEF GateMounted, StepsOnceInOrder
<1>2. QED
  BY <1>1, GateAlways, PTL

\* Two trucks stand in one dock only if one of them had looked at its dock and
\* not yet gone in when another was let in (record_dock_in's check has no lock).
THEOREM DocksAreSharedOnlyInARace == Spec => []DockSharedOnlyInARace
<1>1. GateMounted => DockSharedOnlyInARace
  BY DEF GateMounted, GateInv, DockSharedOnlyInARace
<1>2. QED
  BY <1>1, GateAlways, PTL

\* A kiosk waits for calls of its own, a key is of one truck and action, and
\* an outcome it shows as recorded is in the truck's log (gate-kiosk.tsx).
THEOREM KiosksTellWhatIsOnRecord == Spec => []KioskIsTrue
<1>1. GateMounted => KioskIsTrue
  BY KiosksAreTrue DEF GateMounted, KioskIsTrue
<1>2. QED
  BY <1>1, GateAlways, PTL
=============================================================================
