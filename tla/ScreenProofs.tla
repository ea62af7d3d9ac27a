---------------------------- MODULE ScreenProofs ----------------------------
(* The screens of the browser application that keep a list, a draft or an   *)
(* identity: the admin's users, policy and audit tabs, the carrier's fleet, *)
(* and the session with the page it allows.  Each has an invariant of its   *)
(* own, which holds while it is mounted, for any admins, filters, users,    *)
(* pages and bounds.                                                        *)
EXTENDS Consoles, SequenceTheorems, TLAPS

-----------------------------------------------------------------------------
(* UserAdmin: a removed user stays removed, and a user's scopes are those of*)
(* his role.  The invariant says what each write still under way knows of   *)
(* the row it has read: the identity a removal is about to delete is the    *)
(* row's, one that has deleted it has left the row without an identity, and *)
(* whoever has the row locked has seen the scopes it has.                   *)

Shown == {"NONE", "INVITED", "ACTIVE", "DEACTIVATED"}
Op == {"invite", "edit", "remove", "resend", "revoke", "deactivate", "reactivate"}
Phase == {"asked", "created", "locked", "read", "deleted", "done", "refused", "dead"}
WriteCall == [by : Admin, op : Op, access : Access \cup {None}, client : {"open", "closed"},
              phase : Phase, auth : Nat, seen : SUBSET Access,
              dialog : Users!InDialog \cup {None}]

Screen == [shown : Shown, dialog : Users!InDialog \cup {None}, busy : BOOLEAN,
           error : {None, "banner", "dialog"}]

UsersTyped ==
    /\ user \in Users!Row \cup {None}
    /\ identity \in [id : Nat, confirmed : BOOLEAN]
    /\ minted \in Nat
    /\ tab \in [Admin -> Screen]
    /\ loads \in [Admin -> SUBSET Shown]
    /\ calls \in Seq(WriteCall)

\* A screen that knows of a user knows of one there is.
ScreensKnow ==
    user = None =>
        \A a \in Admin : /\ tab[a].shown = "NONE" /\ loads[a] \subseteq {"NONE"}
                         /\ tab[a].dialog \in {None, "invite"}

\* Identities are numbered as they are made, and the row names one of them.
Numbered ==
    /\ identity.id <= minted
    /\ user # None => user.auth \in 1 .. minted

\* What a write under way has read, and still holds.
Removes(c) == c.op \in {"remove", "revoke"}
Knows(c, row, auth, last) ==
    /\ c.op # "invite" => row # None
    /\ c.op \in {"invite", "edit"} => c.access \in Access
    /\ c.phase = "created" => c.op = "invite" /\ c.auth \in 1 .. last
    /\ Removes(c) /\ c.phase \in {"read", "deleted"} => c.auth = row.auth
    /\ Removes(c) /\ c.phase = "deleted" => auth.id # row.auth
    /\ c.phase = "locked" => c.op = "edit" /\ c.seen = row.scopes

CallsKnow == \A i \in DOMAIN calls : Knows(calls[i], user, identity, minted)

OneLock == \A i, j \in DOMAIN calls : calls[i].phase = "locked" /\ calls[j].phase = "locked" => i = j

UsersInv ==
    /\ UsersTyped /\ ScreensKnow /\ Numbered /\ CallsKnow /\ OneLock
    /\ Users!RemovedForGood /\ Users!AccessOfOneEdit

USE DEF Shown, Op, Phase

LEMMA NoneIsNoRow == None \notin Access \cup Users!Row \cup {"invite", "edit", "remove"}
BY ConsolesAssumption DEF Users!UserAssumption

LEMMA ListedIsShown ==
    ASSUME UsersTyped
    PROVE  Users!Listed \in Shown /\ (user = None => Users!Listed = "NONE")
BY NoneIsNoRow DEF UsersTyped, Users!Listed, Users!LifecycleState, Users!Row

LEMMA NewRowIsRow ==
    ASSUME NEW access \in Access, NEW id \in Nat, NEW row, row = Users!NewRow(access, id)
    PROVE  /\ row \in Users!Row /\ row.role = access /\ row.scopes = {access}
           /\ row.active = TRUE /\ row.removed = FALSE /\ row.auth = id
BY DEF Users!NewRow, Users!Row

LEMMA SeedRowIsRow ==
    ASSUME NEW access \in Access, NEW active \in BOOLEAN, NEW row,
           row = Users!SeedRow(access, active)
    PROVE  /\ row \in Users!Row /\ row.role = access /\ row.scopes = {access}
           /\ row.removed = FALSE /\ row.auth = 1
BY DEF Users!SeedRow, Users!NewRow, Users!Row

LEMMA UsersStart == ASSUME Users!Init PROVE UsersInv
<1>1. user \in Users!Row \cup {None} /\ identity \in [id : Nat, confirmed : BOOLEAN]
      /\ (user # None => user.auth = 1 /\ ~ user.removed /\ user.scopes = {user.role}
                         /\ identity.id = 1)
  <2>1. CASE user = None /\ identity = Users!NoIdentity
    BY <2>1 DEF Users!NoIdentity
  <2>2. CASE \E access \in Access : user = Users!NewRow(access, 1)
                                  /\ identity = [id |-> 1, confirmed |-> FALSE]
    <3>1. PICK access \in Access : user = Users!NewRow(access, 1)
                                  /\ identity = [id |-> 1, confirmed |-> FALSE]
      BY <2>2
    <3>2. /\ user \in Users!Row /\ user.role = access /\ user.scopes = {access}
          /\ user.removed = FALSE /\ user.auth = 1
      BY <3>1 DEF Users!NewRow, Users!Row
    <3>3. QED
      BY <3>1, <3>2
  <2>3. CASE \E access \in Access, active \in BOOLEAN :
                user = Users!SeedRow(access, active) /\ identity = [id |-> 1, confirmed |-> TRUE]
    <3>1. PICK access \in Access, active \in BOOLEAN :
                user = Users!SeedRow(access, active) /\ identity = [id |-> 1, confirmed |-> TRUE]
      BY <2>3
    <3>2. /\ user \in Users!Row /\ user.role = access /\ user.scopes = {access}
          /\ user.removed = FALSE /\ user.auth = 1
      BY <3>1, SeedRowIsRow, ZenonT(30)
    <3>3. QED
      BY <3>1, <3>2
  <2>4. QED
    BY <2>1, <2>2, <2>3 DEF Users!Init
<1>2. calls = << >> /\ loads = [a \in Admin |-> {}] /\ minted = identity.id
      /\ tab = [a \in Admin |-> [shown |-> Users!Listed, dialog |-> None, busy |-> FALSE,
                                 error |-> None]]
  BY DEF Users!Init
<1>3. Users!Listed \in Shown /\ (user = None => Users!Listed = "NONE")
  BY <1>1, NoneIsNoRow DEF Users!Listed, Users!LifecycleState, Users!Row
<1>4. UsersTyped
  <2>1. [shown |-> Users!Listed, dialog |-> None, busy |-> FALSE, error |-> None] \in Screen
    BY <1>3 DEF Screen
  <2>2. calls \in Seq(WriteCall)
    BY <1>2
  <2>3. QED
    BY <1>1, <1>2, <2>1, <2>2 DEF UsersTyped
<1>5. ScreensKnow
  BY <1>2, <1>3 DEF ScreensKnow
<1>6. QED
  BY <1>1, <1>2, <1>4, <1>5
     DEF UsersInv, Numbered, CallsKnow, OneLock, Users!RemovedForGood, Users!AccessOfOneEdit
-----------------------------------------------------------------------------
\* The tab changes, and the server's side does not.
LEMMA ScreenKeeps ==
    ASSUME UsersInv, UNCHANGED <<user, identity, minted>>,
           calls' = calls \/ \E i \in DOMAIN calls :
                                 calls' = [calls EXCEPT ![i] = [calls[i] EXCEPT !.client = "closed"]],
           tab' \in [Admin -> Screen],
           loads' \in [Admin -> SUBSET Shown], ScreensKnow'
    PROVE  UsersInv'
<1>1. CASE calls' = calls
  <2>1. CallsKnow' /\ OneLock'
    BY <1>1 DEF UsersInv, CallsKnow, OneLock
  <2>2. QED
    BY <1>1, <2>1
       DEF UsersInv, UsersTyped, Numbered, Users!RemovedForGood, Users!AccessOfOneEdit
<1>2. ASSUME NEW i \in DOMAIN calls,
             calls' = [calls EXCEPT ![i] = [calls[i] EXCEPT !.client = "closed"]]
      PROVE  UsersInv'
  <2>1. calls \in Seq(WriteCall) /\ DOMAIN calls = 1 .. Len(calls) /\ calls[i] \in WriteCall
    BY DEF UsersInv, UsersTyped
  <2> DEFINE c == [calls[i] EXCEPT !.client = "closed"]
  <2>2. /\ c \in WriteCall /\ c.op = calls[i].op /\ c.access = calls[i].access
        /\ c.phase = calls[i].phase /\ c.auth = calls[i].auth /\ c.seen = calls[i].seen
    BY <2>1 DEF WriteCall
  <2> HIDE DEF c
  <2>3. /\ calls' \in Seq(WriteCall) /\ DOMAIN calls' = DOMAIN calls
        /\ \A j \in DOMAIN calls : calls'[j] = IF j = i THEN c ELSE calls[j]
    BY <1>2, <2>1, <2>2, ExceptSeq DEF c
  <2>4. \A j \in DOMAIN calls : /\ calls'[j].op = calls[j].op /\ calls'[j].access = calls[j].access
                                /\ calls'[j].phase = calls[j].phase
                                /\ calls'[j].auth = calls[j].auth /\ calls'[j].seen = calls[j].seen
    BY <2>2, <2>3
  <2>5. CallsKnow'
    BY <2>3, <2>4 DEF UsersInv, CallsKnow, Knows, Removes
  <2>6. OneLock'
    BY <2>3, <2>4 DEF UsersInv, OneLock
  <2>7. QED
    BY <2>3, <2>5, <2>6
       DEF UsersInv, UsersTyped, Numbered, Users!RemovedForGood, Users!AccessOfOneEdit
<1>3. QED
  BY <1>1, <1>2

\* A tool takes a step: what it has learnt is true, and what the others know
\* still is.
LEMMA ToolKeeps ==
    ASSUME UsersInv, UNCHANGED <<tab, loads>>,
           NEW i \in DOMAIN calls, NEW c \in WriteCall, calls' = [calls EXCEPT ![i] = c],
           user' \in Users!Row \cup {None}, user # None => user' # None,
           identity' \in [id : Nat, confirmed : BOOLEAN], minted' \in Nat, Numbered',
           Knows(c, user', identity', minted'),
           \A j \in DOMAIN calls : j # i => Knows(calls[j], user', identity', minted'),
           c.phase = "locked" => Users!RowFree,
           Users!RemovedForGood', Users!AccessOfOneEdit'
    PROVE  UsersInv'
<1>1. calls \in Seq(WriteCall) /\ DOMAIN calls = 1 .. Len(calls)
  BY DEF UsersInv, UsersTyped
<1>2. /\ calls' \in Seq(WriteCall) /\ DOMAIN calls' = DOMAIN calls
      /\ \A j \in DOMAIN calls : calls'[j] = IF j = i THEN c ELSE calls[j]
  BY <1>1, ExceptSeq
<1>3. UsersTyped'
  BY <1>2 DEF UsersInv, UsersTyped
<1>4. ScreensKnow'
  BY DEF UsersInv, ScreensKnow
<1>5. CallsKnow'
  BY <1>2 DEF CallsKnow
<1>6. OneLock'
  BY <1>2 DEF UsersInv, OneLock, Users!RowFree
<1>7. QED
  BY <1>3, <1>4, <1>5, <1>6 DEF UsersInv
-----------------------------------------------------------------------------
LEMMA TabKeeps ==
    ASSUME UsersInv, NEW a \in Admin, Users!Tab(a)
    PROVE  UsersInv'
<1>1. /\ tab[a] \in Screen
      /\ loads[a] \subseteq Shown
      /\ user = None => tab[a].shown = "NONE" /\ loads[a] \subseteq {"NONE"}
                        /\ tab[a].dialog \in {None, "invite"}
  BY DEF UsersInv, UsersTyped, ScreensKnow
<1>2. Users!Listed \in Shown /\ (user = None => Users!Listed = "NONE")
  BY ListedIsShown DEF UsersInv
<1>3. ASSUME NEW op \in Users!InDialog, Users!OpenDialog(a, op)
      PROVE  UsersInv'
  <2>1. user = None => op = "invite"
    BY <1>1, <1>3 DEF Users!OpenDialog, Users!Offers
  <2>2. UNCHANGED <<user, identity, minted, calls, loads>>
    BY <1>3 DEF Users!OpenDialog, Users!auth
  <2>3. tab' \in [Admin -> Screen]
    <3>1. [tab[a] EXCEPT !.dialog = op, !.error = None] \in Screen
      BY <1>1 DEF Screen
    <3>2. QED
      BY <1>3, <3>1 DEF UsersInv, UsersTyped, Users!OpenDialog
  <2>4. ScreensKnow'
    BY <1>3, <2>1, <2>2 DEF UsersInv, UsersTyped, ScreensKnow, Screen, Users!OpenDialog
  <2>5. loads' \in [Admin -> SUBSET Shown]
    BY <2>2 DEF UsersInv, UsersTyped
  <2>6. QED
    BY <2>2, <2>3, <2>4, <2>5, ScreenKeeps
<1>4. ASSUME Users!CloseDialog(a)
      PROVE  UsersInv'
  <2>1. UNCHANGED <<user, identity, minted, calls, loads>>
    BY <1>4 DEF Users!CloseDialog, Users!auth
  <2>2. tab' \in [Admin -> Screen]
    <3>1. [tab[a] EXCEPT !.dialog = None] \in Screen
      BY <1>1 DEF Screen
    <3>2. QED
      BY <1>4, <3>1 DEF UsersInv, UsersTyped, Users!CloseDialog
  <2>3. ScreensKnow'
    BY <1>4, <2>1 DEF UsersInv, UsersTyped, ScreensKnow, Screen, Users!CloseDialog
  <2>4. loads' \in [Admin -> SUBSET Shown]
    BY <2>1 DEF UsersInv, UsersTyped
  <2>5. QED
    BY <2>1, <2>2, <2>3, <2>4, ScreenKeeps
<1>5. ASSUME NEW listed \in loads[a], Users!LoadLands(a, listed)
      PROVE  UsersInv'
  <2>1. UNCHANGED <<user, identity, minted, calls>>
    BY <1>5 DEF Users!LoadLands, Users!auth
  <2>2. PICK seen \in {listed, Users!Listed} : tab' = [tab EXCEPT ![a].shown = seen, ![a].busy = FALSE]
    BY <1>5 DEF Users!LoadLands
  <2>3. seen \in Shown /\ (user = None => seen = "NONE")
    BY <1>1, <1>2
  <2>4. tab' \in [Admin -> Screen]
    <3>1. [tab[a] EXCEPT !.shown = seen, !.busy = FALSE] \in Screen
      BY <1>1, <2>3 DEF Screen
    <3>2. QED
      BY <2>2, <3>1 DEF UsersInv, UsersTyped
  <2>5. loads' \in [Admin -> SUBSET Shown] /\ \A b \in Admin : loads'[b] \subseteq loads[b]
    BY <1>5 DEF UsersInv, UsersTyped, Users!LoadLands
  <2>6. ScreensKnow'
    BY <2>1, <2>2, <2>3, <2>5 DEF UsersInv, UsersTyped, ScreensKnow, Screen
  <2>7. QED
    BY <2>1, <2>4, <2>5, <2>6, ScreenKeeps
<1>6. ASSUME NEW op \in Users!Offers(tab[a].shown) \cup Users!InDialog,
             NEW access \in Users!Choices(op), Users!Write(a, op, access)
      PROVE  UsersInv'
  <2> DEFINE c == [by |-> a, op |-> op, access |-> access, client |-> "open", phase |-> "asked",
                   auth |-> 0, seen |-> {}, dialog |-> tab[a].dialog]
  <2>1. user = None => op = "invite"
    <3>1. IF op \in Users!InDialog THEN tab[a].dialog = op
                                  ELSE tab[a].dialog = None /\ op \in Users!Offers(tab[a].shown)
      BY <1>6 DEF Users!Write, Users!CanWrite
    <3>2. Users!Offers("NONE") = {"invite"}
      BY DEF Users!Offers
    <3>3. QED
      BY <1>1, <3>1, <3>2, NoneIsNoRow DEF Users!InDialog
  <2>2. op \in Op /\ access \in Access \cup {None} /\ (op \in {"invite", "edit"} => access \in Access)
    <3>1. /\ Users!Offers("NONE") \subseteq Op /\ Users!Offers("INVITED") \subseteq Op
          /\ Users!Offers("ACTIVE") \subseteq Op /\ Users!Offers("DEACTIVATED") \subseteq Op
      BY DEF Users!Offers
    <3>2. tab[a].shown \in Shown
      BY <1>1 DEF Screen
    <3>3. op \in Op
      BY <3>1, <3>2 DEF Users!InDialog
    <3>4. QED
      BY <3>3 DEF Users!Choices
  <2>3. c \in WriteCall /\ c.op = op /\ c.access = access /\ c.phase = "asked"
    BY <1>1, <2>2 DEF WriteCall, Screen
  <2>4. UNCHANGED <<user, identity, minted, loads>> /\ calls' = Append(calls, c)
        /\ tab' = [tab EXCEPT ![a].busy = TRUE, ![a].error = None]
    BY <1>6 DEF Users!Write, Users!auth
  <2> HIDE DEF c
  <2>5. calls \in Seq(WriteCall)
    BY DEF UsersInv, UsersTyped
  <2>6. /\ calls' \in Seq(WriteCall) /\ Len(calls') = Len(calls) + 1
        /\ \A j \in 1 .. Len(calls) : calls'[j] = calls[j]
        /\ calls'[Len(calls) + 1] = c
    BY <2>3, <2>4, <2>5, AppendProperties
  <2>7. \A j \in DOMAIN calls' : (j \in DOMAIN calls /\ calls'[j] = calls[j]) \/ calls'[j] = c
    BY <2>5, <2>6
  <2>8. Knows(c, user, identity, minted)
    BY <2>1, <2>2, <2>3 DEF Knows, Removes
  <2>9. CallsKnow'
    BY <2>4, <2>7, <2>8 DEF UsersInv, CallsKnow
  <2>10. OneLock'
    BY <2>3, <2>7 DEF UsersInv, OneLock
  <2>11. tab' \in [Admin -> Screen]
         /\ ScreensKnow'
    <3>1. [tab[a] EXCEPT !.busy = TRUE, !.error = None] \in Screen
      BY <1>1 DEF Screen
    <3>2. tab' \in [Admin -> Screen]
      BY <2>4, <3>1 DEF UsersInv, UsersTyped
    <3>3. ScreensKnow'
      BY <2>4 DEF UsersInv, UsersTyped, ScreensKnow, Screen
    <3>4. QED
      BY <3>2, <3>3
  <2>12. QED
    BY <2>4, <2>6, <2>9, <2>10, <2>11
       DEF UsersInv, UsersTyped, Numbered, Users!RemovedForGood, Users!AccessOfOneEdit
<1>7. QED
  BY <1>3, <1>4, <1>5, <1>6 DEF Users!Tab

LEMMA AnswerKeeps ==
    ASSUME UsersInv, NEW i \in DOMAIN calls, Users!WriteLands(i) \/ Users!WriteFails(i)
    PROVE  UsersInv'
<1> DEFINE a == calls[i].by
<1>1. a \in Admin /\ tab[a] \in Screen /\ UNCHANGED <<user, identity, minted>>
      /\ calls' = [calls EXCEPT ![i] = [calls[i] EXCEPT !.client = "closed"]]
  <2>1. calls[i] \in WriteCall
    BY DEF UsersInv, UsersTyped
  <2>2. a \in Admin
    BY <2>1 DEF WriteCall
  <2>3. UNCHANGED <<user, identity, minted>>
    BY DEF Users!WriteLands, Users!WriteFails, Users!auth
  <2>4. calls' = [calls EXCEPT ![i] = [calls[i] EXCEPT !.client = "closed"]]
    BY DEF Users!WriteLands, Users!WriteFails
  <2>5. tab[a] \in Screen
    BY <2>2 DEF UsersInv, UsersTyped
  <2>6. QED
    BY <2>2, <2>3, <2>4, <2>5
<1>2. Users!Listed \in Shown /\ (user = None => Users!Listed = "NONE")
  BY ListedIsShown DEF UsersInv
<1>3. CASE Users!WriteLands(i)
  <2>1. tab' = [tab EXCEPT ![a].dialog = None] /\ loads' = [loads EXCEPT ![a] = @ \cup {Users!Listed}]
    BY <1>3 DEF Users!WriteLands
  <2> HIDE DEF a
  <2>2. tab' \in [Admin -> Screen]
    <3>1. [tab[a] EXCEPT !.dialog = None] \in Screen
      BY <1>1 DEF Screen
    <3>2. QED
      BY <2>1, <3>1 DEF UsersInv, UsersTyped
  <2>3. loads' \in [Admin -> SUBSET Shown]
    BY <1>1, <1>2, <2>1 DEF UsersInv, UsersTyped
  <2>4. ScreensKnow'
    BY <1>1, <1>2, <2>1 DEF UsersInv, UsersTyped, ScreensKnow, Screen
  <2>5. QED
    BY <1>1, <2>2, <2>3, <2>4, ScreenKeeps
<1>4. CASE Users!WriteFails(i)
  <2>1. PICK where \in {"banner", "dialog"} :
            tab' = [tab EXCEPT ![a].busy = FALSE, ![a].error = where]
    BY <1>4 DEF Users!WriteFails
  <2>2. UNCHANGED loads
    BY <1>4 DEF Users!WriteFails
  <2> HIDE DEF a
  <2>3. tab' \in [Admin -> Screen]
    <3>1. [tab[a] EXCEPT !.busy = FALSE, !.error = where] \in Screen
      BY <1>1 DEF Screen
    <3>2. QED
      BY <2>1, <3>1 DEF UsersInv, UsersTyped
  <2>4. loads' \in [Admin -> SUBSET Shown] /\ ScreensKnow'
    BY <1>1, <2>1, <2>2 DEF UsersInv, UsersTyped, ScreensKnow, Screen
  <2>5. QED
    BY <1>1, <2>3, <2>4, ScreenKeeps
<1>5. QED
  BY <1>3, <1>4
-----------------------------------------------------------------------------
\* What every step of a tool starts from.
LEMMA CallAt ==
    ASSUME UsersInv, NEW i \in DOMAIN calls
    PROVE  /\ calls[i] \in WriteCall /\ Knows(calls[i], user, identity, minted)
           /\ identity.id \in Nat /\ minted \in Nat /\ identity.id <= minted
           /\ user # None => user \in Users!Row /\ user.auth \in 1 .. minted
BY DEF UsersInv, UsersTyped, CallsKnow, Numbered, Users!Row

\* What a tool writes down of itself.
LEMMA Moved ==
    ASSUME NEW c \in WriteCall, NEW phase \in Phase, NEW d, d = [c EXCEPT !.phase = phase]
    PROVE  /\ d \in WriteCall /\ d.op = c.op /\ d.access = c.access
           /\ d.phase = phase /\ d.auth = c.auth /\ d.seen = c.seen
BY DEF WriteCall

\* A tool that only moves on, where the next phase tells nothing new, keeps
\* everything.
LEMMA Settles ==
    ASSUME UsersInv, NEW i \in DOMAIN calls, UNCHANGED <<user, identity, minted, tab, loads>>,
           NEW phase \in {"done", "refused", "dead"}, Users!At(i, phase)
    PROVE  UsersInv'
<1> DEFINE c == [calls[i] EXCEPT !.phase = phase]
<1>1. calls' = [calls EXCEPT ![i] = c]
  BY DEF Users!At
<1>2. /\ c \in WriteCall /\ c.op = calls[i].op /\ c.access = calls[i].access /\ c.phase = phase
  BY CallAt, Moved
<1> HIDE DEF c
<1>3. Knows(c, user, identity, minted)
  BY <1>2, CallAt DEF Knows, Removes
<1>4. \A j \in DOMAIN calls : j # i => Knows(calls[j], user, identity, minted)
  BY DEF UsersInv, CallsKnow
<1>5. /\ user \in Users!Row \cup {None} /\ identity \in [id : Nat, confirmed : BOOLEAN]
      /\ minted \in Nat /\ Numbered /\ Users!RemovedForGood /\ Users!AccessOfOneEdit
  BY DEF UsersInv, UsersTyped
<1>6. Numbered' /\ Users!RemovedForGood' /\ Users!AccessOfOneEdit'
  BY <1>5 DEF Numbered, Users!RemovedForGood, Users!AccessOfOneEdit
<1>7. QED
  BY <1>1, <1>2, <1>3, <1>4, <1>5, <1>6, ToolKeeps

\* An invitation's identity is the one there is, or a new one.
LEMMA Invited ==
    ASSUME UsersInv, Users!AuthInvite
    PROVE  /\ identity' \in [id : Nat, confirmed : BOOLEAN] /\ minted' \in Nat
           /\ identity'.id \in 1 .. minted' /\ minted <= minted'
           /\ identity'.id = identity.id \/ identity'.id = minted + 1
<1>1. /\ identity \in [id : Nat, confirmed : BOOLEAN] /\ minted \in Nat
      /\ identity.id \in Nat /\ identity.id <= minted
  BY DEF UsersInv, UsersTyped, Numbered
<1>2. CASE identity.id = 0
  <2>1. minted' = minted + 1 /\ identity' = [id |-> minted + 1, confirmed |-> FALSE]
    BY <1>2 DEF Users!AuthInvite
  <2>2. QED
    BY <1>1, <2>1
<1>3. CASE identity.id # 0
  <2>1. minted' = minted /\ identity' = identity
    BY <1>3 DEF Users!AuthInvite
  <2>2. QED
    BY <1>1, <1>3, <2>1
<1>4. QED
  BY <1>2, <1>3

\* So nobody's knowledge of the row's identity is lost by it.
LEMMA InvitedKeeps ==
    ASSUME UsersInv, Users!AuthInvite, UNCHANGED user
    PROVE  /\ Numbered' /\ Users!RemovedForGood' /\ Users!AccessOfOneEdit'
           /\ \A j \in DOMAIN calls : Knows(calls[j], user', identity', minted')
<1>1. /\ minted \in Nat /\ minted' \in Nat /\ identity'.id \in 1 .. minted' /\ minted <= minted'
      /\ (identity'.id = identity.id \/ identity'.id = minted + 1)
      /\ user # None => user.auth \in 1 .. minted
  BY Invited DEF UsersInv, UsersTyped, Numbered
<1>2. user # None /\ identity.id # user.auth => identity'.id # user.auth
  BY <1>1
<1>3. Numbered'
  BY <1>1 DEF Numbered
<1>4. Users!RemovedForGood' /\ Users!AccessOfOneEdit'
  BY <1>2 DEF UsersInv, Users!RemovedForGood, Users!AccessOfOneEdit
<1>5. ASSUME NEW j \in DOMAIN calls
      PROVE  Knows(calls[j], user', identity', minted')
  <2>1. Knows(calls[j], user, identity, minted)
    BY DEF UsersInv, CallsKnow
  <2>2. \A n : n \in 1 .. minted => n \in 1 .. minted'
    BY <1>1
  <2>3. Removes(calls[j]) => user # None
    BY <2>1 DEF Knows, Removes
  <2>4. QED
    BY <1>2, <2>1, <2>2, <2>3 DEF Knows
<1>6. QED
  BY <1>3, <1>4, <1>5
-----------------------------------------------------------------------------
LEMMA DiesKeeps ==
    ASSUME UsersInv, NEW i \in DOMAIN calls, Users!ToolDies(i)
    PROVE  UsersInv'
BY Settles DEF Users!ToolDies, Users!auth

LEMMA CreateKeeps ==
    ASSUME UsersInv, NEW i \in DOMAIN calls, Users!CreateAuthUser(i)
    PROVE  UsersInv'
<1>1. CASE UNCHANGED Users!auth /\ Users!At(i, "refused")
  BY <1>1, Settles DEF Users!CreateAuthUser, Users!Screens, Users!auth
<1>2. CASE /\ Users!AuthInvite
           /\ calls' = [calls EXCEPT ![i].phase = "created", ![i].auth = identity'.id]
  <2> DEFINE c == [calls[i] EXCEPT !.phase = "created", !.auth = identity'.id]
  <2>1. calls[i] \in WriteCall /\ calls[i].op = "invite" /\ Knows(calls[i], user, identity, minted)
    BY CallAt DEF Users!CreateAuthUser, Users!Is
  <2>2. /\ identity' \in [id : Nat, confirmed : BOOLEAN] /\ minted' \in Nat
        /\ identity'.id \in 1 .. minted' /\ identity'.id \in Nat
    BY <1>2, Invited
  <2>3. calls' = [calls EXCEPT ![i] = c]
    BY <1>2
  <2>4. /\ c \in WriteCall /\ c.op = "invite" /\ c.access = calls[i].access
        /\ c.phase = "created" /\ c.auth = identity'.id
    BY <2>1, <2>2 DEF WriteCall
  <2> HIDE DEF c
  <2>5. Knows(c, user', identity', minted')
    BY <2>1, <2>2, <2>4 DEF Knows, Removes
  <2>6. UNCHANGED <<user, tab, loads>> /\ user \in Users!Row \cup {None}
    BY DEF Users!CreateAuthUser, Users!Screens, UsersInv, UsersTyped
  <2>7. /\ Numbered' /\ Users!RemovedForGood' /\ Users!AccessOfOneEdit'
        /\ \A j \in DOMAIN calls : Knows(calls[j], user', identity', minted')
    BY <1>2, <2>6, InvitedKeeps
  <2>8. QED
    BY <2>2, <2>3, <2>4, <2>5, <2>6, <2>7, ToolKeeps
<1>3. QED
  BY <1>1, <1>2 DEF Users!CreateAuthUser

LEMMA InsertKeeps ==
    ASSUME UsersInv, NEW i \in DOMAIN calls, Users!InsertUser(i)
    PROVE  UsersInv'
<1>1. UNCHANGED <<identity, minted, tab, loads>>
  BY DEF Users!InsertUser, Users!Screens, Users!auth
<1>2. CASE user # None
  BY <1>1, <1>2, Settles DEF Users!InsertUser
<1>3. CASE user = None
  <2> DEFINE c == [calls[i] EXCEPT !.phase = "done"]
  <2>1. /\ calls[i] \in WriteCall /\ calls[i].op = "invite" /\ calls[i].phase = "created"
        /\ calls[i].access \in Access /\ calls[i].auth \in 1 .. minted /\ calls[i].auth \in Nat
        /\ minted \in Nat /\ identity \in [id : Nat, confirmed : BOOLEAN] /\ identity.id <= minted
    BY CallAt DEF Users!InsertUser, Users!Is, Knows, UsersInv, UsersTyped
  <2>2. user' = Users!NewRow(calls[i].access, calls[i].auth) /\ calls' = [calls EXCEPT ![i] = c]
    BY <1>3 DEF Users!InsertUser, Users!At
  <2>3. /\ user' \in Users!Row /\ user'.role = calls[i].access /\ user'.scopes = {calls[i].access}
        /\ user'.removed = FALSE /\ user'.auth = calls[i].auth
    BY <2>1, <2>2 DEF Users!NewRow, Users!Row
  <2>4. user' # None
    BY <2>3, NoneIsNoRow
  <2>5. c \in WriteCall /\ c.op = "invite" /\ c.access \in Access /\ c.phase = "done"
    BY <2>1, Moved
  <2> HIDE DEF c
  <2>6. Knows(c, user', identity', minted')
    BY <2>5 DEF Knows, Removes
  <2>7. ASSUME NEW j \in DOMAIN calls
        PROVE  Knows(calls[j], user', identity', minted')
    <3>1. calls[j].op = "invite" /\ Knows(calls[j], user, identity, minted)
      BY <1>3 DEF UsersInv, CallsKnow, Knows
    <3>2. QED
      BY <1>1, <3>1 DEF Knows, Removes
  <2>8. Numbered' /\ Users!RemovedForGood' /\ Users!AccessOfOneEdit'
    BY <1>1, <2>1, <2>3 DEF Numbered, Users!RemovedForGood, Users!AccessOfOneEdit
  <2>9. QED
    BY <1>1, <2>1, <2>2, <2>3, <2>4, <2>5, <2>6, <2>7, <2>8, ToolKeeps
<1>4. QED
  BY <1>2, <1>3

\* The row is taken by an edit, which notes the scopes it deletes.
LEMMA UpdateKeeps ==
    ASSUME UsersInv, NEW i \in DOMAIN calls, Users!UpdateUser(i)
    PROVE  UsersInv'
<1> DEFINE c == [calls[i] EXCEPT !.phase = "locked", !.seen = user.scopes]
<1>1. UNCHANGED <<user, identity, minted, tab, loads>> /\ Users!RowFree
      /\ calls' = [calls EXCEPT ![i] = c]
  BY DEF Users!UpdateUser, Users!Screens, Users!auth
<1>2. /\ calls[i] \in WriteCall /\ calls[i].op = "edit" /\ calls[i].access \in Access
      /\ user \in Users!Row /\ user # None
  BY CallAt DEF Users!UpdateUser, Users!Is, Knows
<1>3. user.scopes \in SUBSET Access
  BY <1>2 DEF Users!Row
<1>4. /\ c \in WriteCall /\ c.op = "edit" /\ c.access \in Access
      /\ c.phase = "locked" /\ c.seen = user.scopes
  BY <1>2, <1>3 DEF WriteCall
<1> HIDE DEF c
<1>5. Knows(c, user, identity, minted)
  BY <1>2, <1>4 DEF Knows, Removes
<1>6. /\ user \in Users!Row \cup {None} /\ identity \in [id : Nat, confirmed : BOOLEAN]
      /\ minted \in Nat /\ \A j \in DOMAIN calls : Knows(calls[j], user, identity, minted)
  BY DEF UsersInv, UsersTyped, CallsKnow
<1>7. Numbered' /\ Users!RemovedForGood' /\ Users!AccessOfOneEdit'
  BY <1>1 DEF UsersInv, Numbered, Users!RemovedForGood, Users!AccessOfOneEdit
<1>8. QED
  BY <1>1, <1>4, <1>5, <1>6, <1>7, ToolKeeps

\* A tool that changes the row, but not its identity, finishes.
LEMMA RowKeeps ==
    ASSUME UsersInv, NEW i \in DOMAIN calls, Users!At(i, "done"), calls[i].op # "invite",
           UNCHANGED <<identity, minted, tab, loads>>,
           user # None, user' \in Users!Row, user'.auth = user.auth,
           \A j \in DOMAIN calls : j # i /\ calls[j].phase = "locked" => user'.scopes = user.scopes,
           Users!RemovedForGood', Users!AccessOfOneEdit'
    PROVE  UsersInv'
<1> DEFINE c == [calls[i] EXCEPT !.phase = "done"]
<1>1. calls' = [calls EXCEPT ![i] = c]
  BY DEF Users!At
<1>2. /\ c \in WriteCall /\ c.op = calls[i].op /\ c.access = calls[i].access /\ c.phase = "done"
      /\ Knows(calls[i], user, identity, minted)
  BY CallAt, Moved
<1> HIDE DEF c
<1>3. user' # None
  BY NoneIsNoRow
<1>4. Knows(c, user', identity', minted')
  BY <1>2, <1>3 DEF Knows, Removes
<1>5. ASSUME NEW j \in DOMAIN calls, j # i
      PROVE  Knows(calls[j], user', identity', minted')
  <2>1. Knows(calls[j], user, identity, minted)
    BY DEF UsersInv, CallsKnow
  <2>2. QED
    BY <1>3, <1>5, <2>1 DEF Knows
<1>6. Numbered'
  BY <1>3 DEF UsersInv, Numbered
<1>7. identity \in [id : Nat, confirmed : BOOLEAN] /\ minted \in Nat
  BY DEF UsersInv, UsersTyped
<1>8. QED
  BY <1>1, <1>2, <1>3, <1>4, <1>5, <1>6, <1>7, ToolKeeps

LEMMA WriteScopesKeeps ==
    ASSUME UsersInv, NEW i \in DOMAIN calls, Users!WriteUserScopes(i)
    PROVE  UsersInv'
<1>1. /\ calls[i].op = "edit" /\ calls[i].phase = "locked" /\ Users!At(i, "done")
      /\ UNCHANGED <<identity, minted, tab, loads>>
      /\ user' = [user EXCEPT !.role = calls[i].access,
                             !.scopes = (@ \ calls[i].seen) \cup {calls[i].access}]
  BY DEF Users!WriteUserScopes, Users!Is, Users!Screens, Users!auth
<1>2. /\ calls[i].access \in Access /\ user \in Users!Row /\ user # None
      /\ calls[i].seen = user.scopes
  BY <1>1, CallAt DEF Knows
<1>3. /\ user' \in Users!Row /\ user'.auth = user.auth /\ user'.removed = user.removed
      /\ user'.active = user.active /\ user'.role = calls[i].access
      /\ user'.scopes = {calls[i].access}
  BY <1>1, <1>2 DEF Users!Row
<1>4. \A j \in DOMAIN calls : j # i => calls[j].phase # "locked"
  BY <1>1 DEF UsersInv, OneLock
<1>5. Users!AccessOfOneEdit'
  BY <1>3 DEF Users!AccessOfOneEdit
<1>6. Users!RemovedForGood'
  BY <1>1, <1>2, <1>3 DEF UsersInv, Users!RemovedForGood
<1>7. QED
  BY <1>1, <1>2, <1>3, <1>4, <1>5, <1>6, RowKeeps

LEMMA SwitchKeeps ==
    ASSUME UsersInv, NEW i \in DOMAIN calls, NEW active \in BOOLEAN, Users!SetActive(i, active)
    PROVE  UsersInv'
<1>1. UNCHANGED <<identity, minted, tab, loads>> /\ calls[i].op \in {"reactivate", "deactivate"}
  BY DEF Users!SetActive, Users!Is, Users!Screens, Users!auth
<1>2. CASE ~ Users!Switchable
  BY <1>1, <1>2, Settles DEF Users!SetActive
<1>3. CASE Users!Switchable
  <2>1. /\ user' = [user EXCEPT !.active = active] /\ Users!At(i, "done") /\ ~ user.removed
        /\ user # None /\ user \in Users!Row
    BY <1>1, <1>3, CallAt DEF Users!SetActive, Users!Switchable, Knows
  <2>2. /\ user' \in Users!Row /\ user'.auth = user.auth /\ user'.scopes = user.scopes
        /\ user'.role = user.role /\ user'.removed = user.removed
    BY <2>1 DEF Users!Row
  <2>3. Users!RemovedForGood' /\ Users!AccessOfOneEdit'
    BY <2>1, <2>2 DEF UsersInv, Users!RemovedForGood, Users!AccessOfOneEdit
  <2>4. QED
    BY <1>1, <2>1, <2>2, <2>3, RowKeeps
<1>4. QED
  BY <1>2, <1>3

\* Whoever is about to remove the user has read the identity his row names.
LEMMA ReadKeeps ==
    ASSUME UsersInv, NEW i \in DOMAIN calls, Users!ReadUser(i)
    PROVE  UsersInv'
<1>1. UNCHANGED <<user, identity, minted, tab, loads>>
      /\ calls[i].op \in {"remove", "revoke", "resend"}
  BY DEF Users!ReadUser, Users!Is, Users!Screens, Users!auth
<1>2. CASE Users!At(i, "refused")
  BY <1>1, <1>2, Settles
<1>3. CASE calls' = [calls EXCEPT ![i].phase = "read", ![i].auth = user.auth]
  <2> DEFINE c == [calls[i] EXCEPT !.phase = "read", !.auth = user.auth]
  <2>1. calls[i] \in WriteCall /\ user # None /\ user.auth \in Nat
    BY <1>1, CallAt DEF Knows, Users!Row
  <2>2. /\ c \in WriteCall /\ c.op = calls[i].op /\ c.phase = "read" /\ c.auth = user.auth
    BY <2>1 DEF WriteCall
  <2>3. calls' = [calls EXCEPT ![i] = c]
    BY <1>3
  <2> HIDE DEF c
  <2>4. Knows(c, user, identity, minted)
    BY <1>1, <2>1, <2>2 DEF Knows, Removes
  <2>5. /\ user \in Users!Row \cup {None} /\ identity \in [id : Nat, confirmed : BOOLEAN]
        /\ minted \in Nat /\ \A j \in DOMAIN calls : Knows(calls[j], user, identity, minted)
    BY DEF UsersInv, UsersTyped, CallsKnow
  <2>6. Numbered' /\ Users!RemovedForGood' /\ Users!AccessOfOneEdit'
    BY <1>1 DEF UsersInv, Numbered, Users!RemovedForGood, Users!AccessOfOneEdit
  <2>7. QED
    BY <1>1, <2>2, <2>3, <2>4, <2>5, <2>6, ToolKeeps
<1>4. QED
  BY <1>2, <1>3 DEF Users!ReadUser

\* After it, the row's identity is gone: it was the one there is, or there is
\* another by now.
LEMMA DeleteKeeps ==
    ASSUME UsersInv, NEW i \in DOMAIN calls, Users!DeleteAuthUser(i)
    PROVE  UsersInv'
<1> DEFINE c == [calls[i] EXCEPT !.phase = "deleted"]
<1>1. /\ UNCHANGED <<user, minted, tab, loads>> /\ calls' = [calls EXCEPT ![i] = c]
      /\ identity' = IF identity.id = calls[i].auth THEN Users!NoIdentity ELSE identity
      /\ Removes(calls[i]) /\ calls[i].phase = "read"
  BY DEF Users!DeleteAuthUser, Users!Is, Users!At, Users!Screens, Removes
<1>2. /\ calls[i] \in WriteCall /\ user # None /\ calls[i].auth = user.auth
      /\ user.auth \in 1 .. minted /\ minted \in Nat /\ identity.id \in Nat /\ identity.id <= minted
  BY <1>1, CallAt DEF Knows, Removes
<1>3. /\ c \in WriteCall /\ c.op = calls[i].op /\ c.access = calls[i].access
      /\ c.phase = "deleted" /\ c.auth = user.auth
  BY <1>2, Moved
<1> HIDE DEF c
<1>4. identity' \in [id : Nat, confirmed : BOOLEAN] /\ identity'.id # user.auth
      /\ identity'.id \in Nat /\ identity'.id <= minted
  <2>1. CASE identity.id = calls[i].auth
    BY <1>1, <1>2, <2>1 DEF Users!NoIdentity
  <2>2. CASE identity.id # calls[i].auth
    BY <1>1, <1>2, <2>2 DEF UsersInv, UsersTyped
  <2>3. QED
    BY <2>1, <2>2
<1>5. Knows(c, user', identity', minted')
  BY <1>1, <1>2, <1>3, <1>4 DEF Knows, Removes
<1>6. ASSUME NEW j \in DOMAIN calls
      PROVE  Knows(calls[j], user', identity', minted')
  <2>1. Knows(calls[j], user, identity, minted)
    BY DEF UsersInv, CallsKnow
  <2>2. QED
    BY <1>1, <1>4, <2>1 DEF Knows
<1>7. Numbered' /\ Users!RemovedForGood' /\ Users!AccessOfOneEdit'
  BY <1>1, <1>4 DEF UsersInv, Numbered, Users!RemovedForGood, Users!AccessOfOneEdit
<1>8. user \in Users!Row \cup {None} /\ minted \in Nat
  BY DEF UsersInv, UsersTyped
<1>9. QED
  BY <1>1, <1>3, <1>4, <1>5, <1>6, <1>7, <1>8, ToolKeeps

LEMMA StampKeeps ==
    ASSUME UsersInv, NEW i \in DOMAIN calls, Users!StampRemoved(i)
    PROVE  UsersInv'
<1>1. /\ UNCHANGED <<identity, minted, tab, loads>> /\ Users!At(i, "done")
      /\ user' = [user EXCEPT !.active = FALSE, !.removed = TRUE]
      /\ Removes(calls[i]) /\ calls[i].phase = "deleted" /\ calls[i].op # "invite"
  BY DEF Users!StampRemoved, Users!Is, Users!Screens, Users!auth, Removes
<1>2. user # None /\ user \in Users!Row /\ identity.id # user.auth
  BY <1>1, CallAt DEF Knows
<1>3. /\ user' \in Users!Row /\ user'.auth = user.auth /\ user'.scopes = user.scopes
      /\ user'.role = user.role /\ ~ user'.active
  BY <1>1, <1>2 DEF Users!Row
<1>4. Users!RemovedForGood' /\ Users!AccessOfOneEdit'
  BY <1>1, <1>2, <1>3 DEF UsersInv, Users!RemovedForGood, Users!AccessOfOneEdit
<1>5. QED
  BY <1>1, <1>2, <1>3, <1>4, RowKeeps

LEMMA ResendKeeps ==
    ASSUME UsersInv, NEW i \in DOMAIN calls, Users!ResendInvite(i)
    PROVE  UsersInv'
<1>1. UNCHANGED <<user, tab, loads>> /\ calls[i].op = "resend"
  BY DEF Users!ResendInvite, Users!Is, Users!Screens
<1>2. CASE UNCHANGED Users!auth /\ Users!At(i, "refused")
  BY <1>1, <1>2, Settles DEF Users!auth
<1>3. CASE Users!AuthInvite /\ Users!At(i, "done")
  <2> DEFINE c == [calls[i] EXCEPT !.phase = "done"]
  <2>1. calls' = [calls EXCEPT ![i] = c]
    BY <1>3 DEF Users!At
  <2>2. /\ c \in WriteCall /\ c.op = "resend" /\ c.phase = "done"
        /\ user # None /\ user \in Users!Row
    BY <1>1, CallAt, Moved DEF Knows
  <2> HIDE DEF c
  <2>3. Knows(c, user', identity', minted')
    BY <1>1, <2>2 DEF Knows, Removes
  <2>4. identity' \in [id : Nat, confirmed : BOOLEAN] /\ minted' \in Nat
    BY <1>3, Invited
  <2>5. /\ Numbered' /\ Users!RemovedForGood' /\ Users!AccessOfOneEdit'
        /\ \A j \in DOMAIN calls : Knows(calls[j], user', identity', minted')
    BY <1>1, <1>3, InvitedKeeps
  <2>6. QED
    BY <1>1, <2>1, <2>2, <2>3, <2>4, <2>5, ToolKeeps
<1>4. QED
  BY <1>2, <1>3 DEF Users!ResendInvite
-----------------------------------------------------------------------------
\* The person's steps: a link accepted, and the first request.
LEMMA PersonKeeps ==
    ASSUME UsersInv, Users!AcceptLink \/ Users!Request
    PROVE  UsersInv'
<1>1. UNCHANGED <<minted, tab, loads, calls>>
  BY DEF Users!AcceptLink, Users!Request, Users!auth
<1>2. CASE Users!AcceptLink
  <2>1. identity \in [id : Nat, confirmed : BOOLEAN] /\ UNCHANGED user
        /\ identity' = [identity EXCEPT !.confirmed = TRUE]
    BY <1>2 DEF UsersInv, UsersTyped, Users!AcceptLink
  <2>2. identity' \in [id : Nat, confirmed : BOOLEAN] /\ identity'.id = identity.id
    BY <2>1
  <2>3. CallsKnow'
    BY <1>1, <2>1, <2>2 DEF UsersInv, CallsKnow, Knows
  <2>4. UsersTyped' /\ ScreensKnow' /\ Numbered' /\ OneLock'
    BY <1>1, <2>1, <2>2 DEF UsersInv, UsersTyped, ScreensKnow, Numbered, OneLock
  <2>5. Users!RemovedForGood' /\ Users!AccessOfOneEdit'
    BY <2>1, <2>2 DEF UsersInv, Users!RemovedForGood, Users!AccessOfOneEdit
  <2>6. QED
    BY <2>3, <2>4, <2>5 DEF UsersInv
<1>3. CASE Users!Request
  <2>1. /\ user \in Users!Row /\ user # None /\ UNCHANGED identity
        /\ user' = [user EXCEPT !.accepted = TRUE]
    BY <1>3 DEF UsersInv, UsersTyped, Users!Request, Users!auth
  <2>2. /\ user' \in Users!Row /\ user'.auth = user.auth /\ user'.scopes = user.scopes
        /\ user'.role = user.role /\ user'.active = user.active /\ user'.removed = user.removed
    BY <2>1 DEF Users!Row
  <2>3. user' # None
    BY <2>2, NoneIsNoRow
  <2>4. CallsKnow'
    BY <1>1, <2>1, <2>2, <2>3 DEF UsersInv, CallsKnow, Knows
  <2>5. UsersTyped' /\ ScreensKnow' /\ Numbered' /\ OneLock'
    BY <1>1, <2>1, <2>2, <2>3 DEF UsersInv, UsersTyped, ScreensKnow, Numbered, OneLock
  <2>6. Users!RemovedForGood' /\ Users!AccessOfOneEdit'
    BY <2>1, <2>2, <2>3 DEF UsersInv, Users!RemovedForGood, Users!AccessOfOneEdit
  <2>7. QED
    BY <2>4, <2>5, <2>6 DEF UsersInv
<1>4. QED
  BY <1>2, <1>3

LEMMA UsersKeep ==
    ASSUME UsersInv, [Users!Next]_Users!vars
    PROVE  UsersInv'
<1>1. ASSUME NEW a \in Admin, Users!Tab(a)
      PROVE  UsersInv'
  BY <1>1, TabKeeps
<1>2. ASSUME NEW i \in DOMAIN calls, Users!WriteLands(i) \/ Users!WriteFails(i)
      PROVE  UsersInv'
  BY <1>2, AnswerKeeps
<1>3. ASSUME NEW i \in DOMAIN calls, Users!Tool(i)
      PROVE  UsersInv'
  BY <1>3, DiesKeeps, CreateKeeps, InsertKeeps, UpdateKeeps, WriteScopesKeeps, SwitchKeeps,
     ReadKeeps, DeleteKeeps, StampKeeps, ResendKeeps DEF Users!Tool
<1>4. CASE Users!AcceptLink \/ Users!Request
  BY <1>4, PersonKeeps
<1>5. CASE UNCHANGED Users!vars
  <2>1. UNCHANGED <<user, identity, minted, tab, loads, calls>>
    BY <1>5 DEF Users!vars, Users!auth
  <2>2. UsersTyped' /\ ScreensKnow' /\ Numbered' /\ CallsKnow' /\ OneLock'
    BY <2>1 DEF UsersInv, UsersTyped, ScreensKnow, Numbered, CallsKnow, OneLock
  <2>3. QED
    BY <2>1, <2>2 DEF UsersInv, Users!RemovedForGood, Users!AccessOfOneEdit
<1>6. QED
  BY <1>1, <1>2, <1>3, <1>4, <1>5 DEF Users!Next

HIDE DEF Shown, Op, Phase
-----------------------------------------------------------------------------
(* PolicyEditor: a published version is what its admin decided on.  The     *)
(* invariant says whose each key and each answer on its way is, and which   *)
(* version a screen that shows one has read.                                *)

Weights == Routine \cup Fair \cup {Invalid}
Simulated == [kind : {"idle", "running"}]
             \cup [kind : {"result"}, weights : Weights, vacuous : BOOLEAN]
Outcome == [kind : {"idle", "busy", "failed", "conflict"}] \cup [kind : {"done"}, version : Nat]
PolicyScreen ==
    [load : {"loading", "ready", "failed"}, version : Nat, draft : Weights,
     sim : Simulated, publish : Outcome, simFailed : BOOLEAN, unlocked : BOOLEAN, key : Nat]
BaselineRead == [seeds : BOOLEAN, loads : BOOLEAN, asked : Nat]
Simulation == [n : Nat, weights : Weights]
PublishCall ==
    [by : Admin, key : Nat, weights : Weights, base : Nat, shown : Weights, unlocked : BOOLEAN,
     client : {"open", "closed"}, server : {"asked", "looked up", "answered", "lost"},
     answer : Outcome]
Version == [weights : Weights, by : Admin, key : Nat, publish : Nat, base : Nat]

PolicyTyped ==
    /\ tab \in [Admin -> PolicyScreen]
    /\ reads \in [Admin -> SUBSET BaselineRead]
    /\ sims \in [Admin -> SUBSET Simulation]
    /\ publishes \in Seq(PublishCall)
    /\ versions \in Seq(Version)
    /\ edits \in Nat /\ simulated \in Nat /\ troubles \in Nat

\* A key is one that was made, and one admin's.
KeysOwned(ps) ==
    /\ \A i \in DOMAIN ps : ps[i].key \in 1 .. Len(ps)
    /\ \A i, j \in DOMAIN ps : ps[i].key = ps[j].key => ps[i].by = ps[j].by

\* What a tab shows, of the publishes and the versions there are: a version of
\* before, fairness only unlocked, the key of an attempt of its own admin, and
\* done only with a version of his.
TabKnows(t, a, ps, vs) ==
    /\ t.version <= Len(vs)
    /\ t.draft \in Fair => t.unlocked
    /\ t.key # 0 => \E i \in DOMAIN ps : ps[i].key = t.key /\ ps[i].by = a
    /\ t.publish.kind = "done" => t.publish.version \in DOMAIN vs /\ vs[t.publish.version].by = a

\* What a publish under way knows: one that has looked its key up has missed
\* nothing of before its baseline.
CallKnows(p, vs) ==
    /\ p.weights = p.shown
    /\ p.weights \in Fair => p.unlocked
    /\ p.base <= Len(vs)
    /\ p.server = "looked up" => \A v \in DOMAIN vs : vs[v].key = p.key => v > p.base
    /\ p.answer.kind = "done" => p.answer.version \in DOMAIN vs /\ vs[p.answer.version].key = p.key

\* The n-th version comes of a publish upon the one before it.
ComesOf(v, n, ps) ==
    /\ v.publish \in DOMAIN ps
    /\ ps[v.publish].by = v.by /\ ps[v.publish].key = v.key /\ ps[v.publish].base = n - 1

OncePerKey(vs) == \A v, w \in DOMAIN vs : vs[v].key = vs[w].key => v = w

PolicyInv ==
    /\ PolicyTyped /\ KeysOwned(publishes)
    /\ \A a \in Admin : TabKnows(tab[a], a, publishes, versions)
    /\ \A i \in DOMAIN publishes : CallKnows(publishes[i], versions)
    /\ \A v \in DOMAIN versions : ComesOf(versions[v], v, publishes)
    /\ OncePerKey(versions)

LEMMA LiveIsRoutine ==
    /\ LiveWeights \in Weights /\ LiveWeights \notin Fair
    /\ Invalid \notin Fair /\ Policy!Idle \in Simulated /\ Policy!Idle \in Outcome
    /\ Policy!Mounted \in PolicyScreen
    /\ Policy!Mounted.key = 0 /\ Policy!Mounted.version = 0
    /\ Policy!Mounted.publish = Policy!Idle /\ Policy!Mounted.draft = LiveWeights
<1>1. LiveWeights \in Weights /\ LiveWeights \notin Fair /\ Invalid \notin Fair
  BY ConsolesAssumption DEF Policy!PolicyAssumption, Weights
<1>2. Policy!Idle \in Simulated /\ Policy!Idle \in Outcome
  BY DEF Policy!Idle, Simulated, Outcome
<1>3. QED
  BY <1>1, <1>2 DEF Policy!Mounted, PolicyScreen

LEMMA PolicyStart ==
    ASSUME Policy!Init
    PROVE  PolicyInv
<1>1. PolicyTyped
  <2>1. tab \in [Admin -> PolicyScreen]
    BY LiveIsRoutine DEF Policy!Init
  <2>2. publishes = << >> /\ versions = << >>
    BY DEF Policy!Init
  <2>3. Policy!Read(TRUE, TRUE) \in BaselineRead
    BY <2>2 DEF Policy!Read, BaselineRead
  <2>4. reads \in [Admin -> SUBSET BaselineRead]
    BY <2>3 DEF Policy!Init
  <2>5. sims \in [Admin -> SUBSET Simulation] /\ edits \in Nat /\ simulated \in Nat /\ troubles \in Nat
    BY DEF Policy!Init
  <2>6. publishes \in Seq(PublishCall) /\ versions \in Seq(Version)
    BY <2>2
  <2>7. QED
    BY <2>1, <2>4, <2>5, <2>6 DEF PolicyTyped
<1>2. ASSUME NEW a \in Admin
      PROVE  TabKnows(tab[a], a, publishes, versions)
  <2>1. tab[a] = Policy!Mounted /\ versions = << >>
    BY DEF Policy!Init
  <2>2. QED
    BY <2>1, LiveIsRoutine DEF TabKnows, Policy!Idle
<1>3. publishes = << >> /\ versions = << >>
  BY DEF Policy!Init
<1>4. QED
  BY <1>1, <1>2, <1>3 DEF PolicyInv, KeysOwned, OncePerKey
-----------------------------------------------------------------------------
\* What only the tab of an admin does.
LEMMA PolicyTabMoves ==
    ASSUME PolicyInv, NEW a \in Admin, NEW u \in PolicyScreen,
           tab' = [tab EXCEPT ![a] = u],
           TabKnows(u, a, publishes, versions),
           reads' \in [Admin -> SUBSET BaselineRead],
           sims' \in [Admin -> SUBSET Simulation],
           edits' \in Nat, simulated' \in Nat, troubles' \in Nat,
           UNCHANGED <<publishes, versions>>
    PROVE  PolicyInv'
<1>1. PolicyTyped'
  BY DEF PolicyInv, PolicyTyped
<1>2. ASSUME NEW b \in Admin
      PROVE  TabKnows(tab'[b], b, publishes, versions)
  <2>1. tab'[b] = IF b = a THEN u ELSE tab[b]
    BY DEF PolicyInv, PolicyTyped
  <2>2. QED
    BY <2>1 DEF PolicyInv
<1>3. publishes' = publishes /\ versions' = versions
  OBVIOUS
<1>4. QED
  BY <1>1, <1>2, <1>3 DEF PolicyInv

\* The same request, whatever has become of it.
SameCall(p, q) ==
    /\ p.by = q.by /\ p.key = q.key /\ p.base = q.base /\ p.weights = q.weights
    /\ p.shown = q.shown /\ p.unlocked = q.unlocked

LEMMA CallsMove ==
    ASSUME NEW ps \in Seq(PublishCall), NEW qs \in Seq(PublishCall), Len(qs) = Len(ps),
           \A i \in DOMAIN ps : SameCall(qs[i], ps[i])
    PROVE  /\ KeysOwned(ps) => KeysOwned(qs)
           /\ \A t, a, vs : TabKnows(t, a, ps, vs) => TabKnows(t, a, qs, vs)
           /\ \A v, n : ComesOf(v, n, ps) => ComesOf(v, n, qs)
<1>1. DOMAIN qs = DOMAIN ps
  BY LenProperties
<1>2. KeysOwned(ps) => KeysOwned(qs)
  BY <1>1 DEF KeysOwned, SameCall
<1>3. \A t, a, vs : TabKnows(t, a, ps, vs) => TabKnows(t, a, qs, vs)
  BY <1>1 DEF TabKnows, SameCall
<1>4. \A v, n : ComesOf(v, n, ps) => ComesOf(v, n, qs)
  BY <1>1 DEF ComesOf, SameCall
<1>5. QED
  BY <1>2, <1>3, <1>4

\* What moves on in the publishes alone, and in one tab.
LEMMA PublishMoves ==
    ASSUME PolicyInv, NEW qs \in Seq(PublishCall), publishes' = qs, Len(qs) = Len(publishes),
           \A i \in DOMAIN publishes : SameCall(qs[i], publishes[i]) /\ CallKnows(qs[i], versions),
           NEW a \in Admin, NEW u \in PolicyScreen, tab' = [tab EXCEPT ![a] = u],
           TabKnows(u, a, publishes, versions),
           reads' \in [Admin -> SUBSET BaselineRead],
           sims' \in [Admin -> SUBSET Simulation],
           edits' \in Nat, simulated' \in Nat, troubles' \in Nat, UNCHANGED versions
    PROVE  PolicyInv'
<1>1. publishes \in Seq(PublishCall) /\ KeysOwned(publishes)
  BY DEF PolicyInv, PolicyTyped
<1>2. /\ KeysOwned(qs)
      /\ \A t, b, vs : TabKnows(t, b, publishes, vs) => TabKnows(t, b, qs, vs)
      /\ \A v, n : ComesOf(v, n, publishes) => ComesOf(v, n, qs)
  BY <1>1, CallsMove
<1>3. DOMAIN qs = DOMAIN publishes
  BY <1>1, LenProperties
<1>4. PolicyTyped'
  BY DEF PolicyInv, PolicyTyped
<1>5. ASSUME NEW b \in Admin
      PROVE  TabKnows(tab'[b], b, qs, versions)
  <2>1. tab'[b] = IF b = a THEN u ELSE tab[b]
    BY DEF PolicyInv, PolicyTyped
  <2>2. TabKnows(tab'[b], b, publishes, versions)
    BY <2>1 DEF PolicyInv
  <2>3. QED
    BY <2>2, <1>2
<1>6. \A v \in DOMAIN versions : ComesOf(versions[v], v, qs)
  BY <1>2 DEF PolicyInv
<1>7. versions' = versions /\ publishes' = qs
  OBVIOUS
<1>8. QED
  BY <1>2, <1>3, <1>4, <1>5, <1>6, <1>7 DEF PolicyInv

\* One more version takes nothing back.
LEMMA VersionsGrow ==
    ASSUME NEW vs \in Seq(Version), NEW v \in Version
    PROVE  /\ Len(Append(vs, v)) = Len(vs) + 1
           /\ Append(vs, v) \in Seq(Version)
           /\ DOMAIN vs = 1 .. Len(vs)
           /\ DOMAIN Append(vs, v) = 1 .. Len(vs) + 1
           /\ \A n \in DOMAIN vs : Append(vs, v)[n] = vs[n]
           /\ Append(vs, v)[Len(vs) + 1] = v
           /\ \A n \in DOMAIN Append(vs, v) : n \in DOMAIN vs \/ n = Len(vs) + 1
<1>1. Len(vs) \in Nat /\ DOMAIN vs = 1 .. Len(vs)
  BY LenProperties
<1>2. /\ Len(Append(vs, v)) = Len(vs) + 1
      /\ Append(vs, v) \in Seq(Version)
      /\ DOMAIN Append(vs, v) = 1 .. Len(vs) + 1
      /\ \A n \in DOMAIN vs : Append(vs, v)[n] = vs[n]
      /\ Append(vs, v)[Len(vs) + 1] = v
  BY AppendProperties, LenProperties
<1>3. \A n \in 1 .. Len(vs) + 1 : n \in 1 .. Len(vs) \/ n = Len(vs) + 1
  BY <1>1
<1>4. QED
  BY <1>1, <1>2, <1>3

LEMMA TabsKeepVersions ==
    ASSUME NEW vs \in Seq(Version), NEW v \in Version, NEW t \in PolicyScreen, NEW a, NEW ps,
           TabKnows(t, a, ps, vs)
    PROVE  TabKnows(t, a, ps, Append(vs, v))
<1>1. t.version \in Nat /\ Len(vs) \in Nat
  BY LenProperties DEF PolicyScreen
<1>2. QED
  BY <1>1, VersionsGrow DEF TabKnows

LEMMA CallsKeepVersions ==
    ASSUME NEW vs \in Seq(Version), NEW v \in Version, NEW p \in PublishCall,
           CallKnows(p, vs)
    PROVE  CallKnows(p, Append(vs, v))
<1>1. p.base \in Nat /\ Len(vs) \in Nat
  BY LenProperties DEF PublishCall
<1>2. PICK ws : ws = Append(vs, v)
  OBVIOUS
<1>3. /\ Len(ws) = Len(vs) + 1 /\ DOMAIN vs = 1 .. Len(vs) /\ DOMAIN ws = 1 .. Len(vs) + 1
      /\ \A n \in DOMAIN vs : ws[n] = vs[n]
      /\ \A n \in DOMAIN ws : n \in DOMAIN vs \/ n = Len(vs) + 1
  BY <1>2, VersionsGrow
<1>4. p.base <= Len(vs)
  BY DEF CallKnows
<1>5. p.base <= Len(ws)
  BY <1>1, <1>3, <1>4
<1>6. p.server = "looked up" => \A n \in DOMAIN ws : ws[n].key = p.key => n > p.base
  <2>1. p.server = "looked up" => \A n \in DOMAIN vs : vs[n].key = p.key => n > p.base
    BY DEF CallKnows
  <2>2. ASSUME p.server = "looked up", NEW n \in DOMAIN ws, ws[n].key = p.key
        PROVE  n > p.base
    <3>1. CASE n = Len(vs) + 1
      BY <1>1, <1>4, <3>1
    <3>2. CASE n \in DOMAIN vs
      BY <1>3, <2>1, <2>2, <3>2
    <3>3. n = Len(vs) + 1 \/ n \in DOMAIN vs
      BY <1>3, <2>2, Zenon
    <3>4. QED
      BY <3>1, <3>2, <3>3
  <2>3. QED
    BY <2>2
<1>7. p.answer.kind = "done" => p.answer.version \in DOMAIN ws /\ ws[p.answer.version].key = p.key
  <2>1. p.answer.kind = "done" => p.answer.version \in DOMAIN vs /\ vs[p.answer.version].key = p.key
    BY DEF CallKnows
  <2>2. QED
    BY <1>1, <1>3, <2>1
<1>8. CallKnows(p, ws)
  BY <1>5, <1>6, <1>7, Zenon DEF CallKnows
<1>9. QED
  BY <1>2, <1>8
-----------------------------------------------------------------------------
LEMMA ReadKeepsPolicy ==
    ASSUME PolicyInv, NEW a \in Admin, NEW r \in reads[a],
           Policy!ReadLands(a, r) \/ Policy!ReadFails(a, r)
    PROVE  PolicyInv'
<1>1. /\ tab[a] \in PolicyScreen /\ r.asked \in Nat /\ Len(versions) \in Nat
      /\ tab \in [Admin -> PolicyScreen] /\ TabKnows(tab[a], a, publishes, versions)
      /\ edits \in Nat /\ simulated \in Nat /\ troubles \in Nat
      /\ sims \in [Admin -> SUBSET Simulation]
  <2>1. r \in BaselineRead
    BY DEF PolicyInv, PolicyTyped
  <2>2. versions \in Seq(Version)
    BY DEF PolicyInv, PolicyTyped
  <2>3. r.asked \in Nat /\ Len(versions) \in Nat
    BY <2>1, <2>2, LenProperties DEF BaselineRead
  <2>4. QED
    BY <2>3 DEF PolicyInv, PolicyTyped
<1>2. reads' \in [Admin -> SUBSET BaselineRead] /\ UNCHANGED <<publishes, versions>>
  BY DEF PolicyInv, PolicyTyped, Policy!ReadLands, Policy!ReadFails
<1>3. edits' \in Nat /\ simulated' \in Nat /\ troubles' \in Nat
      /\ sims' \in [Admin -> SUBSET Simulation]
  <2>1. CASE Policy!ReadLands(a, r)
    BY <1>1, <2>1 DEF Policy!ReadLands
  <2>2. CASE Policy!ReadFails(a, r)
    BY <1>1, <2>2 DEF Policy!ReadFails
  <2>3. QED
    BY <2>1, <2>2
<1>4. CASE Policy!ReadLands(a, r)
  <2>1. PICK v \in r.asked .. Len(versions) :
            tab' = [tab EXCEPT ![a].version = v,
                               ![a].draft = IF r.seeds THEN LiveWeights ELSE @,
                               ![a].load = IF r.loads THEN "ready" ELSE @]
    BY <1>4 DEF Policy!ReadLands
  <2>2. PICK d : d = IF r.seeds THEN LiveWeights ELSE tab[a].draft
    OBVIOUS
  <2>3. PICK l : l = IF r.loads THEN "ready" ELSE tab[a].load
    OBVIOUS
  <2>4. PICK u : u = [tab[a] EXCEPT !.version = v, !.draft = d, !.load = l]
    OBVIOUS
  <2>5. tab' = [tab EXCEPT ![a].version = v, ![a].draft = d, ![a].load = l]
    BY <1>1, <2>1, <2>2, <2>3 DEF PolicyScreen
  <2>6. tab' = [tab EXCEPT ![a] = u]
    BY <1>1, <2>4, <2>5
  <2>7. v \in Nat /\ v <= Len(versions)
    BY <1>1
  <2>8. u \in PolicyScreen
    BY <1>1, <2>2, <2>3, <2>7, <2>4, LiveIsRoutine DEF PolicyScreen
  <2>9. /\ u.version = v /\ u.key = tab[a].key /\ u.publish = tab[a].publish
        /\ u.unlocked = tab[a].unlocked /\ u.draft \in {LiveWeights, tab[a].draft}
    BY <1>1, <2>2, <2>4 DEF PolicyScreen
  <2>10. TabKnows(u, a, publishes, versions)
    BY <1>1, <2>7, <2>9, LiveIsRoutine DEF TabKnows
  <2>11. QED
    BY <1>2, <1>3, <2>6, <2>8, <2>10, PolicyTabMoves
<1>5. CASE Policy!ReadFails(a, r)
  <2>1. PICK u : u = [tab[a] EXCEPT !.load = "failed"]
    OBVIOUS
  <2>2. tab' = [tab EXCEPT ![a] = u]
    BY <1>1, <1>5, <2>1 DEF Policy!ReadFails
  <2>3. u \in PolicyScreen
    BY <1>1, <2>1 DEF PolicyScreen
  <2>4. /\ u.version = tab[a].version /\ u.key = tab[a].key /\ u.publish = tab[a].publish
        /\ u.unlocked = tab[a].unlocked /\ u.draft = tab[a].draft
    BY <1>1, <2>1 DEF PolicyScreen
  <2>5. TabKnows(u, a, publishes, versions)
    BY <1>1, <2>4 DEF TabKnows
  <2>6. QED
    BY <1>2, <1>3, <2>2, <2>3, <2>5, PolicyTabMoves
<1>6. QED
  BY <1>4, <1>5

LEMMA EditKeeps ==
    ASSUME PolicyInv, NEW a \in Admin, NEW w \in Weights,
           Policy!Edit(a, w) \/ Policy!UnlockFairness(a)
    PROVE  PolicyInv'
<1>1. /\ tab[a] \in PolicyScreen /\ tab \in [Admin -> PolicyScreen]
      /\ TabKnows(tab[a], a, publishes, versions)
      /\ edits \in Nat /\ simulated \in Nat /\ troubles \in Nat
      /\ sims \in [Admin -> SUBSET Simulation] /\ reads \in [Admin -> SUBSET BaselineRead]
  BY DEF PolicyInv, PolicyTyped
<1>2. /\ UNCHANGED <<publishes, versions>> /\ edits' \in Nat /\ simulated' \in Nat /\ troubles' \in Nat
      /\ sims' \in [Admin -> SUBSET Simulation] /\ reads' \in [Admin -> SUBSET BaselineRead]
  BY <1>1 DEF Policy!Edit, Policy!UnlockFairness
<1>3. PICK t : t = Policy!Cleared(tab[a])
  OBVIOUS
<1>4. /\ t \in PolicyScreen /\ t.version = tab[a].version /\ t.key = 0
      /\ t.unlocked = tab[a].unlocked /\ t.draft = tab[a].draft /\ t.publish.kind # "done"
  <2>1. PICK x : x = IF tab[a].publish.kind = "done" THEN Policy!Idle ELSE tab[a].publish
    OBVIOUS
  <2>2. x \in Outcome /\ x.kind # "done"
    BY <1>1, <2>1, LiveIsRoutine DEF PolicyScreen, Policy!Idle
  <2>3. t = [tab[a] EXCEPT !.publish = x, !.key = 0]
    BY <1>1, <1>3, <2>1 DEF Policy!Cleared, PolicyScreen
  <2>4. QED
    BY <1>1, <2>2, <2>3 DEF PolicyScreen
<1>5. CASE Policy!Edit(a, w)
  <2>1. PICK u : u = [t EXCEPT !.draft = w]
    OBVIOUS
  <2>2. tab' = [tab EXCEPT ![a] = u]
    BY <1>1, <1>3, <1>5, <2>1 DEF Policy!Edit
  <2>3. /\ u \in PolicyScreen /\ u.version = t.version /\ u.key = t.key /\ u.publish = t.publish
        /\ u.unlocked = t.unlocked /\ u.draft = w
    BY <1>4, <2>1 DEF PolicyScreen
  <2>4. w \in Fair => tab[a].unlocked
    BY <1>5 DEF Policy!Edit
  <2>5. TabKnows(u, a, publishes, versions)
    BY <1>1, <1>4, <2>3, <2>4 DEF TabKnows
  <2>6. QED
    BY <1>2, <2>2, <2>3, <2>5, PolicyTabMoves
<1>6. CASE Policy!UnlockFairness(a)
  <2>1. PICK u : u = [t EXCEPT !.unlocked = TRUE]
    OBVIOUS
  <2>2. tab' = [tab EXCEPT ![a] = u]
    BY <1>1, <1>3, <1>6, <2>1 DEF Policy!UnlockFairness
  <2>3. /\ u \in PolicyScreen /\ u.version = t.version /\ u.key = t.key /\ u.publish = t.publish
        /\ u.unlocked = TRUE
    BY <1>4, <2>1 DEF PolicyScreen
  <2>4. TabKnows(u, a, publishes, versions)
    BY <1>1, <1>4, <2>3 DEF TabKnows
  <2>5. QED
    BY <1>2, <2>2, <2>3, <2>4, PolicyTabMoves
<1>7. QED
  BY <1>5, <1>6

LEMMA SimulateKeeps ==
    ASSUME PolicyInv, NEW a \in Admin, Policy!Simulate(a) \/ Policy!Discard(a)
    PROVE  PolicyInv'
<1>1. /\ tab[a] \in PolicyScreen /\ tab \in [Admin -> PolicyScreen]
      /\ TabKnows(tab[a], a, publishes, versions)
      /\ edits \in Nat /\ simulated \in Nat /\ troubles \in Nat
      /\ sims \in [Admin -> SUBSET Simulation] /\ reads \in [Admin -> SUBSET BaselineRead]
  BY DEF PolicyInv, PolicyTyped
<1>2. /\ UNCHANGED <<publishes, versions>> /\ edits' \in Nat /\ simulated' \in Nat /\ troubles' \in Nat
      /\ reads' \in [Admin -> SUBSET BaselineRead]
  BY <1>1 DEF Policy!Simulate, Policy!Discard
<1>3. CASE Policy!Simulate(a)
  <2>1. PICK u : u = [tab[a] EXCEPT !.simFailed = FALSE, !.publish = Policy!Idle, !.key = 0,
                                    !.sim = [kind |-> "running"]]
    OBVIOUS
  <2>2. tab' = [tab EXCEPT ![a] = u]
    BY <1>1, <1>3, <2>1 DEF Policy!Simulate
  <2>3. [kind |-> "running"] \in Simulated
    BY DEF Simulated
  <2>4. /\ u \in PolicyScreen /\ u.version = tab[a].version /\ u.key = 0 /\ u.publish = Policy!Idle
        /\ u.unlocked = tab[a].unlocked /\ u.draft = tab[a].draft
    BY <1>1, <2>1, <2>3, LiveIsRoutine DEF PolicyScreen
  <2>5. TabKnows(u, a, publishes, versions)
    BY <1>1, <2>4 DEF TabKnows, Policy!Idle
  <2>6. [n |-> simulated, weights |-> tab[a].draft] \in Simulation
    BY <1>1 DEF Simulation, PolicyScreen
  <2>7. sims' = [sims EXCEPT ![a] = @ \cup {[n |-> simulated, weights |-> tab[a].draft]}]
    BY <1>3 DEF Policy!Simulate
  <2>8. sims' \in [Admin -> SUBSET Simulation]
    BY <1>1, <2>6, <2>7
  <2>9. QED
    BY <1>2, <2>2, <2>4, <2>5, <2>8, PolicyTabMoves
<1>4. CASE Policy!Discard(a)
  <2>1. PICK u : u = [tab[a] EXCEPT !.draft = LiveWeights, !.sim = Policy!Idle, !.simFailed = FALSE,
                                    !.publish = Policy!Idle, !.key = 0]
    OBVIOUS
  <2>2. tab' = [tab EXCEPT ![a] = u]
    BY <1>1, <1>4, <2>1 DEF Policy!Discard
  <2>3. /\ u \in PolicyScreen /\ u.version = tab[a].version /\ u.key = 0 /\ u.publish = Policy!Idle
        /\ u.draft = LiveWeights
    BY <1>1, <2>1, LiveIsRoutine DEF PolicyScreen
  <2>4. TabKnows(u, a, publishes, versions)
    BY <1>1, <2>3, LiveIsRoutine DEF TabKnows, Policy!Idle
  <2>5. sims' \in [Admin -> SUBSET Simulation]
    BY <1>1, <1>4 DEF Policy!Discard
  <2>6. QED
    BY <1>2, <2>2, <2>3, <2>4, <2>5, PolicyTabMoves
<1>5. QED
  BY <1>3, <1>4

LEMMA SimulationKeeps ==
    ASSUME PolicyInv, NEW a \in Admin, NEW s \in sims[a],
           Policy!SimulationLands(a, s) \/ Policy!SimulationFails(a, s)
    PROVE  PolicyInv'
<1>1. /\ tab[a] \in PolicyScreen /\ tab \in [Admin -> PolicyScreen]
      /\ TabKnows(tab[a], a, publishes, versions) /\ s \in Simulation
      /\ edits \in Nat /\ simulated \in Nat /\ troubles \in Nat
      /\ sims \in [Admin -> SUBSET Simulation] /\ reads \in [Admin -> SUBSET BaselineRead]
  BY DEF PolicyInv, PolicyTyped
<1>2. /\ UNCHANGED <<publishes, versions>> /\ edits' \in Nat /\ simulated' \in Nat /\ troubles' \in Nat
      /\ reads' \in [Admin -> SUBSET BaselineRead] /\ sims' \in [Admin -> SUBSET Simulation]
  BY <1>1 DEF Policy!SimulationLands, Policy!SimulationFails
<1>3. PICK x \in Simulated, f \in BOOLEAN :
          tab' = [tab EXCEPT ![a] = [tab[a] EXCEPT !.sim = x, !.simFailed = f]]
  <2>1. CASE Policy!SimulationLands(a, s)
    <3>1. PICK vacuous \in BOOLEAN : tab' = [tab EXCEPT ![a].sim = Policy!Result(s.weights, vacuous)]
      BY <2>1 DEF Policy!SimulationLands
    <3>2. Policy!Result(s.weights, vacuous) \in Simulated
      BY <1>1 DEF Policy!Result, Simulated, Simulation
    <3>3. tab' = [tab EXCEPT ![a] = [tab[a] EXCEPT !.sim = Policy!Result(s.weights, vacuous),
                                                   !.simFailed = tab[a].simFailed]]
      BY <1>1, <3>1 DEF PolicyScreen
    <3>4. tab[a].simFailed \in BOOLEAN
      BY <1>1 DEF PolicyScreen
    <3>5. QED
      BY <3>2, <3>3, <3>4
  <2>2. CASE Policy!SimulationFails(a, s)
    <3>1. tab' = [tab EXCEPT ![a] = [tab[a] EXCEPT !.sim = Policy!Idle, !.simFailed = TRUE]]
      BY <1>1, <2>2 DEF Policy!SimulationFails
    <3>2. QED
      BY <3>1, LiveIsRoutine
  <2>3. QED
    BY <2>1, <2>2
<1>4. PICK u : u = [tab[a] EXCEPT !.sim = x, !.simFailed = f]
  OBVIOUS
<1>5. tab' = [tab EXCEPT ![a] = u]
  BY <1>3, <1>4
<1>6. /\ u \in PolicyScreen /\ u.version = tab[a].version /\ u.key = tab[a].key
      /\ u.publish = tab[a].publish /\ u.unlocked = tab[a].unlocked /\ u.draft = tab[a].draft
  BY <1>1, <1>4 DEF PolicyScreen
<1>7. TabKnows(u, a, publishes, versions)
  BY <1>1, <1>6 DEF TabKnows
<1>8. QED
  BY <1>2, <1>5, <1>6, <1>7, PolicyTabMoves

LEMMA RetryKeeps ==
    ASSUME PolicyInv, NEW a \in Admin, Policy!RetryLoad(a) \/ Policy!DismissConflict(a)
    PROVE  PolicyInv'
<1>1. /\ tab[a] \in PolicyScreen /\ tab \in [Admin -> PolicyScreen]
      /\ TabKnows(tab[a], a, publishes, versions)
      /\ edits \in Nat /\ simulated \in Nat /\ troubles \in Nat
      /\ sims \in [Admin -> SUBSET Simulation] /\ reads \in [Admin -> SUBSET BaselineRead]
  BY DEF PolicyInv, PolicyTyped
<1>2. /\ UNCHANGED <<publishes, versions>> /\ edits' \in Nat /\ simulated' \in Nat /\ troubles' \in Nat
      /\ sims' \in [Admin -> SUBSET Simulation]
  BY <1>1 DEF Policy!RetryLoad, Policy!DismissConflict
<1>3. CASE Policy!RetryLoad(a)
  <2>1. PICK u : u = [tab[a] EXCEPT !.load = "loading"]
    OBVIOUS
  <2>2. tab' = [tab EXCEPT ![a] = u]
    BY <1>1, <1>3, <2>1 DEF Policy!RetryLoad
  <2>3. /\ u \in PolicyScreen /\ u.version = tab[a].version /\ u.key = tab[a].key
        /\ u.publish = tab[a].publish /\ u.unlocked = tab[a].unlocked /\ u.draft = tab[a].draft
    BY <1>1, <2>1 DEF PolicyScreen
  <2>4. TabKnows(u, a, publishes, versions)
    BY <1>1, <2>3 DEF TabKnows
  <2>5. Policy!Read(TRUE, TRUE) \in BaselineRead
    <3>1. versions \in Seq(Version)
      BY DEF PolicyInv, PolicyTyped
    <3>2. QED
      BY <3>1, LenProperties DEF Policy!Read, BaselineRead
  <2>6. reads' \in [Admin -> SUBSET BaselineRead]
    BY <1>1, <1>3, <2>5 DEF Policy!RetryLoad
  <2>7. QED
    BY <1>2, <2>2, <2>3, <2>4, <2>6, PolicyTabMoves
<1>4. CASE Policy!DismissConflict(a)
  <2>1. PICK u : u = [tab[a] EXCEPT !.publish = Policy!Idle]
    OBVIOUS
  <2>2. tab' = [tab EXCEPT ![a] = u]
    BY <1>1, <1>4, <2>1 DEF Policy!DismissConflict
  <2>3. /\ u \in PolicyScreen /\ u.version = tab[a].version /\ u.key = tab[a].key
        /\ u.publish = Policy!Idle /\ u.unlocked = tab[a].unlocked /\ u.draft = tab[a].draft
    BY <1>1, <2>1, LiveIsRoutine DEF PolicyScreen
  <2>4. TabKnows(u, a, publishes, versions)
    BY <1>1, <2>3 DEF TabKnows, Policy!Idle
  <2>5. reads' \in [Admin -> SUBSET BaselineRead]
    BY <1>1, <1>4 DEF Policy!DismissConflict
  <2>6. QED
    BY <1>2, <2>2, <2>3, <2>4, <2>5, PolicyTabMoves
<1>5. QED
  BY <1>3, <1>4
-----------------------------------------------------------------------------
-----------------------------------------------------------------------------
\* One publish moves on.
LEMMA OneCall ==
    ASSUME PolicyInv, NEW i \in DOMAIN publishes, NEW q \in PublishCall,
           SameCall(q, publishes[i]), CallKnows(q, versions),
           NEW qs, qs = [publishes EXCEPT ![i] = q]
    PROVE  /\ qs \in Seq(PublishCall) /\ Len(qs) = Len(publishes) /\ DOMAIN qs = DOMAIN publishes
           /\ qs[i] = q /\ \A j \in DOMAIN publishes : j # i => qs[j] = publishes[j]
           /\ \A j \in DOMAIN publishes :
                  SameCall(qs[j], publishes[j]) /\ CallKnows(qs[j], versions)
<1>1. publishes \in Seq(PublishCall)
  BY DEF PolicyInv, PolicyTyped
<1>2. /\ qs \in Seq(PublishCall) /\ Len(qs) = Len(publishes) /\ DOMAIN qs = DOMAIN publishes
      /\ \A j \in DOMAIN publishes : qs[j] = IF j = i THEN q ELSE publishes[j]
  BY <1>1, ExceptSeq, LenProperties
<1>3. \A j \in DOMAIN publishes : CallKnows(qs[j], versions)
  BY <1>2 DEF PolicyInv
<1>4. \A j \in DOMAIN publishes : SameCall(qs[j], publishes[j])
  BY <1>2 DEF SameCall
<1>5. QED
  BY <1>2, <1>3, <1>4

LEMMA LeaveKeeps ==
    ASSUME PolicyInv, NEW a \in Admin, Policy!LeaveTab(a)
    PROVE  PolicyInv'
<1>1. publishes \in Seq(PublishCall) /\ DOMAIN publishes = 1 .. Len(publishes)
      /\ Len(publishes) \in Nat /\ versions \in Seq(Version)
  BY LenProperties DEF PolicyInv, PolicyTyped
<1>2. PICK qs : qs = [j \in 1 .. Len(publishes) |->
                        IF publishes[j].by = a THEN [publishes[j] EXCEPT !.client = "closed"]
                        ELSE publishes[j]]
  OBVIOUS
<1>3. publishes' = qs /\ tab' = [tab EXCEPT ![a] = Policy!Mounted] /\ UNCHANGED versions
  BY <1>1, <1>2 DEF Policy!LeaveTab
<1>4. \A j \in 1 .. Len(publishes) : /\ qs[j] \in PublishCall /\ SameCall(qs[j], publishes[j])
                                     /\ qs[j].server = publishes[j].server
                                     /\ qs[j].answer = publishes[j].answer
  <2>1. TAKE j \in 1 .. Len(publishes)
  <2>2. publishes[j] \in PublishCall
    BY <1>1
  <2>3. PICK q : q = [publishes[j] EXCEPT !.client = "closed"]
    OBVIOUS
  <2>4. q \in PublishCall /\ SameCall(q, publishes[j])
        /\ q.server = publishes[j].server /\ q.answer = publishes[j].answer
    BY <2>2, <2>3 DEF PublishCall, SameCall
  <2>5. qs[j] = q \/ qs[j] = publishes[j]
    BY <1>2, <2>3
  <2>6. SameCall(publishes[j], publishes[j])
    BY DEF SameCall
  <2>7. QED
    BY <2>2, <2>4, <2>5, <2>6
<1>5. qs \in Seq(PublishCall) /\ Len(qs) = Len(publishes)
  BY <1>1, <1>2, <1>4, IsASeq
<1>6. \A j \in DOMAIN publishes : SameCall(qs[j], publishes[j]) /\ CallKnows(qs[j], versions)
  <2>1. TAKE j \in DOMAIN publishes
  <2>2. SameCall(qs[j], publishes[j]) /\ qs[j].server = publishes[j].server
        /\ qs[j].answer = publishes[j].answer
    BY <1>1, <1>4
  <2>3. CallKnows(publishes[j], versions)
    BY DEF PolicyInv
  <2>4. QED
    BY <2>2, <2>3 DEF CallKnows, SameCall
<1>7. TabKnows(Policy!Mounted, a, publishes, versions)
  BY <1>1, LenProperties, LiveIsRoutine DEF TabKnows, Policy!Idle
<1>8. /\ reads' \in [Admin -> SUBSET BaselineRead] /\ sims' \in [Admin -> SUBSET Simulation]
      /\ edits' \in Nat /\ simulated' \in Nat /\ troubles' \in Nat
  <2>1. Policy!Read(TRUE, TRUE) \in BaselineRead
    BY <1>1, LenProperties DEF Policy!Read, BaselineRead
  <2>2. reads' = [reads EXCEPT ![a] = {Policy!Read(TRUE, TRUE)}] /\ sims' = [sims EXCEPT ![a] = {}]
        /\ troubles' = troubles + 1 /\ edits' = edits /\ simulated' = simulated
    BY DEF Policy!LeaveTab
  <2>3. reads \in [Admin -> SUBSET BaselineRead] /\ sims \in [Admin -> SUBSET Simulation]
        /\ edits \in Nat /\ simulated \in Nat /\ troubles \in Nat
    BY DEF PolicyInv, PolicyTyped
  <2>4. reads' \in [Admin -> SUBSET BaselineRead]
    BY <2>1, <2>2, <2>3
  <2>5. sims' \in [Admin -> SUBSET Simulation] /\ edits' \in Nat /\ simulated' \in Nat /\ troubles' \in Nat
    BY <2>2, <2>3
  <2>6. QED
    BY <2>4, <2>5
<1>9. QED
  BY <1>3, <1>5, <1>6, <1>7, <1>8, LiveIsRoutine, PublishMoves

LEMMA PublishKeeps ==
    ASSUME PolicyInv, NEW a \in Admin, Policy!Publish(a)
    PROVE  PolicyInv'
<1>1. /\ publishes \in Seq(PublishCall) /\ DOMAIN publishes = 1 .. Len(publishes)
      /\ Len(publishes) \in Nat /\ versions \in Seq(Version)
      /\ tab[a] \in PolicyScreen /\ TabKnows(tab[a], a, publishes, versions)
      /\ tab \in [Admin -> PolicyScreen]
  BY LenProperties DEF PolicyInv, PolicyTyped
<1>2. PICK key : key = IF tab[a].key = 0 THEN Len(publishes) + 1 ELSE tab[a].key
  OBVIOUS
<1>3. PICK p : p = [by |-> a, key |-> key, weights |-> tab[a].sim.weights, base |-> tab[a].version,
                    shown |-> tab[a].draft, unlocked |-> tab[a].unlocked,
                    client |-> "open", server |-> "asked", answer |-> Policy!Idle]
  OBVIOUS
<1>4. PICK u : u = [tab[a] EXCEPT !.publish = [kind |-> "busy"], !.key = key]
  OBVIOUS
<1>5. /\ tab' = [tab EXCEPT ![a] = u] /\ publishes' = Append(publishes, p)
      /\ UNCHANGED <<reads, sims, versions, edits, simulated, troubles>>
      /\ tab[a].sim.kind = "result" /\ tab[a].sim.weights = tab[a].draft
  BY <1>1, <1>2, <1>3, <1>4 DEF Policy!Publish, Policy!CanPublish, Policy!Stale
<1>6. key \in Nat /\ key # 0
      /\ (key = Len(publishes) + 1 \/ \E i \in DOMAIN publishes : publishes[i].key = key /\ publishes[i].by = a)
  BY <1>1, <1>2 DEF TabKnows, PolicyScreen
<1>7. p \in PublishCall /\ p.by = a /\ p.key = key /\ p.base = tab[a].version
      /\ p.weights = tab[a].draft /\ p.shown = tab[a].draft /\ p.unlocked = tab[a].unlocked
      /\ p.server = "asked" /\ p.answer = Policy!Idle
  BY <1>1, <1>3, <1>5, <1>6, LiveIsRoutine DEF PublishCall, PolicyScreen
<1>8. PICK qs : qs = Append(publishes, p)
  OBVIOUS
<1>9. /\ qs \in Seq(PublishCall) /\ Len(qs) = Len(publishes) + 1
      /\ DOMAIN qs = 1 .. Len(publishes) + 1
      /\ \A i \in DOMAIN publishes : qs[i] = publishes[i]
      /\ qs[Len(publishes) + 1] = p
      /\ \A i \in DOMAIN qs : i \in DOMAIN publishes \/ i = Len(publishes) + 1
      /\ DOMAIN publishes \subseteq DOMAIN qs
  <2>1. /\ qs \in Seq(PublishCall) /\ Len(qs) = Len(publishes) + 1
        /\ DOMAIN qs = 1 .. Len(publishes) + 1
        /\ \A i \in DOMAIN publishes : qs[i] = publishes[i]
        /\ qs[Len(publishes) + 1] = p
    BY <1>1, <1>7, <1>8, AppendProperties, LenProperties
  <2>2. \A i \in 1 .. Len(publishes) + 1 : i \in 1 .. Len(publishes) \/ i = Len(publishes) + 1
    BY <1>1
  <2>3. 1 .. Len(publishes) \subseteq 1 .. Len(publishes) + 1
    BY <1>1
  <2>4. QED
    BY <1>1, <2>1, <2>2, <2>3
<1>10. KeysOwned(qs)
  <2>1. /\ \A i \in DOMAIN publishes : publishes[i].key \in 1 .. Len(publishes)
        /\ \A i, j \in DOMAIN publishes : publishes[i].key = publishes[j].key => publishes[i].by = publishes[j].by
    BY DEF PolicyInv, KeysOwned
  <2>2. p.key \in 1 .. Len(publishes) + 1
    BY <1>1, <1>6, <1>7, <2>1
  <2>3. \A i \in DOMAIN qs : qs[i].key \in 1 .. Len(qs)
    BY <1>1, <1>9, <2>1, <2>2
  <2>4. \A i \in DOMAIN publishes : publishes[i].key = p.key => publishes[i].by = p.by
    BY <1>1, <1>6, <1>7, <2>1
  <2>5. \A i, j \in DOMAIN qs : qs[i].key = qs[j].key => qs[i].by = qs[j].by
    BY <1>9, <2>1, <2>4
  <2>6. QED
    BY <2>3, <2>5 DEF KeysOwned
<1>11. u \in PolicyScreen /\ u.version = tab[a].version /\ u.key = key
       /\ u.draft = tab[a].draft /\ u.unlocked = tab[a].unlocked /\ u.publish = [kind |-> "busy"]
  <2>1. [kind |-> "busy"] \in Outcome
    BY DEF Outcome
  <2>2. QED
    BY <1>1, <1>4, <1>6, <2>1 DEF PolicyScreen
<1>12. Len(publishes) + 1 \in DOMAIN qs
  BY <1>1, <1>9
<1>13. TabKnows(u, a, qs, versions)
  BY <1>1, <1>7, <1>9, <1>11, <1>12, SMTT(20) DEF TabKnows
<1>14. ASSUME NEW b \in Admin
       PROVE  TabKnows(tab'[b], b, qs, versions)
  <2>1. tab'[b] = IF b = a THEN u ELSE tab[b]
    BY <1>1, <1>5
  <2>2. TabKnows(tab[b], b, publishes, versions)
    BY DEF PolicyInv
  <2>3. TabKnows(tab[b], b, qs, versions)
    BY <1>9, <2>2 DEF TabKnows
  <2>4. QED
    BY <1>13, <2>1, <2>3
<1>15. CallKnows(p, versions)
  BY <1>1, <1>7 DEF CallKnows, TabKnows, Policy!Idle
<1>16. \A i \in DOMAIN qs : CallKnows(qs[i], versions)
  BY <1>9, <1>15 DEF PolicyInv
<1>17. \A v \in DOMAIN versions : ComesOf(versions[v], v, qs)
  BY <1>9 DEF PolicyInv, ComesOf
<1>18. PolicyTyped'
  BY <1>1, <1>5, <1>8, <1>9, <1>11 DEF PolicyInv, PolicyTyped
<1>19. publishes' = qs /\ versions' = versions
  BY <1>5, <1>8
<1>20. QED
  BY <1>10, <1>14, <1>16, <1>17, <1>18, <1>19 DEF PolicyInv

LEMMA LookUpKeeps ==
    ASSUME PolicyInv, NEW i \in DOMAIN publishes, Policy!LookUpKey(i)
    PROVE  PolicyInv'
<1> DEFINE p == publishes[i]
           replay == {v \in DOMAIN versions : versions[v].key = p.key}
<1>1. /\ p \in PublishCall /\ CallKnows(p, versions) /\ versions \in Seq(Version)
      /\ DOMAIN versions = 1 .. Len(versions) /\ Len(versions) \in Nat
      /\ tab \in [Admin -> PolicyScreen] /\ p.by \in Admin
  <2>1. p \in PublishCall
    BY DEF PolicyInv, PolicyTyped
  <2>2. p.by \in Admin
    BY <2>1 DEF PublishCall
  <2>3. QED
    BY <2>1, <2>2, LenProperties DEF PolicyInv, PolicyTyped
<1>2. PICK phase, answer : /\ publishes' = [publishes EXCEPT ![i].server = phase, ![i].answer = answer]
                           /\ \/ phase = "looked up" /\ answer = Policy!Idle /\ replay = {}
                              \/ phase = "answered" /\ \E v \in replay : answer = Policy!Done(v)
  <2>1. CASE replay = {}
    BY <2>1 DEF Policy!LookUpKey, Policy!At
  <2>2. CASE replay # {}
    <3>1. PICK v : v = CHOOSE w \in replay : TRUE
      OBVIOUS
    <3>2. v \in replay
      BY <2>2, <3>1
    <3>3. publishes' = [publishes EXCEPT ![i].server = "answered", ![i].answer = Policy!Done(v)]
      BY <2>2, <3>1 DEF Policy!LookUpKey, Policy!At
    <3>4. QED
      BY <3>2, <3>3
  <2>3. QED
    BY <2>1, <2>2
<1>3. PICK q : q = [p EXCEPT !.server = phase, !.answer = answer]
  OBVIOUS
<1>4. PICK qs : qs = [publishes EXCEPT ![i] = q]
  OBVIOUS
<1>5. publishes' = qs
  BY <1>2, <1>3, <1>4
<1>6. /\ answer \in Outcome
      /\ answer.kind = "done" => answer.version \in DOMAIN versions /\ versions[answer.version].key = p.key
      /\ phase \in {"looked up", "answered"}
      /\ phase = "looked up" => \A v \in DOMAIN versions : versions[v].key # p.key
  <2>1. CASE phase = "looked up" /\ answer = Policy!Idle /\ replay = {}
    BY <2>1, LiveIsRoutine DEF Policy!Idle
  <2>2. CASE phase = "answered" /\ \E v \in replay : answer = Policy!Done(v)
    BY <1>1, <2>2 DEF Policy!Done, Outcome
  <2>3. QED
    BY <1>2, <2>1, <2>2
<1> HIDE DEF replay
<1>7. /\ q \in PublishCall /\ SameCall(q, p) /\ q.server = phase /\ q.answer = answer
  BY <1>1, <1>3, <1>6 DEF PublishCall, SameCall
<1>8. CallKnows(q, versions)
  BY <1>1, <1>6, <1>7 DEF CallKnows, SameCall
<1>9. /\ qs \in Seq(PublishCall) /\ Len(qs) = Len(publishes)
      /\ \A j \in DOMAIN publishes : SameCall(qs[j], publishes[j]) /\ CallKnows(qs[j], versions)
  BY <1>4, <1>7, <1>8, OneCall
<1>10. /\ tab' = [tab EXCEPT ![p.by] = tab[p.by]]
       /\ reads' = reads /\ sims' = sims /\ edits' = edits /\ simulated' = simulated
       /\ troubles' = troubles /\ versions' = versions
  BY <1>1 DEF Policy!LookUpKey
<1>11. /\ tab[p.by] \in PolicyScreen /\ TabKnows(tab[p.by], p.by, publishes, versions)
       /\ reads' \in [Admin -> SUBSET BaselineRead] /\ sims' \in [Admin -> SUBSET Simulation]
       /\ edits' \in Nat /\ simulated' \in Nat /\ troubles' \in Nat
  BY <1>1, <1>10 DEF PolicyInv, PolicyTyped
<1>12. QED
  BY <1>1, <1>5, <1>9, <1>10, <1>11, PublishMoves

LEMMA WriteKeeps ==
    ASSUME PolicyInv, NEW i \in DOMAIN publishes, Policy!WriteVersion(i)
    PROVE  PolicyInv'
<1> DEFINE p == publishes[i]
<1>1. /\ p \in PublishCall /\ CallKnows(p, versions) /\ versions \in Seq(Version)
      /\ DOMAIN versions = 1 .. Len(versions) /\ Len(versions) \in Nat
      /\ publishes \in Seq(PublishCall) /\ DOMAIN publishes = 1 .. Len(publishes)
      /\ tab \in [Admin -> PolicyScreen] /\ i \in Nat
  <2>1. p \in PublishCall
    BY DEF PolicyInv, PolicyTyped
  <2>2. QED
    BY <2>1, LenProperties DEF PolicyInv, PolicyTyped
<1>2. /\ p.by \in Admin /\ p.key \in Nat /\ p.weights \in Weights /\ p.base \in Nat
  BY <1>1 DEF PublishCall
<1>3. /\ p.server = "looked up"
      /\ UNCHANGED <<tab, reads, sims, edits, simulated, troubles>>
  BY DEF Policy!WriteVersion
<1>4. CASE ~ Policy!OnItsBaseline(i)
  <2>1. PICK kind \in {"conflict", "failed"} :
            publishes' = [publishes EXCEPT ![i].server = "answered", ![i].answer = [kind |-> kind]]
    BY <1>4 DEF Policy!WriteVersion, Policy!At
  <2>2. UNCHANGED versions
    BY <1>4 DEF Policy!WriteVersion
  <2>3. [kind |-> kind] \in Outcome
    BY DEF Outcome
  <2>4. PICK q : q = [p EXCEPT !.server = "answered", !.answer = [kind |-> kind]]
    OBVIOUS
  <2>5. PICK qs : qs = [publishes EXCEPT ![i] = q]
    OBVIOUS
  <2>6. publishes' = qs
    BY <2>1, <2>4, <2>5
  <2>7. /\ q \in PublishCall /\ SameCall(q, p) /\ q.server = "answered" /\ q.answer.kind = kind
    BY <1>1, <2>3, <2>4 DEF PublishCall, SameCall
  <2>8. CallKnows(q, versions)
    BY <1>1, <2>7 DEF CallKnows, SameCall
  <2>9. /\ qs \in Seq(PublishCall) /\ Len(qs) = Len(publishes)
        /\ \A j \in DOMAIN publishes : SameCall(qs[j], publishes[j]) /\ CallKnows(qs[j], versions)
    <3>1. q \in PublishCall /\ SameCall(q, publishes[i])
      BY <2>7
    <3>2. QED
      BY <2>5, <2>8, <3>1, OneCall
  <2>10. /\ tab' = [tab EXCEPT ![p.by] = tab[p.by]]
         /\ tab[p.by] \in PolicyScreen /\ TabKnows(tab[p.by], p.by, publishes, versions)
    BY <1>1, <1>2, <1>3 DEF PolicyInv
  <2>11. /\ reads' \in [Admin -> SUBSET BaselineRead] /\ sims' \in [Admin -> SUBSET Simulation]
         /\ edits' \in Nat /\ simulated' \in Nat /\ troubles' \in Nat
    BY <1>3 DEF PolicyInv, PolicyTyped
  <2>12. QED
    BY <1>2, <2>2, <2>6, <2>9, <2>10, <2>11, PublishMoves
<1>5. CASE Policy!OnItsBaseline(i)
  <2>1. p.base = Len(versions)
    BY <1>5 DEF Policy!OnItsBaseline
  <2>2. PICK v : v = [weights |-> p.weights, by |-> p.by, key |-> p.key, publish |-> i, base |-> p.base]
    OBVIOUS
  <2>3. v \in Version /\ v.by = p.by /\ v.key = p.key /\ v.publish = i
    BY <1>1, <1>2, <2>2 DEF Version
  <2>4. PICK ws : ws = Append(versions, v)
    OBVIOUS
  <2>5. PICK q : q = [p EXCEPT !.server = "answered", !.answer = Policy!Done(Len(versions) + 1)]
    OBVIOUS
  <2>6. PICK qs : qs = [publishes EXCEPT ![i] = q]
    OBVIOUS
  <2>7. versions' = ws /\ publishes' = qs
    <3>1. versions' = ws
      BY <1>5, <2>2, <2>4 DEF Policy!WriteVersion
    <3>2. publishes' = [publishes EXCEPT ![i].server = "answered",
                                         ![i].answer = Policy!Done(Len(versions) + 1)]
      BY <1>5 DEF Policy!WriteVersion, Policy!At
    <3>3. QED
      BY <2>5, <2>6, <3>1, <3>2
  <2>8. /\ Len(ws) = Len(versions) + 1 /\ ws \in Seq(Version) /\ DOMAIN ws = 1 .. Len(versions) + 1
        /\ \A n \in DOMAIN versions : ws[n] = versions[n]
        /\ ws[Len(versions) + 1] = v
        /\ \A n \in DOMAIN ws : n \in DOMAIN versions \/ n = Len(versions) + 1
    BY <1>1, <2>3, <2>4, VersionsGrow
  <2>9. Len(versions) + 1 \in DOMAIN ws
    BY <1>1, <2>8
  <2>10. Policy!Done(Len(versions) + 1) \in Outcome
    BY <1>1 DEF Policy!Done, Outcome
  <2>11. /\ q \in PublishCall /\ SameCall(q, p) /\ q.server = "answered"
         /\ q.answer.version = Len(versions) + 1
    BY <1>1, <2>5, <2>10 DEF PublishCall, SameCall, Policy!Done
  <2>12. CallKnows(p, ws)
    BY <1>1, <2>3, <2>4, CallsKeepVersions
  <2>13. CallKnows(q, ws)
    BY <2>3, <2>8, <2>9, <2>11, <2>12 DEF CallKnows, SameCall
  <2>14. /\ qs \in Seq(PublishCall) /\ Len(qs) = Len(publishes) /\ DOMAIN qs = DOMAIN publishes
         /\ \A j \in DOMAIN publishes : qs[j] = IF j = i THEN q ELSE publishes[j]
    BY <1>1, <2>6, <2>11, ExceptSeq, LenProperties
  <2>15. \A j \in DOMAIN qs : CallKnows(qs[j], ws)
    <3>1. TAKE j \in DOMAIN qs
    <3>2. publishes[j] \in PublishCall /\ CallKnows(publishes[j], versions)
      BY <1>1, <2>14 DEF PolicyInv
    <3>3. CallKnows(publishes[j], ws)
      BY <1>1, <2>3, <2>4, <3>2, CallsKeepVersions
    <3>4. qs[j] = q \/ qs[j] = publishes[j]
      BY <2>14
    <3>5. QED
      BY <2>13, <3>3, <3>4
  <2>16. \A j \in DOMAIN publishes : SameCall(qs[j], publishes[j])
    BY <2>11, <2>14 DEF SameCall
  <2>17. /\ KeysOwned(publishes) => KeysOwned(qs)
         /\ \A t, b, vs : TabKnows(t, b, publishes, vs) => TabKnows(t, b, qs, vs)
         /\ \A w, n : ComesOf(w, n, publishes) => ComesOf(w, n, qs)
    BY <1>1, <2>14, <2>16, CallsMove
  <2>18. KeysOwned(qs)
    BY <2>17 DEF PolicyInv
  <2>19. ASSUME NEW b \in Admin
         PROVE  TabKnows(tab[b], b, qs, ws)
    <3>1. tab[b] \in PolicyScreen /\ TabKnows(tab[b], b, publishes, versions)
      BY <1>1 DEF PolicyInv
    <3>2. TabKnows(tab[b], b, publishes, ws)
      BY <1>1, <2>3, <2>4, <3>1, TabsKeepVersions
    <3>3. QED
      BY <2>17, <3>2
  <2>20. \A n \in DOMAIN ws : ComesOf(ws[n], n, qs)
    <3>1. \A n \in DOMAIN versions : ComesOf(ws[n], n, qs)
      <4>1. \A n \in DOMAIN versions : ComesOf(versions[n], n, publishes)
        BY DEF PolicyInv
      <4>2. QED
        BY <2>8, <2>17, <4>1
    <3>2. ComesOf(v, Len(versions) + 1, qs)
      <4>1. qs[i] = q
        BY <2>14
      <4>2. q.by = p.by /\ q.key = p.key /\ q.base = Len(versions)
        BY <2>1, <2>11 DEF SameCall
      <4>3. i \in DOMAIN qs /\ Len(versions) = Len(versions) + 1 - 1
        BY <1>1, <2>14
      <4>4. QED
        BY <2>3, <4>1, <4>2, <4>3 DEF ComesOf
    <3>3. QED
      BY <2>8, <3>1, <3>2
  <2>21. OncePerKey(ws)
    <3>1. \A n \in DOMAIN versions : versions[n].key # v.key
      <4>1. \A n \in DOMAIN versions : versions[n].key = p.key => n > p.base
        BY <1>1, <1>3 DEF CallKnows
      <4>2. \A n \in DOMAIN versions : ~ (n > Len(versions))
        BY <1>1
      <4>3. QED
        BY <2>1, <2>3, <4>1, <4>2
    <3>2. \A m, n \in DOMAIN versions : versions[m].key = versions[n].key => m = n
      BY DEF PolicyInv, OncePerKey
    <3>3. QED
      BY <2>8, <3>1, <3>2 DEF OncePerKey
  <2>22. PolicyTyped'
    BY <1>3, <2>7, <2>8, <2>14 DEF PolicyInv, PolicyTyped
  <2>23. tab' = tab
    BY <1>3
  <2>24. QED
    BY <2>7, <2>15, <2>18, <2>19, <2>20, <2>21, <2>22, <2>23 DEF PolicyInv
<1>6. QED
  BY <1>4, <1>5

LEMMA AnswersKeep ==
    ASSUME PolicyInv, NEW i \in DOMAIN publishes, Policy!PublishEnds(i) \/ Policy!PublishFails(i)
    PROVE  PolicyInv'
<1> DEFINE p == publishes[i]
           a == publishes[i].by
<1>1. /\ p \in PublishCall /\ CallKnows(p, versions) /\ versions \in Seq(Version)
      /\ Len(versions) \in Nat /\ tab \in [Admin -> PolicyScreen]
      /\ a \in Admin /\ p.answer \in Outcome
  <2>1. p \in PublishCall
    BY DEF PolicyInv, PolicyTyped
  <2>2. p.by \in Admin /\ p.answer \in Outcome
    BY <2>1 DEF PublishCall
  <2>3. QED
    BY <2>1, <2>2, LenProperties DEF PolicyInv, PolicyTyped
<1>2. tab[a] \in PolicyScreen /\ TabKnows(tab[a], a, publishes, versions)
  BY <1>1 DEF PolicyInv
<1>3. /\ UNCHANGED <<sims, versions, edits, simulated, troubles>>
      /\ reads' \in [Admin -> SUBSET BaselineRead]
  <2>1. Policy!Read(FALSE, FALSE) \in BaselineRead
    BY <1>1 DEF Policy!Read, BaselineRead
  <2>2. reads \in [Admin -> SUBSET BaselineRead]
    BY DEF PolicyInv, PolicyTyped
  <2>3. reads' = reads \/ reads' = [reads EXCEPT ![a] = @ \cup {Policy!Read(FALSE, FALSE)}]
    BY DEF Policy!PublishEnds, Policy!PublishFails
  <2>4. reads' \in [Admin -> SUBSET BaselineRead]
    <3>1. PICK b, y : b = a /\ y = reads[b] \cup {Policy!Read(FALSE, FALSE)}
      OBVIOUS
    <3>2. b \in Admin /\ y \in SUBSET BaselineRead
      BY <1>1, <2>1, <2>2, <3>1
    <3>3. reads' = reads \/ reads' = [reads EXCEPT ![b] = y]
      BY <2>3, <3>1
    <3>4. QED
      BY <2>2, <3>2, <3>3
  <2>5. UNCHANGED <<sims, versions, edits, simulated, troubles>>
    <3>1. CASE Policy!PublishEnds(i)
      BY <3>1 DEF Policy!PublishEnds
    <3>2. CASE Policy!PublishFails(i)
      BY <3>2 DEF Policy!PublishFails
    <3>3. QED
      BY <3>1, <3>2
  <2>6. QED
    BY <2>4, <2>5
<1>4. PICK server \in {p.server, IF p.server = "asked" THEN "lost" ELSE p.server} :
          publishes' = [publishes EXCEPT ![i] = [p EXCEPT !.client = "closed", !.server = server]]
  <2>1. CASE Policy!PublishEnds(i)
    <3>1. publishes' = [publishes EXCEPT ![i] = [p EXCEPT !.client = "closed"]]
      BY <2>1 DEF Policy!PublishEnds
    <3>2. [p EXCEPT !.client = "closed"] = [p EXCEPT !.client = "closed", !.server = p.server]
      BY <1>1 DEF PublishCall
    <3>3. QED
      BY <3>1, <3>2
  <2>2. CASE Policy!PublishFails(i)
    BY <2>2 DEF Policy!PublishFails
  <2>3. QED
    BY <2>1, <2>2
<1>5. PICK q : q = [p EXCEPT !.client = "closed", !.server = server]
  OBVIOUS
<1>6. PICK qs : qs = [publishes EXCEPT ![i] = q]
  OBVIOUS
<1>7. publishes' = qs
  BY <1>4, <1>5, <1>6
<1>8. server = p.server \/ server = "lost"
  BY <1>4
<1>9. q \in PublishCall /\ SameCall(q, p) /\ q.server = server /\ q.answer = p.answer
  BY <1>1, <1>5, <1>8 DEF PublishCall, SameCall
<1>10. CallKnows(q, versions)
  BY <1>1, <1>8, <1>9 DEF CallKnows, SameCall
<1>11. /\ qs \in Seq(PublishCall) /\ Len(qs) = Len(publishes)
       /\ \A j \in DOMAIN publishes : SameCall(qs[j], publishes[j]) /\ CallKnows(qs[j], versions)
  <2>1. q \in PublishCall /\ SameCall(q, publishes[i])
    BY <1>9
  <2>2. QED
    BY <1>6, <1>10, <2>1, OneCall, ZenonT(30)
<1>12. /\ sims' \in [Admin -> SUBSET Simulation]
       /\ edits' \in Nat /\ simulated' \in Nat /\ troubles' \in Nat
  BY <1>3 DEF PolicyInv, PolicyTyped
<1>13. CASE Policy!PublishEnds(i)
  <2>1. PICK u : u = [tab[a] EXCEPT !.publish = p.answer, !.sim = Policy!Idle, !.key = 0]
    OBVIOUS
  <2>2. tab' = [tab EXCEPT ![a] = u]
    BY <1>1, <1>13, <2>1 DEF Policy!PublishEnds
  <2>3. /\ u \in PolicyScreen /\ u.version = tab[a].version /\ u.key = 0
        /\ u.publish = p.answer /\ u.unlocked = tab[a].unlocked /\ u.draft = tab[a].draft
    BY <1>1, <1>2, <2>1, LiveIsRoutine DEF PolicyScreen
  <2>4. ASSUME p.answer.kind = "done"
        PROVE  p.answer.version \in DOMAIN versions /\ versions[p.answer.version].by = a
    <3>1. PICK n : n = p.answer.version
      OBVIOUS
    <3>2. n \in DOMAIN versions /\ versions[n].key = p.key
      BY <1>1, <2>4, <3>1 DEF CallKnows
    <3>3. ComesOf(versions[n], n, publishes)
      BY <3>2 DEF PolicyInv
    <3>4. PICK k \in DOMAIN publishes : publishes[k].by = versions[n].by /\ publishes[k].key = p.key
      BY <3>2, <3>3 DEF ComesOf
    <3>5. publishes[k].by = a
      BY <3>4 DEF PolicyInv, KeysOwned
    <3>6. QED
      BY <3>1, <3>2, <3>4, <3>5
  <2>5. TabKnows(u, a, publishes, versions)
    BY <1>2, <2>3, <2>4 DEF TabKnows
  <2>6. QED
    BY <1>1, <1>3, <1>7, <1>11, <1>12, <2>2, <2>3, <2>5, PublishMoves
<1>14. CASE Policy!PublishFails(i)
  <2>1. PICK u : u = [tab[a] EXCEPT !.publish = [kind |-> "failed"]]
    OBVIOUS
  <2>2. tab' = [tab EXCEPT ![a] = u]
    BY <1>1, <1>14, <2>1 DEF Policy!PublishFails
  <2>3. [kind |-> "failed"] \in Outcome
    BY DEF Outcome
  <2>4. /\ u \in PolicyScreen /\ u.version = tab[a].version /\ u.key = tab[a].key
        /\ u.publish.kind = "failed" /\ u.unlocked = tab[a].unlocked /\ u.draft = tab[a].draft
    BY <1>1, <1>2, <2>1, <2>3 DEF PolicyScreen
  <2>5. TabKnows(u, a, publishes, versions)
    BY <1>2, <2>4 DEF TabKnows
  <2>6. QED
    BY <1>1, <1>3, <1>7, <1>11, <1>12, <2>2, <2>4, <2>5, PublishMoves
<1>15. QED
  BY <1>13, <1>14

LEMMA PolicyKeeps ==
    ASSUME PolicyInv, [Policy!Next]_Policy!vars
    PROVE  PolicyInv'
<1>1. ASSUME NEW a \in Admin, Policy!Editing(a)
      PROVE  PolicyInv'
  <2>1. ASSUME NEW w \in Routine \cup Fair \cup {Invalid}, Policy!Edit(a, w)
        PROVE  PolicyInv'
    <3>1. w \in Weights
      BY <2>1 DEF Weights
    <3>2. QED
      BY <2>1, <3>1, EditKeeps
  <2>2. CASE Policy!UnlockFairness(a)
    <3>1. LiveWeights \in Weights
      BY LiveIsRoutine
    <3>2. QED
      BY <2>2, <3>1, EditKeeps
  <2>3. QED
    BY <1>1, <2>1, <2>2, ReadKeepsPolicy, RetryKeeps, LeaveKeeps, SimulateKeeps, SimulationKeeps,
       PublishKeeps DEF Policy!Editing
<1>2. ASSUME NEW i \in DOMAIN publishes, Policy!Publishing(i)
      PROVE  PolicyInv'
  BY <1>2, LookUpKeeps, WriteKeeps, AnswersKeep DEF Policy!Publishing
<1>3. CASE UNCHANGED Policy!vars
  <2>1. UNCHANGED <<tab, reads, sims, publishes, versions, edits, simulated, troubles>>
    BY <1>3 DEF Policy!vars
  <2>2. PolicyTyped'
    BY <2>1 DEF PolicyInv, PolicyTyped
  <2>3. QED
    BY <2>1, <2>2 DEF PolicyInv
<1>4. QED
  BY <1>1, <1>2, <1>3 DEF Policy!Next

\* What it is for.
LEMMA PolicyIsDecided ==
    ASSUME PolicyInv
    PROVE  Policy!PublishedAsDecided
<1>1. ASSUME NEW v \in DOMAIN versions
      PROVE  LET p == publishes[versions[v].publish] IN
             p.weights = p.shown /\ (p.weights \in Fair => p.unlocked) /\ p.base = v - 1
  BY DEF PolicyInv, ComesOf, CallKnows
<1>2. \A v, w \in DOMAIN versions : versions[v].key = versions[w].key => v = w
  BY DEF PolicyInv, OncePerKey
<1>3. \A a \in Admin : tab[a].publish.kind = "done" => versions[tab[a].publish.version].by = a
  BY DEF PolicyInv, TabKnows
<1>4. QED
  BY <1>1, <1>2, <1>3 DEF Policy!PublishedAsDecided
-----------------------------------------------------------------------------
(* AuditLog and FleetDashboard: a list is of the filter above it.  The      *)
(* invariants say which of the loads under way is the newest, and that no   *)
(* load knows more than there is.                                           *)

Entry == [of : Filter, rows : Nat]
ListLoad == [n : Nat, of : Filter, answer : Nat \cup {None}]
ExportFile == [of : Filter, state : {"asked", "saved", "failed"}, least : Nat, rows : Nat \cup {None}]
AuditTyped ==
    /\ recorded \in [Filter -> Nat]
    /\ filter \in Filter
    /\ tab \in [state : {"loading", "ready", "failed"}, entries : Entry]
    /\ loads \subseteq ListLoad
    /\ asked \in Nat /\ late \in BOOLEAN
    /\ files \in Seq(ExportFile)

\* Only the newest load is of the toolbar's setting for sure.
NewestOfToolbar == \A l \in loads : l.n <= asked /\ (l.n = asked => l.of = filter)

\* Nothing that was recorded goes away.
EntriesStay ==
    /\ tab.entries.rows <= recorded[tab.entries.of]
    /\ \A l \in loads : l.answer # None => l.answer <= recorded[l.of]

FileHasRows(f) ==
    /\ f.state = "asked" => recorded[f.of] >= f.least
    /\ f.state = "saved" => f.rows >= f.least

AuditInv ==
    /\ AuditTyped /\ NewestOfToolbar /\ EntriesStay
    /\ \A i \in DOMAIN files : FileHasRows(files[i])
    /\ tab.state = "ready" /\ ~ late => tab.entries.of = filter

LEMMA AuditConstants == All \in Filter /\ None \notin Nat
BY ConsolesAssumption DEF Audit!AuditAssumption

LEMMA AuditStart == ASSUME Audit!Init PROVE AuditInv
<1>1. /\ recorded \in [Filter -> Nat] /\ filter = All /\ tab.state = "loading"
      /\ tab.entries = [of |-> All, rows |-> 0] /\ tab = [state |-> "loading", entries |-> [of |-> All, rows |-> 0]]
      /\ loads = {[n |-> 1, of |-> All, answer |-> None]} /\ asked = 1 /\ files = << >> /\ late = FALSE
  BY DEF Audit!Init, Audit!Entries, Audit!Load
<1>2. [of |-> All, rows |-> 0] \in Entry
  BY AuditConstants DEF Entry
<1>3. [n |-> 1, of |-> All, answer |-> None] \in ListLoad
  BY AuditConstants DEF ListLoad
<1>4. files \in Seq(ExportFile)
  BY <1>1
<1>5. AuditTyped
  BY <1>1, <1>2, <1>3, <1>4, AuditConstants DEF AuditTyped
<1>6. NewestOfToolbar
  BY <1>1 DEF NewestOfToolbar
<1>7. EntriesStay
  BY <1>1, AuditConstants DEF EntriesStay
<1>8. QED
  BY <1>1, <1>5, <1>6, <1>7 DEF AuditInv

LEMMA ReloadKeeps ==
    ASSUME AuditInv, NEW f \in Filter, Audit!Reload(f), filter' = f,
           UNCHANGED <<recorded, files>>
    PROVE  AuditInv'
<1> DEFINE l == [n |-> asked + 1, of |-> f, answer |-> None]
<1>1. /\ asked' = asked + 1 /\ loads' = loads \cup {l}
      /\ tab' = [tab EXCEPT !.state = "loading"] /\ late' = FALSE
  BY DEF Audit!Reload, Audit!Load
<1>2. /\ asked \in Nat /\ tab \in [state : {"loading", "ready", "failed"}, entries : Entry]
      /\ loads \subseteq ListLoad
  BY DEF AuditInv, AuditTyped
<1>3. l \in ListLoad /\ l.n = asked + 1 /\ l.of = f /\ l.answer = None
  BY <1>2 DEF ListLoad
<1> HIDE DEF l
<1>4. /\ tab' \in [state : {"loading", "ready", "failed"}, entries : Entry]
      /\ tab'.entries = tab.entries /\ tab'.state = "loading"
  BY <1>1, <1>2
<1>5. AuditTyped'
  <2>1. loads' \subseteq ListLoad /\ asked' \in Nat /\ late' \in BOOLEAN
    <3>1. loads' \subseteq ListLoad
      BY <1>1, <1>2, <1>3, Zenon
    <3>2. asked' \in Nat
      BY <1>1, <1>2
    <3>3. QED
      BY <1>1, <3>1, <3>2
  <2>2. recorded' \in [Filter -> Nat] /\ filter' \in Filter /\ files' \in Seq(ExportFile)
    BY DEF AuditInv, AuditTyped
  <2>3. QED
    BY <1>4, <2>1, <2>2 DEF AuditTyped
<1>6. NewestOfToolbar'
  <2>1. \A k \in loads : k.n \in Nat /\ k.n <= asked
    BY <1>2 DEF AuditInv, NewestOfToolbar, ListLoad
  <2>2. \A k \in loads : k.n <= asked + 1 /\ k.n # asked + 1
    BY <1>2, <2>1
  <2>3. QED
    BY <1>1, <1>2, <1>3, <2>2 DEF NewestOfToolbar
<1>7. EntriesStay'
  BY <1>1, <1>3, <1>4 DEF AuditInv, EntriesStay
<1>8. (\A i \in DOMAIN files : FileHasRows(files[i]))'
  BY DEF AuditInv, FileHasRows
<1>9. QED
  BY <1>4, <1>5, <1>6, <1>7, <1>8 DEF AuditInv

LEMMA ListLoadKeeps ==
    ASSUME AuditInv, NEW l \in loads,
           Audit!LoadAnswers(l) \/ Audit!LoadLands(l) \/ Audit!LoadFails(l)
    PROVE  AuditInv'
<1>1. /\ l \in ListLoad /\ l.n \in Nat /\ l.of \in Filter /\ l.answer \in Nat \cup {None}
      /\ recorded \in [Filter -> Nat] /\ loads \subseteq ListLoad /\ asked \in Nat
      /\ tab \in [state : {"loading", "ready", "failed"}, entries : Entry]
      /\ l.n <= asked /\ (l.n = asked => l.of = filter)
      /\ l.answer # None => l.answer <= recorded[l.of]
  <2>1. l \in ListLoad
    BY DEF AuditInv, AuditTyped
  <2>2. l.n \in Nat /\ l.of \in Filter /\ l.answer \in Nat \cup {None}
    BY <2>1 DEF ListLoad
  <2>3. QED
    BY <2>1, <2>2 DEF AuditInv, AuditTyped, NewestOfToolbar, EntriesStay
<1>2. UNCHANGED <<recorded, filter, asked, files>>
  BY DEF Audit!LoadAnswers, Audit!LoadLands, Audit!LoadFails, Audit!exports
<1>3. (\A i \in DOMAIN files : FileHasRows(files[i]))'
  BY <1>2 DEF AuditInv, FileHasRows
<1>4. CASE Audit!LoadAnswers(l)
  <2>1. PICK m : m = [l EXCEPT !.answer = recorded[l.of]]
    OBVIOUS
  <2>2. /\ m \in ListLoad /\ m.n = l.n /\ m.of = l.of /\ m.answer = recorded[l.of]
        /\ recorded[l.of] \in Nat
    BY <1>1, <2>1 DEF ListLoad
  <2>3. loads' = (loads \ {l}) \cup {m} /\ UNCHANGED <<tab, late>>
    BY <1>4, <2>1 DEF Audit!LoadAnswers
  <2>4. AuditTyped'
    BY <1>2, <2>2, <2>3 DEF AuditInv, AuditTyped
  <2>5. NewestOfToolbar'
    BY <1>1, <1>2, <2>2, <2>3 DEF AuditInv, NewestOfToolbar
  <2>6. EntriesStay'
    <3>1. m.answer <= recorded[m.of]
      BY <2>2
    <3>2. QED
      BY <1>2, <2>3, <3>1 DEF AuditInv, EntriesStay
  <2>7. QED
    BY <1>2, <1>3, <2>3, <2>4, <2>5, <2>6 DEF AuditInv
<1>5. CASE Audit!LoadLands(l)
  <2>1. /\ loads' = loads \ {l} /\ tab' = [state |-> "ready", entries |-> [of |-> l.of, rows |-> l.answer]]
        /\ late' = (l.n # asked) /\ l.answer # None
    BY <1>5 DEF Audit!LoadLands, Audit!Entries
  <2>2. [of |-> l.of, rows |-> l.answer] \in Entry
    BY <1>1, <2>1 DEF Entry
  <2>3. AuditTyped'
    BY <1>2, <2>1, <2>2 DEF AuditInv, AuditTyped
  <2>4. NewestOfToolbar'
    BY <1>2, <2>1 DEF AuditInv, NewestOfToolbar
  <2>5. EntriesStay'
    BY <1>1, <1>2, <2>1 DEF AuditInv, EntriesStay
  <2>6. tab'.state = "ready" /\ ~ late' => tab'.entries.of = filter'
    BY <1>1, <1>2, <2>1
  <2>7. QED
    BY <1>3, <2>3, <2>4, <2>5, <2>6 DEF AuditInv
<1>6. CASE Audit!LoadFails(l)
  <2>1. /\ loads' = loads \ {l} /\ tab' = [tab EXCEPT !.state = "failed"] /\ late' = (l.n # asked)
    BY <1>6 DEF Audit!LoadFails
  <2>2. /\ tab' \in [state : {"loading", "ready", "failed"}, entries : Entry]
        /\ tab'.entries = tab.entries /\ tab'.state = "failed"
    BY <1>1, <2>1
  <2>3. AuditTyped'
    BY <1>2, <2>1, <2>2 DEF AuditInv, AuditTyped
  <2>4. NewestOfToolbar'
    BY <1>2, <2>1 DEF AuditInv, NewestOfToolbar
  <2>5. EntriesStay'
    BY <1>2, <2>1, <2>2 DEF AuditInv, EntriesStay
  <2>6. QED
    BY <1>3, <2>2, <2>3, <2>4, <2>5 DEF AuditInv
<1>7. QED
  BY <1>4, <1>5, <1>6

LEMMA OnExportKeeps ==
    ASSUME AuditInv, Audit!OnExport
    PROVE  AuditInv'
<1>1. PICK f : f = [of |-> filter, state |-> "asked", least |-> Audit!Shown, rows |-> None]
  OBVIOUS
<1>2. files' = Append(files, f) /\ UNCHANGED <<recorded, filter, tab, loads, asked, late>>
  BY <1>1 DEF Audit!OnExport, Audit!table
<1>3. /\ recorded \in [Filter -> Nat] /\ filter \in Filter /\ files \in Seq(ExportFile)
      /\ tab \in [state : {"loading", "ready", "failed"}, entries : Entry]
  BY DEF AuditInv, AuditTyped
<1>4. Audit!Shown \in Nat /\ recorded[filter] >= Audit!Shown
  <2>1. recorded[filter] \in Nat /\ tab.entries.rows \in Nat
    BY <1>3 DEF Entry
  <2>2. CASE tab.state = "ready" /\ tab.entries.rows > 0 /\ ~ late
    <3>1. tab.entries.of = filter /\ tab.entries.rows <= recorded[tab.entries.of]
      BY <2>2 DEF AuditInv, EntriesStay
    <3>2. Audit!Shown = tab.entries.rows
      BY <2>2 DEF Audit!Shown, Audit!CanExport
    <3>3. QED
      BY <2>1, <3>1, <3>2
  <2>3. CASE ~ (tab.state = "ready" /\ tab.entries.rows > 0 /\ ~ late)
    <3>1. Audit!Shown = 0
      BY <2>3 DEF Audit!Shown, Audit!CanExport
    <3>2. QED
      BY <2>1, <3>1
  <2>4. QED
    BY <2>2, <2>3
<1>5. f \in ExportFile /\ f.of = filter /\ f.state = "asked" /\ f.least = Audit!Shown
  BY <1>1, <1>3, <1>4 DEF ExportFile
<1>6. /\ files' \in Seq(ExportFile)
      /\ \A i \in DOMAIN files' : files'[i] = f \/ (i \in DOMAIN files /\ files'[i] = files[i])
  BY <1>2, <1>3, <1>5, AppendProperties, LenProperties
<1>7. AuditTyped'
  BY <1>2, <1>6 DEF AuditInv, AuditTyped
<1>8. NewestOfToolbar' /\ EntriesStay'
  BY <1>2 DEF AuditInv, NewestOfToolbar, EntriesStay
<1>9. (\A i \in DOMAIN files : FileHasRows(files[i]))'
  BY <1>2, <1>4, <1>5, <1>6 DEF AuditInv, FileHasRows
<1>10. QED
  BY <1>2, <1>7, <1>8, <1>9 DEF AuditInv

LEMMA ExportEnds ==
    ASSUME AuditInv, NEW i \in DOMAIN files, Audit!ExportLands(i) \/ Audit!ExportFails(i)
    PROVE  AuditInv'
<1>1. UNCHANGED <<recorded, filter, tab, loads, asked, late>> /\ files[i].state = "asked"
  BY DEF Audit!ExportLands, Audit!ExportFails, Audit!table
<1>2. files \in Seq(ExportFile) /\ recorded \in [Filter -> Nat] /\ files[i] \in ExportFile
      /\ files[i].of \in Filter /\ recorded[files[i].of] >= files[i].least
  <2>1. files[i] \in ExportFile
    BY DEF AuditInv, AuditTyped
  <2>2. files[i].of \in Filter
    BY <2>1 DEF ExportFile
  <2>3. QED
    BY <1>1, <2>1, <2>2 DEF AuditInv, AuditTyped, FileHasRows
<1>3. PICK f \in ExportFile : /\ files' = [files EXCEPT ![i] = f]
                              /\ f.state # "asked" /\ (f.state = "saved" => f.rows >= f.least)
  <2>1. CASE Audit!ExportLands(i)
    <3>1. PICK f : f = [files[i] EXCEPT !.state = "saved", !.rows = recorded[files[i].of]]
      OBVIOUS
    <3>2. files' = [files EXCEPT ![i] = f]
      BY <2>1, <3>1 DEF Audit!ExportLands
    <3>3. f \in ExportFile /\ f.state = "saved" /\ f.rows = recorded[files[i].of] /\ f.least = files[i].least
      BY <1>2, <3>1 DEF ExportFile
    <3>4. QED
      BY <1>2, <3>2, <3>3
  <2>2. CASE Audit!ExportFails(i)
    <3>1. PICK f : f = [files[i] EXCEPT !.state = "failed"]
      OBVIOUS
    <3>2. files' = [files EXCEPT ![i] = f]
      BY <2>2, <3>1 DEF Audit!ExportFails
    <3>3. f \in ExportFile /\ f.state = "failed"
      BY <1>2, <3>1 DEF ExportFile
    <3>4. QED
      BY <3>2, <3>3
  <2>3. QED
    BY <2>1, <2>2
<1>4. /\ files' \in Seq(ExportFile) /\ DOMAIN files' = DOMAIN files
      /\ \A j \in DOMAIN files : files'[j] = IF j = i THEN f ELSE files[j]
  BY <1>2, <1>3, ExceptSeq, LenProperties
<1>5. AuditTyped'
  BY <1>1, <1>4 DEF AuditInv, AuditTyped
<1>6. NewestOfToolbar' /\ EntriesStay'
  BY <1>1 DEF AuditInv, NewestOfToolbar, EntriesStay
<1>7. (\A j \in DOMAIN files : FileHasRows(files[j]))'
  BY <1>1, <1>3, <1>4 DEF AuditInv, FileHasRows
<1>8. QED
  BY <1>1, <1>5, <1>6, <1>7 DEF AuditInv

LEMMA EntryKeeps ==
    ASSUME AuditInv, NEW found \in SUBSET Filter, Audit!WriteAuditEntry(found)
    PROVE  AuditInv'
<1>1. /\ recorded' = [f \in Filter |-> IF f \in found THEN recorded[f] + 1 ELSE recorded[f]]
      /\ UNCHANGED <<filter, tab, loads, asked, late, files>>
  BY DEF Audit!WriteAuditEntry, Audit!table, Audit!exports
<1>2. recorded \in [Filter -> Nat]
  BY DEF AuditInv, AuditTyped
<1>3. recorded' \in [Filter -> Nat] /\ \A f \in Filter : recorded'[f] \in Nat /\ recorded[f] \in Nat /\ recorded'[f] >= recorded[f]
  BY <1>1, <1>2
<1>4. AuditTyped'
  BY <1>1, <1>3 DEF AuditInv, AuditTyped
<1>5. NewestOfToolbar'
  BY <1>1 DEF AuditInv, NewestOfToolbar
<1>6. EntriesStay'
  <2>1. tab.entries.of \in Filter /\ tab.entries.rows \in Nat
    BY DEF AuditInv, AuditTyped, Entry
  <2>2. tab.entries.rows <= recorded[tab.entries.of]
    BY DEF AuditInv, EntriesStay
  <2>3. tab.entries.rows <= recorded'[tab.entries.of]
    BY <1>3, <2>1, <2>2
  <2>4. ASSUME NEW l \in loads, l.answer # None
        PROVE  l.answer <= recorded'[l.of]
    <3>1. l \in ListLoad
      BY DEF AuditInv, AuditTyped
    <3>2. l.of \in Filter /\ l.answer \in Nat
      BY <2>4, <3>1 DEF ListLoad
    <3>3. l.answer <= recorded[l.of]
      BY <2>4 DEF AuditInv, EntriesStay
    <3>4. QED
      BY <1>3, <3>2, <3>3
  <2>5. QED
    BY <1>1, <2>3, <2>4 DEF EntriesStay
<1>7. ASSUME NEW i \in DOMAIN files
      PROVE  /\ files[i].state = "asked" => recorded'[files[i].of] >= files[i].least
             /\ files[i].state = "saved" => files[i].rows >= files[i].least
  <2>1. files[i] \in ExportFile
    BY DEF AuditInv, AuditTyped
  <2>2. files[i].of \in Filter /\ files[i].least \in Nat
    BY <2>1 DEF ExportFile
  <2>3. /\ files[i].state = "asked" => recorded[files[i].of] >= files[i].least
        /\ files[i].state = "saved" => files[i].rows >= files[i].least
    BY DEF AuditInv, FileHasRows
  <2>4. recorded'[files[i].of] >= recorded[files[i].of] /\ recorded'[files[i].of] \in Nat
        /\ recorded[files[i].of] \in Nat
    BY <1>3, <2>2
  <2>5. QED
    BY <2>2, <2>3, <2>4
<1>8. (\A i \in DOMAIN files : FileHasRows(files[i]))'
  BY <1>1, <1>7 DEF FileHasRows
<1>9. QED
  BY <1>1, <1>4, <1>5, <1>6, <1>8 DEF AuditInv

LEMMA AuditKeeps ==
    ASSUME AuditInv, [Audit!Next]_Audit!vars
    PROVE  AuditInv'
<1>1. ASSUME NEW f \in Filter, Audit!PickFilter(f)
      PROVE  AuditInv'
  BY <1>1, ReloadKeeps DEF Audit!PickFilter, Audit!exports
<1>2. CASE Audit!ClearFilters
  BY <1>1, <1>2, AuditConstants DEF Audit!ClearFilters
<1>3. CASE Audit!TryAgain
  <2>1. filter \in Filter
    BY DEF AuditInv, AuditTyped
  <2>2. QED
    BY <1>3, <2>1, ReloadKeeps DEF Audit!TryAgain, Audit!exports
<1>4. CASE Audit!Export \/ Audit!RetryExport
  BY <1>4, OnExportKeeps DEF Audit!Export, Audit!RetryExport
<1>5. CASE UNCHANGED Audit!vars
  <2>1. UNCHANGED <<recorded, filter, tab, loads, asked, late, files>>
    BY <1>5 DEF Audit!vars, Audit!table, Audit!exports
  <2>2. AuditTyped' /\ NewestOfToolbar' /\ EntriesStay'
    BY <2>1 DEF AuditInv, AuditTyped, NewestOfToolbar, EntriesStay
  <2>3. QED
    BY <2>1, <2>2 DEF AuditInv, FileHasRows
<1>6. QED
  BY <1>1, <1>2, <1>3, <1>4, <1>5, EntryKeeps, ListLoadKeeps, ExportEnds DEF Audit!Next

LEMMA AuditHolds == ASSUME AuditInv PROVE Audit!AuditIsTrue
BY DEF AuditInv, FileHasRows, Audit!AuditIsTrue
-----------------------------------------------------------------------------
SectionData == [filter : Filter, asOf : Nat]
SectionView == [data : SectionData, failed : BOOLEAN]
FleetLoad == [filter : Filter, asked : Nat, sections : SUBSET Section, left : SUBSET Section,
              newest : Nat, failed : BOOLEAN, open : BOOLEAN]
FleetTyped ==
    /\ shown \in [Section -> SectionView]
    /\ filter \in Filter
    /\ loads \in Seq(FleetLoad)
    /\ lastUpdated \in Nat /\ now \in Nat

\* The newest load that asks for a section.
Asks(ls, i, s) == s \in ls[i].sections /\ \A j \in (i + 1) .. Len(ls) : s \notin ls[j].sections

LoadsOpen ==
    \A i \in DOMAIN loads : /\ loads[i].left \subseteq loads[i].sections
                            /\ loads[i].left # {} => loads[i].open
                            /\ loads[i].asked <= now

\* The shipments have been asked for with the filter that is set; they have
\* come, or failed, or are awaited.
ShipmentsAsked ==
    /\ \E i \in DOMAIN loads : Asks(loads, i, "shipments")
    /\ \A i \in DOMAIN loads :
           Asks(loads, i, "shipments") =>
               /\ loads[i].filter = filter
               /\ \/ "shipments" \in loads[i].left \/ shown["shipments"].failed
                  \/ shown["shipments"].data.filter = filter

\* What a section shows is no newer than what it still waits for.
NeverOlder ==
    \A s \in Section :
        /\ shown[s].data.asOf <= now
        /\ \A i \in DOMAIN loads :
               s \in loads[i].left /\ Asks(loads, i, s) => shown[s].data.asOf <= loads[i].asked

SomeSection(t) == t = 0 \/ \E s \in Section : shown[s].data.asOf >= t
Accounted == SomeSection(lastUpdated) /\ \A i \in DOMAIN loads : SomeSection(loads[i].newest)

FleetInv == FleetTyped /\ LoadsOpen /\ ShipmentsAsked /\ NeverOlder /\ Accounted

LEMMA FleetConstants == All \in Filter /\ "shipments" \in Section
BY ConsolesAssumption DEF Fleet!FleetAssumption

LEMMA FleetStart == ASSUME Fleet!Init PROVE FleetInv
<1>1. PICK l : l = [filter |-> All, asked |-> 1, sections |-> Section, left |-> Section, newest |-> 0,
                    failed |-> FALSE, open |-> TRUE]
  OBVIOUS
<1>2. /\ l \in FleetLoad /\ l.filter = All /\ l.asked = 1 /\ l.sections = Section /\ l.left = Section
      /\ l.newest = 0 /\ l.open = TRUE
  BY <1>1, FleetConstants DEF FleetLoad
<1>3. /\ loads = <<l>> /\ now = 1 /\ filter = All /\ lastUpdated = 0
      /\ shown = [s \in Section |-> [data |-> [filter |-> All, asOf |-> 0], failed |-> FALSE]]
  BY <1>1 DEF Fleet!Init, Fleet!Begun, Fleet!NoData
<1>4. loads \in Seq(FleetLoad) /\ Len(loads) = 1 /\ DOMAIN loads = {1} /\ loads[1] = l
  BY <1>2, <1>3
<1>5. /\ shown \in [Section -> SectionView] /\ \A s \in Section : shown[s].data.asOf = 0
      /\ shown["shipments"].data.filter = All
  <2>1. [filter |-> All, asOf |-> 0] \in SectionData
    BY FleetConstants DEF SectionData
  <2>2. [data |-> [filter |-> All, asOf |-> 0], failed |-> FALSE] \in SectionView
    BY <2>1 DEF SectionView
  <2>3. QED
    BY <1>3, <2>2, FleetConstants
<1>6. FleetTyped
  BY <1>3, <1>4, <1>5, FleetConstants DEF FleetTyped
<1>7. LoadsOpen
  BY <1>2, <1>3, <1>4 DEF LoadsOpen
<1>8. ShipmentsAsked
  <2>1. Asks(loads, 1, "shipments")
    BY <1>2, <1>4, FleetConstants DEF Asks
  <2>2. QED
    BY <1>2, <1>3, <1>4, <1>5, <2>1, FleetConstants DEF ShipmentsAsked
<1>9. NeverOlder
  BY <1>2, <1>3, <1>4, <1>5 DEF NeverOlder
<1>10. Accounted
  BY <1>2, <1>3, <1>4 DEF Accounted, SomeSection
<1>11. QED
  BY <1>6, <1>7, <1>8, <1>9, <1>10 DEF FleetInv

\* A load begins; none that it asks for again is the newest any more.
LEMMA LoadKeeps ==
    ASSUME FleetInv, NEW f \in Filter, NEW sections \in SUBSET Section, Fleet!Load(f, sections),
           filter' = f, f # filter => "shipments" \in sections
    PROVE  FleetInv'
<1>1. PICK l : l = [filter |-> f, asked |-> now, sections |-> sections, left |-> sections, newest |-> 0,
                    failed |-> FALSE, open |-> TRUE]
  OBVIOUS
<1>2. now \in Nat /\ loads \in Seq(FleetLoad) /\ Len(loads) \in Nat /\ DOMAIN loads = 1 .. Len(loads)
  BY LenProperties DEF FleetInv, FleetTyped
<1>3. /\ l \in FleetLoad /\ l.filter = f /\ l.asked = now /\ l.sections = sections /\ l.left = sections
      /\ l.newest = 0 /\ l.open = TRUE
  BY <1>1, <1>2 DEF FleetLoad
<1>4. PICK ls : ls = Append(loads, l)
  OBVIOUS
<1>5. loads' = ls /\ UNCHANGED <<shown, lastUpdated, now>>
  BY <1>1, <1>4 DEF Fleet!Load, Fleet!Begun
<1>6. /\ ls \in Seq(FleetLoad) /\ Len(ls) = Len(loads) + 1 /\ DOMAIN ls = 1 .. Len(loads) + 1
      /\ \A i \in 1 .. Len(loads) : ls[i] = loads[i]
      /\ ls[Len(loads) + 1] = l
  BY <1>2, <1>3, <1>4, AppendProperties, LenProperties
<1>7. \A i \in DOMAIN ls : i \in DOMAIN loads \/ i = Len(loads) + 1
  BY <1>2, <1>6
<1>8. ASSUME NEW s, NEW i \in DOMAIN loads
      PROVE  Asks(ls, i, s) <=> Asks(loads, i, s) /\ s \notin sections
  <2>1. /\ \A j \in (i + 1) .. Len(ls) : j \in (i + 1) .. Len(loads) \/ j = Len(loads) + 1
        /\ Len(loads) + 1 \in (i + 1) .. Len(ls)
        /\ \A j \in (i + 1) .. Len(loads) : j \in (i + 1) .. Len(ls) /\ j \in 1 .. Len(loads)
        /\ i \in 1 .. Len(loads)
    BY <1>2, <1>6
  <2>2. ls[i] = loads[i] /\ \A j \in (i + 1) .. Len(loads) : ls[j] = loads[j]
    BY <1>6, <2>1
  <2>3. QED
    BY <1>3, <1>6, <2>1, <2>2 DEF Asks
<1>9. ASSUME NEW s
      PROVE  Asks(ls, Len(loads) + 1, s) <=> s \in sections
  <2>1. (Len(loads) + 1 + 1) .. Len(ls) = {}
    BY <1>2, <1>6
  <2>2. QED
    BY <1>3, <1>6, <2>1 DEF Asks
<1>10. Len(loads) + 1 \in DOMAIN ls /\ \A i \in DOMAIN loads : i \in DOMAIN ls
  BY <1>2, <1>6
<1>11. FleetTyped'
  BY <1>5, <1>6 DEF FleetInv, FleetTyped
<1>12. LoadsOpen'
  <2>1. \A i \in DOMAIN loads : /\ loads[i].left \subseteq loads[i].sections
                                /\ loads[i].left # {} => loads[i].open
                                /\ loads[i].asked <= now
    BY DEF FleetInv, LoadsOpen
  <2>2. \A i \in DOMAIN ls : /\ ls[i].left \subseteq ls[i].sections
                             /\ ls[i].left # {} => ls[i].open
                             /\ ls[i].asked <= now
    BY <1>2, <1>3, <1>6, <1>7, <2>1
  <2>3. QED
    BY <1>5, <2>2 DEF LoadsOpen
<1>13. ShipmentsAsked'
  <2>1. \E i \in DOMAIN ls : Asks(ls, i, "shipments")
    <3>1. CASE "shipments" \in sections
      BY <1>9, <1>10, <3>1
    <3>2. CASE "shipments" \notin sections
      <4>1. PICK i \in DOMAIN loads : Asks(loads, i, "shipments")
        BY DEF FleetInv, ShipmentsAsked
      <4>2. Asks(ls, i, "shipments")
        BY <1>8, <3>2, <4>1
      <4>3. QED
        BY <1>10, <4>2
    <3>3. QED
      BY <3>1, <3>2
  <2>2. ASSUME NEW i \in DOMAIN ls, Asks(ls, i, "shipments")
        PROVE  /\ ls[i].filter = f
               /\ \/ "shipments" \in ls[i].left \/ shown["shipments"].failed
                  \/ shown["shipments"].data.filter = f
    <3>1. CASE i = Len(loads) + 1
      BY <1>3, <1>6, <1>9, <2>2, <3>1
    <3>2. CASE i \in DOMAIN loads
      <4>1. Asks(loads, i, "shipments") /\ f = filter
        BY <1>8, <2>2, <3>2
      <4>2. ls[i] = loads[i]
        BY <1>2, <1>6, <3>2
      <4>3. QED
        BY <3>2, <4>1, <4>2 DEF FleetInv, ShipmentsAsked
    <3>3. QED
      BY <1>7, <3>1, <3>2
  <2>3. QED
    BY <1>5, <2>1, <2>2 DEF ShipmentsAsked
<1>14. NeverOlder'
  <2>1. ASSUME NEW s \in Section, NEW i \in DOMAIN ls, s \in ls[i].left, Asks(ls, i, s)
        PROVE  shown[s].data.asOf <= ls[i].asked
    <3>1. CASE i = Len(loads) + 1
      BY <1>3, <1>6, <3>1 DEF FleetInv, NeverOlder
    <3>2. CASE i \in DOMAIN loads
      <4>1. Asks(loads, i, s)
        BY <1>8, <2>1, <3>2
      <4>2. ls[i] = loads[i]
        BY <1>2, <1>6, <3>2
      <4>3. QED
        BY <2>1, <3>2, <4>1, <4>2 DEF FleetInv, NeverOlder
    <3>3. QED
      BY <1>7, <3>1, <3>2
  <2>2. \A s \in Section : shown[s].data.asOf <= now
    BY DEF FleetInv, NeverOlder
  <2>3. QED
    BY <1>5, <2>1, <2>2 DEF NeverOlder
<1>15. Accounted'
  <2>1. SomeSection(lastUpdated) /\ \A i \in DOMAIN loads : SomeSection(loads[i].newest)
    BY DEF FleetInv, Accounted
  <2>2. \A i \in DOMAIN ls : SomeSection(ls[i].newest)
    <3>1. SomeSection(0)
      BY DEF SomeSection
    <3>2. QED
      BY <1>2, <1>3, <1>6, <1>7, <2>1, <3>1
  <2>3. QED
    BY <1>5, <2>1, <2>2 DEF Accounted, SomeSection
<1>16. QED
  BY <1>11, <1>12, <1>13, <1>14, <1>15 DEF FleetInv

\* A step of one load that asks for the same, and of what the sections show:
\* what they show is no older than it was, and the load has left only what is
\* there.
Moves(l, m) ==
    /\ m.filter = l.filter /\ m.asked = l.asked /\ m.sections = l.sections
    /\ m.left \subseteq l.left /\ (m.left # {} => m.open)

LEMMA OneLoad ==
    ASSUME FleetInv, NEW i \in DOMAIN loads, NEW m \in FleetLoad, Moves(loads[i], m),
           NEW ls, ls = [loads EXCEPT ![i] = m]
    PROVE  /\ ls \in Seq(FleetLoad) /\ Len(ls) = Len(loads) /\ DOMAIN ls = DOMAIN loads
           /\ \A j \in DOMAIN loads : ls[j] = IF j = i THEN m ELSE loads[j]
           /\ \A s : \A j \in DOMAIN loads : Asks(ls, j, s) <=> Asks(loads, j, s)
<1>1. loads \in Seq(FleetLoad) /\ Len(loads) \in Nat /\ DOMAIN loads = 1 .. Len(loads)
  BY LenProperties DEF FleetInv, FleetTyped
<1>2. /\ ls \in Seq(FleetLoad) /\ Len(ls) = Len(loads) /\ DOMAIN ls = DOMAIN loads
      /\ \A j \in DOMAIN loads : ls[j] = IF j = i THEN m ELSE loads[j]
  BY <1>1, ExceptSeq, LenProperties
<1>3. \A j \in DOMAIN loads : ls[j].sections = loads[j].sections
  BY <1>2 DEF Moves
<1>4. \A j \in DOMAIN loads : \A k \in (j + 1) .. Len(loads) : k \in DOMAIN loads
  BY <1>1
<1>5. ASSUME NEW s, NEW j \in DOMAIN loads
      PROVE  Asks(ls, j, s) <=> Asks(loads, j, s)
  BY <1>2, <1>3, <1>4 DEF Asks
<1>6. QED
  BY <1>2, <1>5

\* Of two loads that ask for a section only one is the newest.
LEMMA OneNewest ==
    ASSUME FleetInv, NEW s, NEW i \in DOMAIN loads, NEW j \in DOMAIN loads,
           Asks(loads, i, s), Asks(loads, j, s)
    PROVE  i = j
<1>1. loads \in Seq(FleetLoad) /\ Len(loads) \in Nat /\ DOMAIN loads = 1 .. Len(loads)
  BY LenProperties DEF FleetInv, FleetTyped
<1>2. ~ (i < j) /\ ~ (j < i)
  BY <1>1 DEF Asks
<1>3. QED
  BY <1>1, <1>2

\* A section's answer to its newest request.
LEMMA SectionMoves ==
    ASSUME FleetInv, NEW i \in DOMAIN loads, NEW s \in loads[i].left,
           NEW m \in FleetLoad, Moves(loads[i], m), m.left = loads[i].left \ {s},
           loads' = [loads EXCEPT ![i] = m],
           NEW v \in SectionView,
           \/ /\ Asks(loads, i, s) /\ shown' = [shown EXCEPT ![s] = v]
              /\ v.data.asOf >= shown[s].data.asOf /\ v.data.asOf <= now
              /\ (v.failed \/ v.data.filter = loads[i].filter)
              /\ m.newest \in {loads[i].newest, v.data.asOf}
           \/ /\ ~ Asks(loads, i, s) /\ shown' = shown /\ m.newest = loads[i].newest,
           UNCHANGED <<filter, lastUpdated, now>>
    PROVE  FleetInv'
<1>1. /\ shown \in [Section -> SectionView] /\ now \in Nat /\ loads \in Seq(FleetLoad)
      /\ loads[i] \in FleetLoad /\ lastUpdated \in Nat
      /\ loads[i].left \subseteq loads[i].sections
  BY DEF FleetInv, FleetTyped, LoadsOpen
<1>2. s \in Section /\ \A l \in FleetLoad : l.newest \in Nat /\ l.asked \in Nat
  BY <1>1 DEF FleetLoad
<1>3. \A w \in SectionView : w.data.asOf \in Nat
  BY DEF SectionView, SectionData
<1>4. PICK ls : ls = [loads EXCEPT ![i] = m]
  OBVIOUS
<1>5. /\ ls \in Seq(FleetLoad) /\ DOMAIN ls = DOMAIN loads
      /\ \A j \in DOMAIN loads : ls[j] = IF j = i THEN m ELSE loads[j]
      /\ \A t : \A j \in DOMAIN loads : Asks(ls, j, t) <=> Asks(loads, j, t)
  BY <1>4, OneLoad
<1>6. loads' = ls
  BY <1>4
<1>7. /\ shown' \in [Section -> SectionView]
      /\ \A t \in Section : t # s => shown'[t] = shown[t]
      /\ shown'[s] = v \/ (shown'[s] = shown[s] /\ ~ Asks(loads, i, s))
      /\ \A t \in Section : shown'[t].data.asOf >= shown[t].data.asOf /\ shown'[t].data.asOf <= now
      /\ Asks(loads, i, s) => shown'[s] = v
  <2>1. \A t \in Section : shown[t].data.asOf <= now /\ shown[t].data.asOf \in Nat
    BY <1>1, <1>3 DEF FleetInv, NeverOlder
  <2>2. CASE Asks(loads, i, s) /\ shown' = [shown EXCEPT ![s] = v]
             /\ v.data.asOf >= shown[s].data.asOf /\ v.data.asOf <= now
    BY <1>1, <1>2, <2>1, <2>2
  <2>3. CASE shown' = shown /\ ~ Asks(loads, i, s)
    BY <1>1, <2>1, <2>3
  <2>4. QED
    BY <2>2, <2>3
<1>8. \A t : SomeSection(t) /\ t \in Nat => t = 0 \/ \E r \in Section : shown'[r].data.asOf >= t
  <2>1. ASSUME NEW t \in Nat, SomeSection(t), t # 0
        PROVE  \E r \in Section : shown'[r].data.asOf >= t
    <3>1. PICK r \in Section : shown[r].data.asOf >= t
      BY <2>1 DEF SomeSection
    <3>2. shown[r].data.asOf \in Nat /\ shown'[r].data.asOf \in Nat
          /\ shown'[r].data.asOf >= shown[r].data.asOf
      BY <1>1, <1>3, <1>7
    <3>3. QED
      BY <3>1, <3>2
  <2>2. QED
    BY <2>1
<1>9. FleetTyped'
  BY <1>5, <1>6, <1>7 DEF FleetInv, FleetTyped
<1>10. LoadsOpen'
  <2>1. \A j \in DOMAIN loads : /\ loads[j].left \subseteq loads[j].sections
                                /\ loads[j].left # {} => loads[j].open
                                /\ loads[j].asked <= now
    BY DEF FleetInv, LoadsOpen
  <2>2. \A j \in DOMAIN ls : /\ ls[j].left \subseteq ls[j].sections
                             /\ ls[j].left # {} => ls[j].open
                             /\ ls[j].asked <= now
    BY <1>5, <2>1 DEF Moves
  <2>3. QED
    BY <1>6, <2>2 DEF LoadsOpen
<1>11. ShipmentsAsked'
  <2>1. \E j \in DOMAIN ls : Asks(ls, j, "shipments")
    BY <1>5 DEF FleetInv, ShipmentsAsked
  <2>2. ASSUME NEW j \in DOMAIN ls, Asks(ls, j, "shipments")
        PROVE  /\ ls[j].filter = filter
               /\ \/ "shipments" \in ls[j].left \/ shown'["shipments"].failed
                  \/ shown'["shipments"].data.filter = filter
    <3>1. /\ Asks(loads, j, "shipments") /\ loads[j].filter = filter
          /\ \/ "shipments" \in loads[j].left \/ shown["shipments"].failed
             \/ shown["shipments"].data.filter = filter
      BY <1>5, <2>2 DEF FleetInv, ShipmentsAsked
    <3>2. ls[j].filter = filter
      BY <1>5, <3>1 DEF Moves
    <3>3. CASE s # "shipments"
      <4>1. shown'["shipments"] = shown["shipments"]
        BY <1>7, <3>3, FleetConstants
      <4>2. "shipments" \in loads[j].left => "shipments" \in ls[j].left
        BY <1>5, <2>2, <3>3
      <4>3. QED
        BY <3>1, <3>2, <4>1, <4>2
    <3>4. CASE s = "shipments"
      <4>1. CASE j = i
        <5>1. shown'["shipments"] = v /\ (v.failed \/ v.data.filter = loads[i].filter)
          BY <1>1, <1>2, <1>7, <3>1, <3>4, <4>1
        <5>2. QED
          BY <3>1, <3>2, <4>1, <5>1
      <4>2. CASE j # i
        <5>1. ~ Asks(loads, i, s)
          <6>1. j \in DOMAIN loads
            BY <1>5
          <6>2. QED
            BY <3>1, <3>4, <4>2, <6>1, OneNewest
        <5>2. shown'["shipments"] = shown["shipments"] /\ ls[j] = loads[j]
          BY <1>5, <1>7, <3>4, <4>2, <5>1
        <5>3. QED
          BY <3>1, <3>2, <5>2
      <4>3. QED
        BY <4>1, <4>2
    <3>5. QED
      BY <3>3, <3>4
  <2>3. QED
    BY <1>6, <2>1, <2>2 DEF ShipmentsAsked
<1>12. NeverOlder'
  <2>1. ASSUME NEW t \in Section, NEW j \in DOMAIN ls, t \in ls[j].left, Asks(ls, j, t)
        PROVE  shown'[t].data.asOf <= ls[j].asked
    <3>1. Asks(loads, j, t) /\ t \in loads[j].left /\ ls[j].asked = loads[j].asked
      BY <1>5, <2>1 DEF Moves
    <3>2. shown[t].data.asOf <= loads[j].asked
      BY <1>5, <2>1, <3>1 DEF FleetInv, NeverOlder
    <3>3. shown'[t] = shown[t]
      <4>1. CASE t = s
        <5>1. j # i
          BY <1>5, <2>1, <4>1
        <5>2. ~ Asks(loads, i, s)
          BY <1>5, <2>1, <3>1, <4>1, <5>1, OneNewest
        <5>3. QED
          BY <1>7, <4>1, <5>2
      <4>2. QED
        BY <1>7, <4>1
    <3>4. QED
      BY <3>1, <3>2, <3>3
  <2>2. QED
    BY <1>6, <1>7, <2>1 DEF NeverOlder
<1>13. Accounted'
  <2>1. SomeSection(lastUpdated) /\ \A j \in DOMAIN loads : SomeSection(loads[j].newest)
    BY DEF FleetInv, Accounted
  <2>2. lastUpdated = 0 \/ \E r \in Section : shown'[r].data.asOf >= lastUpdated
    BY <1>1, <1>8, <2>1
  <2>3. ASSUME NEW j \in DOMAIN ls
        PROVE  ls[j].newest = 0 \/ \E r \in Section : shown'[r].data.asOf >= ls[j].newest
    <3>1. loads[j] \in FleetLoad /\ loads[j].newest \in Nat
      BY <1>1, <1>2, <1>5, <2>3
    <3>2. loads[j].newest = 0 \/ \E r \in Section : shown'[r].data.asOf >= loads[j].newest
      BY <1>5, <1>8, <2>1, <2>3, <3>1
    <3>3. CASE ls[j].newest = loads[j].newest
      BY <3>2, <3>3
    <3>4. CASE shown'[s] = v /\ ls[j].newest = v.data.asOf
      <4>1. v.data.asOf \in Nat
        BY <1>3
      <4>2. QED
        BY <1>2, <3>4, <4>1
    <3>5. ls[j].newest = loads[j].newest \/ (shown'[s] = v /\ ls[j].newest = v.data.asOf)
      BY <1>1, <1>2, <1>5, <2>3
    <3>6. QED
      BY <3>3, <3>4, <3>5
  <2>4. QED
    BY <1>6, <2>2, <2>3 DEF Accounted, SomeSection
<1>14. QED
  BY <1>9, <1>10, <1>11, <1>12, <1>13 DEF FleetInv

LEMMA AnswerKeepsFleet ==
    ASSUME FleetInv, NEW i \in DOMAIN loads, NEW s \in Section,
           Fleet!SectionAnswers(i, s) \/ Fleet!SectionFails(i, s)
    PROVE  FleetInv'
<1>1. /\ shown \in [Section -> SectionView] /\ now \in Nat /\ loads \in Seq(FleetLoad)
      /\ loads[i] \in FleetLoad /\ filter \in Filter
      /\ loads[i].left \subseteq loads[i].sections
      /\ loads[i].left # {} => loads[i].open
  BY DEF FleetInv, FleetTyped, LoadsOpen
<1>2. /\ loads[i].filter \in Filter /\ loads[i].asked \in Nat /\ loads[i].newest \in Nat
      /\ loads[i].failed \in BOOLEAN
  BY <1>1 DEF FleetLoad
<1>3. s \in loads[i].left /\ UNCHANGED <<filter, lastUpdated, now>>
  BY DEF Fleet!SectionAnswers, Fleet!SectionFails
<1>4. Fleet!Newest(i, s) <=> Asks(loads, i, s)
  BY <1>1, <1>3 DEF Fleet!Newest, Asks
<1>5. shown[s] \in SectionView /\ shown[s].data \in SectionData /\ shown[s].data.asOf \in Nat
      /\ shown[s].data.asOf <= now /\ (Asks(loads, i, s) => shown[s].data.asOf <= loads[i].asked)
  <2>1. shown[s] \in SectionView
    BY <1>1
  <2>2. shown[s].data \in SectionData
    BY <2>1 DEF SectionView
  <2>3. shown[s].data.asOf \in Nat
    BY <2>2 DEF SectionData
  <2>4. QED
    BY <1>3, <2>1, <2>2, <2>3 DEF FleetInv, NeverOlder
<1>6. CASE Fleet!SectionAnswers(i, s)
  <2>1. PICK asOf \in loads[i].asked .. now :
           IF Fleet!Newest(i, s)
              THEN /\ shown' = [shown EXCEPT ![s] = [data |-> [filter |-> loads[i].filter, asOf |-> asOf],
                                                     failed |-> FALSE]]
                   /\ loads' = [loads EXCEPT ![i].left = @ \ {s},
                                             ![i].newest = IF asOf > @ THEN asOf ELSE @]
              ELSE /\ loads' = [loads EXCEPT ![i].left = @ \ {s}]
                   /\ UNCHANGED shown
    BY <1>6 DEF Fleet!SectionAnswers
  <2>2. asOf \in Nat /\ asOf >= loads[i].asked /\ asOf <= now
    BY <1>1, <1>2
  <2>3. CASE Asks(loads, i, s)
    <3>1. PICK v : v = [data |-> [filter |-> loads[i].filter, asOf |-> asOf], failed |-> FALSE]
      OBVIOUS
    <3>2. /\ v \in SectionView /\ v.data.filter = loads[i].filter /\ v.data.asOf = asOf
      BY <1>2, <2>2, <3>1 DEF SectionView, SectionData
    <3>3. PICK n : n = IF asOf > loads[i].newest THEN asOf ELSE loads[i].newest
      OBVIOUS
    <3>4. PICK m : m = [loads[i] EXCEPT !.left = loads[i].left \ {s}, !.newest = n]
      OBVIOUS
    <3>5. n \in Nat /\ (n = loads[i].newest \/ n = asOf)
      BY <1>2, <2>2, <3>3
    <3>6. /\ m \in FleetLoad /\ Moves(loads[i], m) /\ m.left = loads[i].left \ {s} /\ m.newest = n
      BY <1>1, <1>3, <3>4, <3>5 DEF FleetLoad, Moves
    <3>7. loads' = [loads EXCEPT ![i] = m]
      <4>1. loads' = [loads EXCEPT ![i].left = loads[i].left \ {s}, ![i].newest = n]
        BY <1>4, <2>1, <2>3, <3>3
      <4>2. QED
        BY <3>4, <4>1
    <3>8. shown' = [shown EXCEPT ![s] = v]
      BY <1>4, <2>1, <2>3, <3>1
    <3>9. v.data.asOf >= shown[s].data.asOf /\ v.data.asOf <= now
      BY <1>2, <1>5, <2>2, <2>3, <3>2
    <3>10. QED
      BY <1>3, <2>3, <3>2, <3>5, <3>6, <3>7, <3>8, <3>9, SectionMoves
  <2>4. CASE ~ Asks(loads, i, s)
    <3>1. PICK m : m = [loads[i] EXCEPT !.left = loads[i].left \ {s}]
      OBVIOUS
    <3>2. /\ m \in FleetLoad /\ Moves(loads[i], m) /\ m.left = loads[i].left \ {s}
          /\ m.newest = loads[i].newest
      BY <1>1, <1>3, <3>1 DEF FleetLoad, Moves
    <3>3. loads' = [loads EXCEPT ![i] = m] /\ shown' = shown
      BY <1>4, <2>1, <2>4, <3>1
    <3>4. QED
      BY <1>3, <1>5, <2>4, <3>2, <3>3, SectionMoves
  <2>5. QED
    BY <2>3, <2>4
<1>7. CASE Fleet!SectionFails(i, s)
  <2>1. PICK b : b = (loads[i].failed \/ Fleet!Newest(i, s))
    OBVIOUS
  <2>2. b \in BOOLEAN
    BY <2>1
  <2>3. PICK m : m = [loads[i] EXCEPT !.left = loads[i].left \ {s}, !.failed = b]
    OBVIOUS
  <2>4. /\ m \in FleetLoad /\ Moves(loads[i], m) /\ m.left = loads[i].left \ {s}
        /\ m.newest = loads[i].newest
    BY <1>1, <1>3, <2>2, <2>3 DEF FleetLoad, Moves
  <2>5. loads' = [loads EXCEPT ![i] = m]
    <3>1. loads' = [loads EXCEPT ![i].left = loads[i].left \ {s}, ![i].failed = b]
      BY <1>7, <2>1 DEF Fleet!SectionFails
    <3>2. QED
      BY <2>3, <3>1
  <2>6. CASE Asks(loads, i, s)
    <3>1. PICK v : v = [shown[s] EXCEPT !.failed = TRUE]
      OBVIOUS
    <3>2. v \in SectionView /\ v.data = shown[s].data /\ v.failed = TRUE
      BY <1>5, <3>1 DEF SectionView
    <3>3. shown' = [shown EXCEPT ![s] = v]
      BY <1>4, <1>7, <2>6, <3>1 DEF Fleet!SectionFails
    <3>4. v.data.asOf >= shown[s].data.asOf /\ v.data.asOf <= now
      BY <1>5, <3>2
    <3>5. QED
      BY <1>3, <2>4, <2>5, <2>6, <3>2, <3>3, <3>4, SectionMoves
  <2>7. CASE ~ Asks(loads, i, s)
    <3>1. shown' = shown
      BY <1>4, <1>7, <2>7 DEF Fleet!SectionFails
    <3>2. QED
      BY <1>3, <1>5, <2>4, <2>5, <2>7, <3>1, SectionMoves
  <2>8. QED
    BY <2>6, <2>7
<1>8. QED
  BY <1>6, <1>7

\* The end of a load: the page takes the time of what it brought.
LEMMA LoadEndKeeps ==
    ASSUME FleetInv, NEW i \in DOMAIN loads, Fleet!LoadEnds(i)
    PROVE  FleetInv'
<1>1. /\ loads \in Seq(FleetLoad) /\ loads[i] \in FleetLoad /\ loads[i].left = {}
      /\ UNCHANGED <<shown, filter, now>> /\ loads[i].newest \in Nat
  <2>1. loads[i] \in FleetLoad
    BY DEF FleetInv, FleetTyped
  <2>2. loads[i].newest \in Nat
    BY <2>1 DEF FleetLoad
  <2>3. QED
    BY <2>1, <2>2 DEF FleetInv, FleetTyped, Fleet!LoadEnds
<1>2. PICK m : m = [loads[i] EXCEPT !.open = FALSE]
  OBVIOUS
<1>3. m \in FleetLoad /\ Moves(loads[i], m) /\ m.left = {} /\ m.newest = loads[i].newest
  BY <1>1, <1>2 DEF FleetLoad, Moves
<1>4. PICK ls : ls = [loads EXCEPT ![i] = m]
  OBVIOUS
<1>5. /\ ls \in Seq(FleetLoad) /\ DOMAIN ls = DOMAIN loads
      /\ \A j \in DOMAIN loads : ls[j] = IF j = i THEN m ELSE loads[j]
      /\ \A t : \A j \in DOMAIN loads : Asks(ls, j, t) <=> Asks(loads, j, t)
  BY <1>3, <1>4, OneLoad
<1>6. loads' = ls
  BY <1>2, <1>4 DEF Fleet!LoadEnds
<1>7. \A j \in DOMAIN loads : /\ ls[j].filter = loads[j].filter /\ ls[j].asked = loads[j].asked
                              /\ ls[j].sections = loads[j].sections /\ ls[j].left = loads[j].left
                              /\ ls[j].newest = loads[j].newest
  BY <1>1, <1>3, <1>5 DEF Moves
<1>8. lastUpdated' = loads[i].newest \/ lastUpdated' = lastUpdated
  BY DEF Fleet!LoadEnds
<1>9. FleetTyped'
  BY <1>1, <1>5, <1>6, <1>8 DEF FleetInv, FleetTyped
<1>10. LoadsOpen'
  <2>1. \A j \in DOMAIN loads : /\ loads[j].left \subseteq loads[j].sections
                                /\ loads[j].left # {} => loads[j].open
                                /\ loads[j].asked <= now
    BY DEF FleetInv, LoadsOpen
  <2>2. \A j \in DOMAIN ls : ls[j].left # {} => ls[j].open
    BY <1>3, <1>5, <2>1
  <2>3. \A j \in DOMAIN ls : ls[j].left \subseteq ls[j].sections /\ ls[j].asked <= now
    BY <1>5, <1>7, <2>1
  <2>4. QED
    BY <1>1, <1>6, <2>2, <2>3 DEF LoadsOpen
<1>11. ShipmentsAsked'
  BY <1>1, <1>5, <1>6, <1>7 DEF FleetInv, ShipmentsAsked
<1>12. NeverOlder'
  BY <1>1, <1>5, <1>6, <1>7 DEF FleetInv, NeverOlder
<1>13. Accounted'
  BY <1>1, <1>5, <1>6, <1>7, <1>8 DEF FleetInv, Accounted, SomeSection
<1>14. QED
  BY <1>9, <1>10, <1>11, <1>12, <1>13 DEF FleetInv

LEMMA ClockKeeps ==
    ASSUME FleetInv, Fleet!Tick
    PROVE  FleetInv'
<1>1. UNCHANGED <<shown, filter, loads, lastUpdated>> /\ now' = now + 1 /\ now \in Nat
  BY DEF Fleet!Tick, Fleet!dashboard, FleetInv, FleetTyped
<1>2. FleetTyped'
  BY <1>1 DEF FleetInv, FleetTyped
<1>3. LoadsOpen'
  <2>1. ASSUME NEW j \in DOMAIN loads
        PROVE  loads[j].asked <= now + 1
    <3>1. loads[j] \in FleetLoad /\ loads[j].asked <= now
      BY DEF FleetInv, FleetTyped, LoadsOpen
    <3>2. loads[j].asked \in Nat
      BY <3>1 DEF FleetLoad
    <3>3. QED
      BY <1>1, <3>1, <3>2
  <2>2. QED
    BY <1>1, <2>1 DEF FleetInv, LoadsOpen
<1>4. NeverOlder'
  <2>1. ASSUME NEW s \in Section
        PROVE  shown[s].data.asOf <= now + 1
    <3>1. shown[s] \in SectionView /\ shown[s].data.asOf <= now
      BY DEF FleetInv, FleetTyped, NeverOlder
    <3>2. shown[s].data.asOf \in Nat
      BY <3>1 DEF SectionView, SectionData
    <3>3. QED
      BY <1>1, <3>1, <3>2
  <2>2. QED
    BY <1>1, <2>1 DEF FleetInv, NeverOlder
<1>5. ShipmentsAsked' /\ Accounted'
  BY <1>1 DEF FleetInv, ShipmentsAsked, Accounted, SomeSection
<1>6. QED
  BY <1>2, <1>3, <1>4, <1>5 DEF FleetInv

LEMMA FleetKeeps ==
    ASSUME FleetInv, [Fleet!Next]_Fleet!vars
    PROVE  FleetInv'
<1>1. filter \in Filter
  BY DEF FleetInv, FleetTyped
<1>2. ASSUME UNCHANGED <<shown, filter, loads, lastUpdated, now>>
      PROVE  FleetInv'
  <2>1. FleetTyped' /\ LoadsOpen'
    BY <1>2 DEF FleetInv, FleetTyped, LoadsOpen
  <2>2. ShipmentsAsked' /\ NeverOlder' /\ Accounted'
    BY <1>2 DEF FleetInv, ShipmentsAsked, NeverOlder, Accounted, SomeSection
  <2>3. QED
    BY <2>1, <2>2 DEF FleetInv
<1>3. ASSUME NEW f \in Filter, Fleet!SetStatusFilter(f)
      PROVE  FleetInv'
  <2>1. Fleet!Load(f, {"shipments"}) /\ filter' = f
    BY <1>3 DEF Fleet!SetStatusFilter
  <2>2. {"shipments"} \in SUBSET Section
    BY FleetConstants
  <2>3. QED
    BY <2>1, <2>2, LoadKeeps
<1>4. CASE Fleet!Refresh
  BY <1>1, <1>4, LoadKeeps DEF Fleet!Refresh
<1>5. ASSUME NEW s \in Section, Fleet!RetrySection(s)
      PROVE  FleetInv'
  <2>1. Fleet!Load(filter, {s}) /\ filter' = filter
    BY <1>5 DEF Fleet!RetrySection
  <2>2. QED
    BY <1>1, <2>1, LoadKeeps
<1>6. CASE Fleet!OpenShipment \/ Fleet!RetryDetail \/ Fleet!BackToDashboard \/ Fleet!Wait
  BY <1>2, <1>6 DEF Fleet!OpenShipment, Fleet!RetryDetail, Fleet!BackToDashboard, Fleet!Wait,
                    Fleet!dashboard
<1>7. ASSUME NEW state \in {"ready", "refused", "failed"}, Fleet!DetailAnswers(state)
      PROVE  FleetInv'
  BY <1>2, <1>7 DEF Fleet!DetailAnswers, Fleet!dashboard
<1>8. CASE UNCHANGED Fleet!vars
  BY <1>2, <1>8 DEF Fleet!vars, Fleet!dashboard
<1>9. QED
  BY <1>3, <1>4, <1>5, <1>6, <1>7, <1>8, AnswerKeepsFleet, LoadEndKeeps, ClockKeeps
     DEF Fleet!Next, Fleet!Carrier, Fleet!Answers

LEMMA FleetHolds == ASSUME FleetInv PROVE Fleet!FleetIsCurrent
<1>1. ASSUME ~ Fleet!InFlight, ~ shown["shipments"].failed
      PROVE  shown["shipments"].data.filter = filter
  <2>1. PICK i \in DOMAIN loads : Asks(loads, i, "shipments")
    BY DEF FleetInv, ShipmentsAsked
  <2>2. ~ loads[i].open
    BY <1>1 DEF Fleet!InFlight
  <2>3. loads[i].left = {}
    BY <2>2 DEF FleetInv, LoadsOpen
  <2>4. QED
    BY <1>1, <2>1, <2>3 DEF FleetInv, ShipmentsAsked
<1>2. lastUpdated = 0 \/ \E s \in Section : shown[s].data.asOf >= lastUpdated
  BY DEF FleetInv, Accounted, SomeSection
<1>3. QED
  BY <1>1, <1>2 DEF Fleet!FleetIsCurrent
-----------------------------------------------------------------------------
(* Session: the identity and the page are those of the session.  The        *)
(* invariant says whose identity each read under way is about, and, as long *)
(* as no other tab interferes, what is about to replace one that is wrong.  *)

Home == {"/driver", "/planner", "/gate", "/carrier", "/admin", "/ops"}
Page == Path \cup Home
Status == {"loading", "anonymous", "authenticated", "error"}
IdentityRead == [token : User \cup {None}, answered : BOOLEAN, live : BOOLEAN]
Spent == [{"events", "submits", "calls"} -> Nat]

SessionTyped ==
    /\ store \in User \cup {None} /\ session \in User \cup {None} /\ grant \in User \cup {None}
    /\ events \in Seq(User \cup {None})
    /\ status \in Status
    /\ serverIdentity \in SignIn!Identity \cup {None}
    /\ reads \subseteq IdentityRead
    /\ leaving \in Nat
    /\ path \in Page \cup {"/signin"} /\ from \in Page \cup {None}
    /\ spent \in Spent

\* Only a token is answered with an identity.
AnsweredToSomebody == \A r \in reads : r.answered => r.token # None

\* Without a session there is no identity, and none that is still to come.
OfASession == session = None => serverIdentity = None /\ ~ SignIn!Reading

ChoiceListed ==
    facilityChoice # None => serverIdentity # None /\ facilityChoice \in serverIdentity.facilities

PageAllowed ==
    status = "authenticated" =>
        /\ serverIdentity # None /\ path # "/signin"
        /\ SignIn!CanAccess(serverIdentity.role, path)

\* As long as no other tab interferes: the session is the stored one, what is
\* read is its subject's, an identity of anybody else is about to be replaced
\* or to go, and a session that is being checked is checked by something.
Alone ==
    spent["events"] = 0 =>
        /\ events = << >> /\ session \in {None, store}
        /\ \A r \in reads : r.live => r.token = session
        /\ serverIdentity # None => (serverIdentity.user = session \/ SignIn!Reading \/ leaving > 0)
        /\ status = "loading" => ((session = None /\ mount # {}) \/ SignIn!Reading \/ leaving > 0)

SessionInv ==
    /\ SessionTyped /\ AnsweredToSomebody /\ OfASession /\ ChoiceListed /\ PageAllowed /\ Alone

LEMMA SessionConstants ==
    /\ None \notin User /\ None \notin Facility /\ None \notin SignIn!RoleName
    /\ None \notin SignIn!Identity /\ "/signin" \notin Page
<1>1. None \notin User \cup Facility \cup ServerRole \cup Path \cup SignIn!RoleName \cup SignIn!Identity
      /\ "/signin" \notin Path
  BY ConsolesAssumption DEF SignIn!SessionAssumption
<1>2. QED
  BY <1>1 DEF Page, Home
-----------------------------------------------------------------------------
(* The guards of the routes lead to a page the role may open.               *)

LEMMA HomeIsAllowed ==
    ASSUME NEW role \in SignIn!RoleName
    PROVE  SignIn!HomePath(role) \in Home /\ SignIn!CanAccess(role, SignIn!HomePath(role))
BY DEF SignIn!RoleName, SignIn!HomePath, SignIn!CanAccess, SignIn!AllowedRoles, Home

LEMMA GuardedIsAllowed ==
    ASSUME NEW role \in SignIn!RoleName, NEW p \in Page
    PROVE  SignIn!Guarded(role, p) \in Page /\ SignIn!CanAccess(role, SignIn!Guarded(role, p))
BY HomeIsAllowed DEF SignIn!Guarded, Page

LEMMA ArrivesAtAPage ==
    ASSUME NEW p \in Page \cup {"/signin"}, NEW back \in Page \cup {None}, SignIn!Arrives(p, back),
           status' \in Status, status' = "authenticated" => serverIdentity' \in SignIn!Identity
    PROVE  path' \in Page \cup {"/signin"} /\ from' \in Page \cup {None} /\ PageAllowed'
<1>1. CASE status' = "authenticated"
  <2>1. PICK role \in SignIn!RoleName : role = serverIdentity'.role
    BY <1>1 DEF SignIn!Identity
  <2>2. CASE p = "/signin"
    <3>1. path' = SignIn!SignedIn(role, back)
      BY <1>1, <2>1, <2>2 DEF SignIn!Arrives
    <3>2. path' \in Page /\ SignIn!CanAccess(role, path')
      <4>1. CASE back = None
        BY <3>1, <4>1, HomeIsAllowed DEF SignIn!SignedIn, Page
      <4>2. CASE back # None
        BY <3>1, <4>2, GuardedIsAllowed DEF SignIn!SignedIn
      <4>3. QED
        BY <4>1, <4>2
    <3>3. QED
      BY <1>1, <2>1, <3>2, SessionConstants DEF PageAllowed, SignIn!Arrives
  <2>3. CASE p # "/signin"
    <3>1. path' = SignIn!Guarded(role, p)
      BY <1>1, <2>1, <2>3 DEF SignIn!Arrives
    <3>2. path' \in Page /\ SignIn!CanAccess(role, path')
      BY <2>3, <3>1, GuardedIsAllowed
    <3>3. QED
      BY <1>1, <2>1, <3>2, SessionConstants DEF PageAllowed, SignIn!Arrives
  <2>4. QED
    BY <2>2, <2>3
<1>2. CASE status' # "authenticated"
  <2>1. path' = "/signin" \/ path' = p
    BY <1>2 DEF SignIn!Arrives, Status
  <2>2. from' \in Page \cup {None}
    BY <2>1 DEF SignIn!Arrives
  <2>3. QED
    BY <1>2, <2>1, <2>2 DEF PageAllowed
<1>3. QED
  BY <1>1, <1>2
-----------------------------------------------------------------------------
LEMMA SessionStart == ASSUME SignIn!Init PROVE SessionInv
<1>1. /\ store \in User \cup {None} /\ session = None /\ status = "loading" /\ serverIdentity = None
      /\ facilityChoice = None /\ events = << >> /\ reads = {} /\ leaving = 0 /\ grant = None
      /\ path \in Path \cup {"/signin"} /\ from = None /\ mount # {}
      /\ spent = [events |-> 0, submits |-> 0, calls |-> 0]
  BY DEF SignIn!Init
<1>2. spent \in Spent
  BY <1>1 DEF Spent
<1>3. events \in Seq(User \cup {None})
  BY <1>1
<1>4. SessionTyped
  BY <1>1, <1>2, <1>3 DEF SessionTyped, Status, Page
<1>5. AnsweredToSomebody /\ OfASession /\ ChoiceListed /\ PageAllowed
  BY <1>1 DEF AnsweredToSomebody, OfASession, ChoiceListed, PageAllowed, SignIn!Reading
<1>6. Alone
  BY <1>1 DEF Alone
<1>7. QED
  BY <1>4, <1>5, <1>6 DEF SessionInv

\* The reads after an identity effect: the one it begins, and dead ones.
LEMMA RereadIs ==
    ASSUME SessionInv, NEW u \in User \cup {None}, SignIn!Reread(u), store' \in User \cup {None}
    PROVE  /\ reads' \subseteq IdentityRead /\ AnsweredToSomebody'
           /\ \A r \in reads' : r.live => u # None /\ r.token = store'
           /\ u # None => \E r \in reads' : r.live
<1>1. reads' = SignIn!Aborted \cup SignIn!Begun(u)
  BY DEF SignIn!Reread
<1>2. \A r \in SignIn!Aborted : r \in IdentityRead /\ r.live = FALSE /\ r.token # None
  <2>1. ASSUME NEW r \in SignIn!Aborted
        PROVE  r \in IdentityRead /\ r.live = FALSE /\ r.token # None
    <3>1. PICK q \in reads : q.answered /\ r = [q EXCEPT !.live = FALSE]
      BY <2>1 DEF SignIn!Aborted
    <3>2. q \in IdentityRead /\ q.token # None
      BY <3>1 DEF SessionInv, SessionTyped, AnsweredToSomebody
    <3>3. QED
      BY <3>1, <3>2 DEF IdentityRead
  <2>2. QED
    BY <2>1
<1>3. PICK n : n = [token |-> store', answered |-> FALSE, live |-> TRUE]
  OBVIOUS
<1>4. n \in IdentityRead /\ n.live = TRUE /\ n.answered = FALSE /\ n.token = store'
  BY <1>3 DEF IdentityRead
<1>5. SignIn!Begun(u) = IF u = None THEN {} ELSE {n}
  BY <1>3 DEF SignIn!Begun
<1>6. \A r \in reads' : r \in SignIn!Aborted \/ (u # None /\ r = n)
  BY <1>1, <1>5
<1>7. reads' \subseteq IdentityRead
  BY <1>2, <1>4, <1>6
<1>8. AnsweredToSomebody'
  BY <1>2, <1>4, <1>6 DEF AnsweredToSomebody
<1>9. \A r \in reads' : r.live => u # None /\ r.token = store'
  BY <1>2, <1>4, <1>6
<1>10. u # None => \E r \in reads' : r.live
  BY <1>1, <1>4, <1>5
<1>11. QED
  BY <1>7, <1>8, <1>9, <1>10

\* The subject of the session becomes another, or the same again.
LEMMA BecomesKeeps ==
    ASSUME SessionInv, NEW u \in User, SignIn!Becomes(u),
           store' \in User \cup {None}, grant' \in User \cup {None},
           events' \in Seq(User \cup {None}), spent' = spent, leaving' = leaving,
           spent["events"] = 0 => events' = << >> /\ store' = u
    PROVE  SessionInv'
<1>1. /\ session' = u /\ (IF u = session THEN reads' = reads ELSE SignIn!Reread(u))
      /\ status' = SignIn!Loading(u) /\ serverIdentity' = serverIdentity
      /\ facilityChoice' = facilityChoice /\ SignIn!Arrives(path, from)
  BY DEF SignIn!Becomes, SignIn!SetSession, SignIn!Route
<1>2. u # None
  BY SessionConstants
<1>3. status' \in {status, "loading"} /\ (u = session => status' = status)
  BY <1>1 DEF SignIn!Loading
<1>4. /\ reads' \subseteq IdentityRead /\ AnsweredToSomebody'
      /\ u # session => (\E r \in reads' : r.live) /\ \A r \in reads' : r.live => r.token = store'
      /\ u = session => reads' = reads
  <2>1. CASE u = session
    BY <1>1, <2>1 DEF SessionInv, SessionTyped, AnsweredToSomebody
  <2>2. CASE u # session
    BY <1>1, <1>2, <2>2, RereadIs
  <2>3. QED
    BY <2>1, <2>2
<1>5. /\ path \in Page \cup {"/signin"} /\ from \in Page \cup {None}
      /\ serverIdentity' \in SignIn!Identity \cup {None} /\ status \in Status
      /\ status = "authenticated" => serverIdentity # None
  BY <1>1 DEF SessionInv, SessionTyped, PageAllowed
<1>6. status' \in Status /\ (status' = "authenticated" => serverIdentity' \in SignIn!Identity)
  BY <1>1, <1>3, <1>5 DEF Status
<1>7. path' \in Page \cup {"/signin"} /\ from' \in Page \cup {None} /\ PageAllowed'
  BY <1>1, <1>5, <1>6, ArrivesAtAPage
<1>8. SessionTyped'
  <2>1. spent' \in Spent /\ leaving' \in Nat
    BY DEF SessionInv, SessionTyped
  <2>2. QED
    BY <1>1, <1>4, <1>5, <1>6, <1>7, <2>1 DEF SessionTyped
<1>9. OfASession' /\ ChoiceListed'
  BY <1>1, <1>2 DEF SessionInv, OfASession, ChoiceListed
<1>10. Alone'
  <2>1. SUFFICES ASSUME spent["events"] = 0
                 PROVE  /\ events' = << >> /\ session' \in {None, store'}
                        /\ \A r \in reads' : r.live => r.token = session'
                        /\ serverIdentity' # None => (serverIdentity'.user = session'
                                                      \/ (\E r \in reads' : r.live) \/ leaving' > 0)
                        /\ status' = "loading" => ((session' = None /\ mount' # {})
                                                   \/ (\E r \in reads' : r.live) \/ leaving' > 0)
    BY DEF Alone, SignIn!Reading
  <2>2. CASE u = session
    <3>1. /\ \A r \in reads : r.live => r.token = session
          /\ serverIdentity # None => (serverIdentity.user = session \/ (\E r \in reads : r.live) \/ leaving > 0)
          /\ status = "loading" => ((session = None /\ mount # {}) \/ (\E r \in reads : r.live) \/ leaving > 0)
      BY <2>1 DEF SessionInv, Alone, SignIn!Reading
    <3>2. QED
      BY <1>1, <1>2, <1>3, <1>4, <2>1, <2>2, <3>1
  <2>3. CASE u # session
    BY <1>1, <1>4, <2>1, <2>3
  <2>4. QED
    BY <2>2, <2>3
<1>11. QED
  BY <1>4, <1>7, <1>8, <1>9, <1>10 DEF SessionInv

\* Nobody is signed in any more.
LEMMA NobodyKeeps ==
    ASSUME SessionInv, SignIn!NobodyHere,
           NEW p \in Page \cup {"/signin"}, NEW back \in Page \cup {None}, SignIn!Arrives(p, back),
           store' \in User \cup {None}, grant' \in User \cup {None},
           events' \in Seq(User \cup {None}), leaving' \in Nat, spent' = spent,
           spent["events"] = 0 => events' = << >>
    PROVE  SessionInv'
<1>1. /\ session' = None /\ (IF None = session THEN reads' = reads ELSE SignIn!Reread(None))
      /\ serverIdentity' = None /\ facilityChoice' = None /\ status' = "anonymous"
  BY DEF SignIn!NobodyHere, SignIn!SetSession
<1>2. reads' \subseteq IdentityRead /\ AnsweredToSomebody' /\ \A r \in reads' : ~ r.live
  <2>1. CASE session = None
    BY <1>1, <2>1 DEF SessionInv, SessionTyped, AnsweredToSomebody, OfASession, SignIn!Reading
  <2>2. CASE session # None
    BY <1>1, <2>2, RereadIs
  <2>3. QED
    BY <2>1, <2>2
<1>3. status' \in Status
  BY <1>1 DEF Status
<1>4. path' \in Page \cup {"/signin"} /\ from' \in Page \cup {None} /\ PageAllowed'
  BY <1>1, <1>3, ArrivesAtAPage
<1>5. SessionTyped'
  <2>1. spent' \in Spent
    BY DEF SessionInv, SessionTyped
  <2>2. QED
    BY <1>1, <1>2, <1>3, <1>4, <2>1 DEF SessionTyped
<1>6. OfASession' /\ ChoiceListed' /\ Alone'
  BY <1>1, <1>2 DEF OfASession, ChoiceListed, Alone, SignIn!Reading
<1>7. QED
  BY <1>2, <1>4, <1>5, <1>6 DEF SessionInv

LEMMA PageIsTyped ==
    ASSUME SessionInv
    PROVE  /\ path \in Page \cup {"/signin"} /\ from \in Page \cup {None}
           /\ store \in User \cup {None} /\ session \in User \cup {None} /\ grant \in User \cup {None}
           /\ events \in Seq(User \cup {None}) /\ leaving \in Nat /\ spent \in Spent
           /\ spent["events"] = 0 => events = << >> /\ session \in {None, store}
BY DEF SessionInv, SessionTyped, Alone

LEMMA HearKeeps ==
    ASSUME SessionInv, SignIn!HearInitial \/ SignIn!HearEvent
    PROVE  SessionInv'
<1>1. PICK u \in User \cup {None} :
          /\ SignIn!Hear(u) /\ UNCHANGED <<leaving, grant, spent>>
          /\ events' \in Seq(User \cup {None})
          /\ spent["events"] = 0 => events' = << >> /\ store = u
  <2>1. CASE SignIn!HearInitial
    BY <2>1, PageIsTyped DEF SignIn!HearInitial
  <2>2. CASE SignIn!HearEvent
    <3>1. /\ events # << >> /\ events' = Tail(events) /\ SignIn!Hear(Head(events))
          /\ UNCHANGED <<leaving, grant, spent>>
      BY <2>2 DEF SignIn!HearEvent
    <3>2. Head(events) \in User \cup {None} /\ Tail(events) \in Seq(User \cup {None})
      BY <3>1, PageIsTyped, HeadTailProperties
    <3>3. spent["events"] # 0
      BY <3>1, PageIsTyped
    <3>4. QED
      BY <3>1, <3>2, <3>3
  <2>3. QED
    BY <2>1, <2>2
<1>2. store' = store /\ (IF u = None THEN SignIn!Anonymous ELSE SignIn!Becomes(u))
  BY <1>1 DEF SignIn!Hear
<1>3. /\ store' \in User \cup {None} /\ grant' \in User \cup {None} /\ leaving' \in Nat
      /\ spent["events"] = 0 => events' = << >> /\ store' = u
  BY <1>1, <1>2, PageIsTyped
<1>4. CASE u = None
  <2>1. SignIn!NobodyHere /\ SignIn!Arrives(path, from)
    BY <1>2, <1>4 DEF SignIn!Anonymous, SignIn!Route
  <2>2. QED
    BY <1>1, <1>3, <2>1, PageIsTyped, NobodyKeeps
<1>5. CASE u # None
  <2>1. u \in User /\ SignIn!Becomes(u)
    BY <1>2, <1>5
  <2>2. QED
    BY <1>1, <1>3, <2>1, BecomesKeeps
<1>6. QED
  BY <1>4, <1>5

LEMMA GrantedKeeps ==
    ASSUME SessionInv, SignIn!Granted
    PROVE  SessionInv'
<1>1. /\ grant # None /\ grant' = None /\ store' = grant /\ SignIn!Becomes(grant)
      /\ UNCHANGED <<events, leaving, spent>>
  BY DEF SignIn!Granted
<1>2. grant \in User
  BY <1>1, PageIsTyped
<1>3. QED
  BY <1>1, <1>2, PageIsTyped, BecomesKeeps

LEMMA SignedOutKeeps ==
    ASSUME SessionInv, SignIn!SignedOut
    PROVE  SessionInv'
<1>1. /\ leaving > 0 /\ leaving' = leaving - 1 /\ store' \in {None, store} /\ SignIn!NobodyHere
      /\ UNCHANGED <<events, grant, spent>>
      /\ SignIn!Arrives(path, from) \/ SignIn!Arrives("/signin", None)
  BY DEF SignIn!SignedOut, SignIn!MenuGoesOn
<1>2. /\ leaving' \in Nat /\ store' \in User \cup {None} /\ grant' \in User \cup {None}
      /\ events' \in Seq(User \cup {None}) /\ (spent["events"] = 0 => events' = << >>)
  BY <1>1, PageIsTyped
<1>3. CASE SignIn!Arrives(path, from)
  BY <1>1, <1>2, <1>3, PageIsTyped, NobodyKeeps
<1>4. CASE SignIn!Arrives("/signin", None)
  <2>1. "/signin" \in Page \cup {"/signin"} /\ None \in Page \cup {None}
    OBVIOUS
  <2>2. QED
    BY <1>1, <1>2, <1>4, <2>1, NobodyKeeps
<1>5. QED
  BY <1>1, <1>3, <1>4

\* The session is as it was, and so is what is read for it: what the page
\* does, and what does not touch the provider.
LEMMA ProviderStays ==
    ASSUME SessionInv,
           UNCHANGED <<session, status, serverIdentity, reads>>,
           facilityChoice' = facilityChoice
           \/ (serverIdentity # None /\ facilityChoice' \in serverIdentity.facilities),
           path' \in Page \cup {"/signin"}, from' \in Page \cup {None}, PageAllowed',
           store' \in User \cup {None}, grant' \in User \cup {None},
           events' \in Seq(User \cup {None}), leaving' \in Nat, leaving' >= leaving, spent' \in Spent,
           spent'["events"] = 0 =>
               /\ spent["events"] = 0 /\ events' = << >> /\ store' = store
               /\ mount' = mount \/ session # None
    PROVE  SessionInv'
<1>1. SessionTyped'
  BY DEF SessionInv, SessionTyped
<1>2. AnsweredToSomebody' /\ OfASession'
  BY DEF SessionInv, AnsweredToSomebody, OfASession, SignIn!Reading
<1>3. ChoiceListed'
  BY DEF SessionInv, ChoiceListed
<1>4. Alone'
  <2>1. SUFFICES ASSUME spent'["events"] = 0
                 PROVE  /\ events' = << >> /\ session \in {None, store'}
                        /\ \A r \in reads : r.live => r.token = session
                        /\ serverIdentity # None => (serverIdentity.user = session
                                                     \/ (\E r \in reads : r.live) \/ leaving' > 0)
                        /\ status = "loading" => ((session = None /\ mount' # {})
                                                  \/ (\E r \in reads : r.live) \/ leaving' > 0)
    BY DEF Alone, SignIn!Reading
  <2>2. /\ session \in {None, store}
        /\ \A r \in reads : r.live => r.token = session
        /\ serverIdentity # None => (serverIdentity.user = session \/ (\E r \in reads : r.live) \/ leaving > 0)
        /\ status = "loading" => ((session = None /\ mount # {}) \/ (\E r \in reads : r.live) \/ leaving > 0)
    BY <2>1 DEF SessionInv, Alone, SignIn!Reading
  <2>3. leaving > 0 => leaving' > 0
    BY PageIsTyped
  <2>4. QED
    BY <2>1, <2>2, <2>3
<1>5. QED
  BY <1>1, <1>2, <1>3, <1>4 DEF SessionInv

LEMMA SpendIsSpent ==
    ASSUME SessionInv, NEW k \in {"events", "submits", "calls"}, NEW max, SignIn!Spend(k, max)
    PROVE  /\ spent' \in Spent
           /\ k = "events" => spent'["events"] # 0
           /\ k # "events" => spent'["events"] = spent["events"]
<1>1. spent' = [spent EXCEPT ![k] = spent[k] + 1] /\ spent \in Spent
  BY PageIsTyped DEF SignIn!Spend
<1>2. spent[k] \in Nat
  BY <1>1 DEF Spent
<1>3. QED
  BY <1>1, <1>2 DEF Spent

\* What leaves the page where it is.
LEMMA ElsewhereKeeps ==
    ASSUME SessionInv,
           \/ \E u \in User \cup {None} : SignIn!OtherTab(u)
           \/ SignIn!SignOut
           \/ \E k : SignIn!Call(k) \/ \E answer : SignIn!CallAnswers(k, answer)
           \/ \E u \in User : SignIn!Submit(u)
           \/ \E says : SignIn!Refused(says)
    PROVE  SessionInv'
<1>1. /\ UNCHANGED <<session, status, serverIdentity, facilityChoice, reads, path, from, mount>>
      /\ leaving' \in Nat /\ leaving' >= leaving
  <2>1. ASSUME NEW u, SignIn!OtherTab(u)
        PROVE  /\ UNCHANGED <<session, status, serverIdentity, facilityChoice, reads, path, from, mount>>
               /\ leaving' = leaving
    BY <2>1 DEF SignIn!OtherTab, SignIn!provider, SignIn!route
  <2>2. ASSUME SignIn!SignOut
        PROVE  /\ UNCHANGED <<session, status, serverIdentity, facilityChoice, reads, path, from, mount>>
               /\ leaving = 0 /\ leaving' = 1
    BY <2>2 DEF SignIn!SignOut, SignIn!provider, SignIn!route
  <2>3. ASSUME NEW k, SignIn!Call(k)
        PROVE  /\ UNCHANGED <<session, status, serverIdentity, facilityChoice, reads, path, from, mount>>
               /\ leaving' = leaving
    BY <2>3 DEF SignIn!Call, SignIn!provider, SignIn!route
  <2>4. ASSUME NEW k, NEW answer, SignIn!CallAnswers(k, answer)
        PROVE  /\ UNCHANGED <<session, status, serverIdentity, facilityChoice, reads, path, from, mount>>
               /\ leaving' \in {leaving, leaving + 1}
    BY <2>4 DEF SignIn!CallAnswers, SignIn!provider, SignIn!route
  <2>5. ASSUME NEW u, SignIn!Submit(u)
        PROVE  /\ UNCHANGED <<session, status, serverIdentity, facilityChoice, reads, path, from, mount>>
               /\ leaving' = leaving
    BY <2>5 DEF SignIn!Submit, SignIn!provider
  <2>6. ASSUME NEW says, SignIn!Refused(says)
        PROVE  /\ UNCHANGED <<session, status, serverIdentity, facilityChoice, reads, path, from, mount>>
               /\ leaving' = leaving
    BY <2>6 DEF SignIn!Refused, SignIn!provider
  <2>7. QED
    BY <2>1, <2>2, <2>3, <2>4, <2>5, <2>6, PageIsTyped
<1>2. /\ store' \in User \cup {None} /\ grant' \in User \cup {None}
      /\ events' \in Seq(User \cup {None}) /\ spent' \in Spent
      /\ spent'["events"] = 0 => spent["events"] = 0 /\ events' = << >> /\ store' = store
  <2>1. ASSUME NEW u \in User \cup {None}, SignIn!OtherTab(u)
        PROVE  /\ store' \in User \cup {None} /\ grant' \in User \cup {None}
               /\ events' \in Seq(User \cup {None}) /\ spent' \in Spent
               /\ spent'["events"] = 0 => spent["events"] = 0 /\ events' = << >> /\ store' = store
    <3>1. /\ SignIn!Spend("events", MaxEvents) /\ store' = u /\ events' = Append(events, u) /\ grant' = grant
      BY <2>1 DEF SignIn!OtherTab
    <3>2. Append(events, u) \in Seq(User \cup {None})
      BY PageIsTyped, AppendProperties
    <3>3. spent' \in Spent /\ spent'["events"] # 0
      BY <3>1, SpendIsSpent
    <3>4. QED
      BY <3>1, <3>2, <3>3, PageIsTyped
  <2>2. ASSUME UNCHANGED <<store, events>>, grant' \in User \cup {None}, spent' \in Spent,
               spent'["events"] = spent["events"]
        PROVE  /\ store' \in User \cup {None} /\ grant' \in User \cup {None}
               /\ events' \in Seq(User \cup {None}) /\ spent' \in Spent
               /\ spent'["events"] = 0 => spent["events"] = 0 /\ events' = << >> /\ store' = store
    BY <2>2, PageIsTyped
  <2>3. CASE SignIn!SignOut
    BY <2>2, <2>3, PageIsTyped DEF SignIn!SignOut
  <2>4. ASSUME NEW k, SignIn!Call(k)
        PROVE  /\ store' \in User \cup {None} /\ grant' \in User \cup {None}
               /\ events' \in Seq(User \cup {None}) /\ spent' \in Spent
               /\ spent'["events"] = 0 => spent["events"] = 0 /\ events' = << >> /\ store' = store
    <3>1. SignIn!Spend("calls", MaxRequests) /\ UNCHANGED <<store, events, grant>>
      BY <2>4 DEF SignIn!Call
    <3>2. spent' \in Spent /\ spent'["events"] = spent["events"]
      BY <3>1, SpendIsSpent
    <3>3. QED
      BY <2>2, <3>1, <3>2, PageIsTyped
  <2>5. ASSUME NEW k, NEW answer, SignIn!CallAnswers(k, answer)
        PROVE  /\ store' \in User \cup {None} /\ grant' \in User \cup {None}
               /\ events' \in Seq(User \cup {None}) /\ spent' \in Spent
               /\ spent'["events"] = 0 => spent["events"] = 0 /\ events' = << >> /\ store' = store
    BY <2>2, <2>5, PageIsTyped DEF SignIn!CallAnswers
  <2>6. ASSUME NEW u \in User, SignIn!Submit(u)
        PROVE  /\ store' \in User \cup {None} /\ grant' \in User \cup {None}
               /\ events' \in Seq(User \cup {None}) /\ spent' \in Spent
               /\ spent'["events"] = 0 => spent["events"] = 0 /\ events' = << >> /\ store' = store
    <3>1. SignIn!Spend("submits", MaxSubmits) /\ UNCHANGED <<store, events>> /\ grant' = u
      BY <2>6 DEF SignIn!Submit
    <3>2. spent' \in Spent /\ spent'["events"] = spent["events"]
      BY <3>1, SpendIsSpent
    <3>3. QED
      BY <2>2, <3>1, <3>2
  <2>7. ASSUME NEW says, SignIn!Refused(says)
        PROVE  /\ store' \in User \cup {None} /\ grant' \in User \cup {None}
               /\ events' \in Seq(User \cup {None}) /\ spent' \in Spent
               /\ spent'["events"] = 0 => spent["events"] = 0 /\ events' = << >> /\ store' = store
    BY <2>2, <2>7, PageIsTyped DEF SignIn!Refused
  <2>8. QED
    BY <2>1, <2>3, <2>4, <2>5, <2>6, <2>7
<1>3. path' \in Page \cup {"/signin"} /\ from' \in Page \cup {None} /\ PageAllowed'
  BY <1>1, PageIsTyped DEF SessionInv, PageAllowed
<1>4. QED
  BY <1>1, <1>2, <1>3, ProviderStays

LEMMA GoKeeps ==
    ASSUME SessionInv, NEW p \in Path, SignIn!Go(p)
    PROVE  SessionInv'
<1>1. /\ UNCHANGED <<store, mount, events, leaving, grant, spent>>
      /\ UNCHANGED <<session, status, serverIdentity, facilityChoice, reads>>
      /\ SignIn!Arrives(p, None)
  BY DEF SignIn!Go, SignIn!provider
<1>2. /\ status' \in Status /\ (status' = "authenticated" => serverIdentity' \in SignIn!Identity)
      /\ p \in Page \cup {"/signin"} /\ None \in Page \cup {None}
  BY <1>1 DEF SessionInv, SessionTyped, PageAllowed, Page
<1>3. path' \in Page \cup {"/signin"} /\ from' \in Page \cup {None} /\ PageAllowed'
  BY <1>1, <1>2, ArrivesAtAPage
<1>4. leaving' >= leaving
  BY <1>1, PageIsTyped
<1>5. QED
  BY <1>1, <1>3, <1>4, PageIsTyped, ProviderStays

LEMMA SetActiveFacilityKeeps ==
    ASSUME SessionInv, NEW f \in Facility, SignIn!SetActiveFacility(f)
    PROVE  SessionInv'
<1>1. /\ UNCHANGED <<store, mount, events, session, status, serverIdentity, reads, leaving, path, from,
                     grant, spent>>
      /\ status = "authenticated" /\ f \in serverIdentity.facilities /\ facilityChoice' = f
  BY DEF SignIn!SetActiveFacility, SignIn!route
<1>2. /\ serverIdentity # None /\ facilityChoice' \in serverIdentity.facilities /\ PageAllowed'
  BY <1>1 DEF SessionInv, PageAllowed
<1>3. leaving' >= leaving
  BY <1>1, PageIsTyped
<1>4. QED
  BY <1>1, <1>2, <1>3, PageIsTyped, ProviderStays

\* getSession() that finds what an event has set already, or nobody.
LEMMA GetSessionKeeps ==
    ASSUME SessionInv, SignIn!GetSession
    PROVE  SessionInv'
<1>1. UNCHANGED <<store, events, leaving, grant, spent>>
  BY DEF SignIn!GetSession
<1>2. CASE session = None /\ store # None
  <2>1. SignIn!Becomes(store)
    BY <1>2 DEF SignIn!GetSession
  <2>2. store \in User
    BY <1>2, PageIsTyped
  <2>3. QED
    BY <1>1, <2>1, <2>2, PageIsTyped, BecomesKeeps
<1>3. CASE ~ (session = None /\ store # None)
  <2>1. /\ status' = IF store = None /\ status = "loading" THEN "anonymous" ELSE status
        /\ UNCHANGED <<session, serverIdentity, facilityChoice, reads>>
        /\ SignIn!Arrives(path, from)
    BY <1>3 DEF SignIn!GetSession, SignIn!Route
  <2>2. status' \in Status /\ (status' = "authenticated" => serverIdentity' \in SignIn!Identity)
    BY <2>1 DEF SessionInv, SessionTyped, PageAllowed, Status
  <2>3. path' \in Page \cup {"/signin"} /\ from' \in Page \cup {None} /\ PageAllowed'
    BY <2>1, <2>2, PageIsTyped, ArrivesAtAPage
  <2>4. SessionTyped'
    BY <1>1, <2>1, <2>2, <2>3 DEF SessionInv, SessionTyped
  <2>5. AnsweredToSomebody' /\ OfASession' /\ ChoiceListed'
    BY <2>1 DEF SessionInv, AnsweredToSomebody, OfASession, ChoiceListed, SignIn!Reading
  <2>6. Alone'
    <3>1. SUFFICES ASSUME spent["events"] = 0
                   PROVE  /\ events = << >> /\ session \in {None, store}
                          /\ \A r \in reads : r.live => r.token = session
                          /\ serverIdentity # None => (serverIdentity.user = session
                                                       \/ (\E r \in reads : r.live) \/ leaving > 0)
                          /\ status' = "loading" => ((\E r \in reads : r.live) \/ leaving > 0)
      BY <1>1, <2>1 DEF Alone, SignIn!Reading
    <3>2. /\ events = << >> /\ session \in {None, store}
          /\ \A r \in reads : r.live => r.token = session
          /\ serverIdentity # None => (serverIdentity.user = session \/ (\E r \in reads : r.live) \/ leaving > 0)
          /\ status = "loading" => ((session = None /\ mount # {}) \/ (\E r \in reads : r.live) \/ leaving > 0)
      BY <3>1 DEF SessionInv, Alone, SignIn!Reading
    <3>3. status' = "loading" => status = "loading" /\ session # None
      BY <1>3, <2>1, <3>2
    <3>4. QED
      BY <3>2, <3>3
  <2>7. QED
    BY <2>3, <2>4, <2>5, <2>6 DEF SessionInv
<1>4. QED
  BY <1>2, <1>3
-----------------------------------------------------------------------------
(* The identity read.                                                       *)

LEMMA MeAnswersKeeps ==
    ASSUME SessionInv, NEW r \in reads, SignIn!MeAnswers(r)
    PROVE  SessionInv'
<1>1. /\ UNCHANGED <<store, mount, events, session, status, serverIdentity, facilityChoice, leaving,
                     path, from, grant, spent>>
      /\ r.live /\ r.token # None /\ reads' = (reads \ {r}) \cup {[r EXCEPT !.answered = TRUE]}
  BY DEF SignIn!MeAnswers, SignIn!route
<1>2. PICK n : n = [r EXCEPT !.answered = TRUE]
  OBVIOUS
<1>3. r \in IdentityRead
  BY DEF SessionInv, SessionTyped
<1>4. n \in IdentityRead /\ n.token = r.token /\ n.live = r.live
  BY <1>2, <1>3 DEF IdentityRead
<1>5. \A q \in reads' : q \in reads \/ q = n
  BY <1>1, <1>2
<1>6. \A q \in reads : q.live => \E m \in reads' : m.live
  BY <1>1, <1>2, <1>4
<1>7. (\E q \in reads' : q.live) <=> (\E q \in reads : q.live)
  BY <1>4, <1>5, <1>6
<1>8. SessionTyped'
  BY <1>1, <1>4, <1>5 DEF SessionInv, SessionTyped
<1>9. AnsweredToSomebody'
  BY <1>1, <1>4, <1>5 DEF SessionInv, AnsweredToSomebody
<1>10. OfASession' /\ ChoiceListed' /\ PageAllowed'
  BY <1>1, <1>7 DEF SessionInv, OfASession, ChoiceListed, PageAllowed, SignIn!Reading
<1>11. Alone'
  BY <1>1, <1>4, <1>5, <1>7 DEF SessionInv, Alone, SignIn!Reading
<1>12. QED
  BY <1>8, <1>9, <1>10, <1>11 DEF SessionInv

LEMMA MeUnauthorizedKeeps ==
    ASSUME SessionInv, NEW r \in reads, SignIn!MeUnauthorized(r)
    PROVE  SessionInv'
<1>1. /\ UNCHANGED <<store, mount, events, session, status, serverIdentity, facilityChoice,
                     path, from, grant, spent>>
      /\ r.live /\ reads' = reads \ {r}
      /\ leaving' = IF r.token = None THEN leaving ELSE leaving + 1
  BY DEF SignIn!MeUnauthorized, SignIn!route
<1>2. session # None
  BY <1>1 DEF SessionInv, OfASession, SignIn!Reading
<1>3. leaving' \in Nat /\ (r.token # None => leaving' > 0)
  BY <1>1, PageIsTyped
<1>4. SessionTyped'
  BY <1>1, <1>3 DEF SessionInv, SessionTyped
<1>5. AnsweredToSomebody' /\ OfASession' /\ ChoiceListed' /\ PageAllowed'
  BY <1>1, <1>2 DEF SessionInv, AnsweredToSomebody, OfASession, ChoiceListed, PageAllowed
<1>6. Alone'
  BY <1>1, <1>2, <1>3 DEF SessionInv, Alone
<1>7. QED
  BY <1>4, <1>5, <1>6 DEF SessionInv

LEMMA MeFailsKeeps ==
    ASSUME SessionInv, NEW r \in reads, SignIn!MeFails(r)
    PROVE  SessionInv'
<1>1. /\ UNCHANGED <<store, mount, events, session, leaving, grant, spent>>
      /\ r.live /\ reads' = reads \ {r} /\ serverIdentity' = None /\ facilityChoice' = None
      /\ status' = "error" /\ SignIn!Arrives(path, from)
  BY DEF SignIn!MeFails, SignIn!Route
<1>2. session # None
  BY <1>1 DEF SessionInv, OfASession, SignIn!Reading
<1>3. status' \in Status
  BY <1>1 DEF Status
<1>4. path' \in Page \cup {"/signin"} /\ from' \in Page \cup {None} /\ PageAllowed'
  BY <1>1, <1>3, PageIsTyped, ArrivesAtAPage
<1>5. SessionTyped'
  BY <1>1, <1>3, <1>4 DEF SessionInv, SessionTyped
<1>6. AnsweredToSomebody' /\ OfASession' /\ ChoiceListed'
  BY <1>1, <1>2 DEF SessionInv, AnsweredToSomebody, OfASession, ChoiceListed
<1>7. Alone'
  BY <1>1 DEF SessionInv, Alone
<1>8. QED
  BY <1>4, <1>5, <1>6, <1>7 DEF SessionInv

\* An identity that is published is its session's, in one of the roles.
LEMMA IdentityLandsKeeps ==
    ASSUME SessionInv, NEW r \in reads, SignIn!IdentityLands(r)
    PROVE  SessionInv'
<1>1. /\ UNCHANGED <<store, mount, events, session, grant, spent>>
      /\ r.answered /\ reads' = reads \ {r}
      /\ leaving' \in IF r.live THEN {leaving, leaving + 1} ELSE {leaving}
  BY DEF SignIn!IdentityLands
<1>2. r \in IdentityRead /\ r.token \in User
  BY <1>1 DEF SessionInv, SessionTyped, AnsweredToSomebody, IdentityRead
<1>3. leaving' \in Nat /\ leaving' >= leaving /\ (~ r.live => leaving' = leaving)
  BY <1>1, PageIsTyped
<1>4. reads' \subseteq IdentityRead /\ AnsweredToSomebody' /\ reads' \subseteq reads
  BY <1>1 DEF SessionInv, SessionTyped, AnsweredToSomebody
<1>5. CASE r.live
  <2>1. PICK listed \in SUBSET Facility, role \in {SignIn!UiRole(k) : k \in ServerRole} \ {None} :
            /\ serverIdentity' = [user |-> r.token, role |-> role, facilities |-> listed]
            /\ facilityChoice' = SignIn!Choice(r.token, listed)
            /\ status' = "authenticated" /\ SignIn!Arrives(path, from)
    BY <1>5 DEF SignIn!IdentityLands, SignIn!Lands, SignIn!Route
  <2>2. role \in SignIn!RoleName
    <3>1. \A k : SignIn!UiRole(k) \in SignIn!RoleName \cup {None}
      BY DEF SignIn!UiRole, SignIn!RoleName
    <3>2. QED
      BY <3>1, <2>1
  <2>3. serverIdentity' \in SignIn!Identity /\ serverIdentity'.user = r.token
        /\ serverIdentity'.facilities = listed
    BY <1>2, <2>1, <2>2 DEF SignIn!Identity
  <2>4. status' \in Status /\ serverIdentity' # None
    BY <2>1, <2>3, SessionConstants DEF Status
  <2>5. path' \in Page \cup {"/signin"} /\ from' \in Page \cup {None} /\ PageAllowed'
    BY <2>1, <2>3, <2>4, PageIsTyped, ArrivesAtAPage
  <2>6. session # None
    BY <1>5 DEF SessionInv, OfASession, SignIn!Reading
  <2>7. SessionTyped'
    BY <1>1, <1>3, <1>4, <2>3, <2>4, <2>5 DEF SessionInv, SessionTyped
  <2>8. OfASession'
    BY <1>1, <2>6 DEF OfASession
  <2>9. ChoiceListed'
    BY <2>1, <2>3, <2>4 DEF ChoiceListed, SignIn!Choice
  <2>10. Alone'
    <3>1. SUFFICES ASSUME spent["events"] = 0
                   PROVE  /\ events = << >> /\ session \in {None, store}
                          /\ \A q \in reads' : q.live => q.token = session
                          /\ serverIdentity'.user = session
      BY <1>1, <2>1 DEF Alone
    <3>2. events = << >> /\ session \in {None, store} /\ \A q \in reads : q.live => q.token = session
      BY <3>1 DEF SessionInv, Alone
    <3>3. QED
      BY <1>4, <1>5, <2>3, <3>2
  <2>11. QED
    BY <1>4, <2>5, <2>7, <2>8, <2>9, <2>10 DEF SessionInv
<1>6. CASE ~ r.live
  <2>1. UNCHANGED <<serverIdentity, facilityChoice, status, path, from>>
    BY <1>6 DEF SignIn!IdentityLands, SignIn!Lands, SignIn!route
  <2>2. \A q \in reads : q.live => q \in reads'
    BY <1>1, <1>6
  <2>3. (\E q \in reads' : q.live) <=> (\E q \in reads : q.live)
    BY <1>4, <2>2
  <2>4. SessionTyped'
    BY <1>1, <1>3, <1>4, <2>1 DEF SessionInv, SessionTyped
  <2>5. OfASession' /\ ChoiceListed' /\ PageAllowed'
    BY <1>1, <2>1, <2>3 DEF SessionInv, OfASession, ChoiceListed, PageAllowed, SignIn!Reading
  <2>6. leaving' = leaving
    BY <1>3, <1>6
  <2>7. Alone'
    BY <1>1, <1>4, <2>1, <2>3, <2>6 DEF SessionInv, Alone, SignIn!Reading
  <2>8. QED
    BY <1>4, <2>4, <2>5, <2>7 DEF SessionInv
<1>7. QED
  BY <1>5, <1>6

LEMMA RetryReadKeeps ==
    ASSUME SessionInv, SignIn!Retry
    PROVE  SessionInv'
<1>1. /\ UNCHANGED <<store, session, mount, events, serverIdentity, facilityChoice, leaving, grant, spent>>
      /\ SignIn!Reread(session) /\ status = "error"
      /\ status' = IF session = None THEN status ELSE "loading"
      /\ SignIn!Arrives(path, from)
  BY DEF SignIn!Retry, SignIn!Route
<1>2. store' \in User \cup {None} /\ session \in User \cup {None}
  BY <1>1, PageIsTyped
<1>3. /\ reads' \subseteq IdentityRead /\ AnsweredToSomebody'
      /\ \A r \in reads' : r.live => session # None /\ r.token = store'
      /\ session # None => \E r \in reads' : r.live
  BY <1>1, <1>2, RereadIs
<1>4. status' \in {"error", "loading"} /\ (status' = "loading" => session # None)
  BY <1>1
<1>5. path' \in Page \cup {"/signin"} /\ from' \in Page \cup {None} /\ PageAllowed'
  BY <1>1, <1>4, PageIsTyped, ArrivesAtAPage DEF Status
<1>6. SessionTyped'
  BY <1>1, <1>3, <1>4, <1>5 DEF SessionInv, SessionTyped, Status
<1>7. OfASession' /\ ChoiceListed'
  BY <1>1, <1>3 DEF SessionInv, OfASession, ChoiceListed, SignIn!Reading
<1>8. Alone'
  <2>1. SUFFICES ASSUME spent["events"] = 0
                 PROVE  /\ events = << >> /\ session \in {None, store}
                        /\ \A r \in reads' : r.live => r.token = session
                        /\ serverIdentity # None => session # None
                        /\ status' = "loading" => session # None
    BY <1>1, <1>3 DEF Alone, SignIn!Reading
  <2>2. events = << >> /\ session \in {None, store}
    BY <2>1 DEF SessionInv, Alone
  <2>3. serverIdentity # None => session # None
    BY DEF SessionInv, OfASession
  <2>4. QED
    BY <1>1, <1>3, <1>4, <2>2, <2>3
<1>9. QED
  BY <1>3, <1>5, <1>6, <1>7, <1>8 DEF SessionInv
-----------------------------------------------------------------------------
LEMMA SessionKeeps ==
    ASSUME SessionInv, [SignIn!Next]_(SignIn!vars)
    PROVE  SessionInv'
<1>1. CASE SignIn!HearInitial \/ SignIn!HearEvent
  BY <1>1, HearKeeps
<1>2. CASE SignIn!GetSession
  BY <1>2, GetSessionKeeps
<1>3. CASE \/ \E u \in User \cup {None} : SignIn!OtherTab(u)
           \/ SignIn!SignOut
           \/ \E k : SignIn!Call(k) \/ \E answer : SignIn!CallAnswers(k, answer)
           \/ \E u \in User : SignIn!Submit(u)
           \/ \E says : SignIn!Refused(says)
  BY <1>3, ElsewhereKeeps
<1>4. ASSUME NEW r \in reads,
             SignIn!MeAnswers(r) \/ SignIn!MeUnauthorized(r) \/ SignIn!MeFails(r) \/ SignIn!IdentityLands(r)
      PROVE  SessionInv'
  BY <1>4, MeAnswersKeeps, MeUnauthorizedKeeps, MeFailsKeeps, IdentityLandsKeeps
<1>5. CASE SignIn!Retry
  BY <1>5, RetryReadKeeps
<1>6. ASSUME NEW f \in Facility, SignIn!SetActiveFacility(f)
      PROVE  SessionInv'
  BY <1>6, SetActiveFacilityKeeps
<1>7. ASSUME NEW p \in Path, SignIn!Go(p)
      PROVE  SessionInv'
  BY <1>7, GoKeeps
<1>8. CASE SignIn!SignedOut
  BY <1>8, SignedOutKeeps
<1>9. CASE SignIn!Granted
  BY <1>9, GrantedKeeps
<1>10. CASE UNCHANGED SignIn!vars
  BY <1>10 DEF SignIn!vars, SignIn!provider, SignIn!route, SessionInv, SessionTyped, AnsweredToSomebody,
               OfASession, ChoiceListed, PageAllowed, Alone, SignIn!Reading
<1>11. QED
  BY <1>1, <1>2, <1>3, <1>4, <1>5, <1>6, <1>7, <1>8, <1>9, <1>10 DEF SignIn!Next

LEMMA SessionHolds == ASSUME SessionInv PROVE SignIn!SessionIsTrue
<1>1. /\ serverIdentity # None => session # None
      /\ facilityChoice # None => serverIdentity # None /\ facilityChoice \in serverIdentity.facilities
      /\ status = "authenticated" =>
             serverIdentity # None /\ path # "/signin" /\ SignIn!CanAccess(serverIdentity.role, path)
  BY DEF SessionInv, OfASession, ChoiceListed, PageAllowed
<1>2. ASSUME spent["events"] = 0
      PROVE  /\ serverIdentity # None /\ ~ SignIn!UnderWay => session = store /\ serverIdentity.user = store
             /\ status = "loading" => SignIn!UnderWay
  <2>1. leaving \in Nat
    BY PageIsTyped
  <2>2. QED
    BY <1>1, <1>2, <2>1 DEF SessionInv, Alone, SignIn!UnderWay
<1>3. QED
  BY <1>1, <1>2 DEF SignIn!SessionIsTrue
-----------------------------------------------------------------------------
(* In the application: the surface does not change, and its steps are those *)
(* of the screen that is mounted.                                           *)

Mounted ==
    /\ surface = "/admin users" => UsersInv
    /\ surface = "/admin policy" => PolicyInv
    /\ surface = "/carrier" => FleetInv
    /\ surface = "/admin audit" => AuditInv
    /\ surface = "/signin" => SessionInv

LEMMA MountedFirst == ASSUME Init PROVE Mounted
<1>1. /\ surface = "/admin users" => Users!Init
      /\ surface = "/admin policy" => Policy!Init
      /\ surface = "/carrier" => Fleet!Init
      /\ surface = "/admin audit" => Audit!Init
      /\ surface = "/signin" => SignIn!Init
  BY DEF Init, InitDriver, InitGate, InitUsers, InitPolicy, InitFleet, InitAudit, InitSignIn
<1>2. QED
  BY <1>1, UsersStart, PolicyStart, FleetStart, AuditStart, SessionStart DEF Mounted

LEMMA MountedStays == ASSUME Mounted, [Next]_vars PROVE Mounted'
<1>1. surface' = surface
  BY DEF Next, vars, DriverStep, GateStep, UsersStep, PolicyStep, FleetStep, AuditStep, SignInStep
<1>2. CASE surface = "/admin users"
  <2>1. UsersInv
    BY <1>2 DEF Mounted
  <2>2. Users!Next \/ UNCHANGED vars
    BY <1>2 DEF Next, DriverStep, GateStep, UsersStep, PolicyStep, FleetStep, AuditStep, SignInStep
  <2>3. UNCHANGED vars => UNCHANGED Users!vars
    BY DEF vars, users, Users!vars, Users!auth
  <2>4. UsersInv'
    BY <2>1, <2>2, <2>3, UsersKeep
  <2>5. QED
    BY <1>1, <1>2, <2>4 DEF Mounted
<1>3. CASE surface = "/admin policy"
  <2>1. PolicyInv
    BY <1>3 DEF Mounted
  <2>2. Policy!Next \/ UNCHANGED vars
    BY <1>3 DEF Next, DriverStep, GateStep, UsersStep, PolicyStep, FleetStep, AuditStep, SignInStep
  <2>3. UNCHANGED vars => UNCHANGED Policy!vars
    BY DEF vars, policy, Policy!vars
  <2>4. PolicyInv'
    BY <2>1, <2>2, <2>3, PolicyKeeps
  <2>5. QED
    BY <1>1, <1>3, <2>4 DEF Mounted
<1>4. CASE surface = "/carrier"
  <2>1. FleetInv
    BY <1>4 DEF Mounted
  <2>2. Fleet!Next \/ UNCHANGED vars
    BY <1>4 DEF Next, DriverStep, GateStep, UsersStep, PolicyStep, FleetStep, AuditStep, SignInStep
  <2>3. UNCHANGED vars => UNCHANGED Fleet!vars
    BY DEF vars, carrier, Fleet!vars, Fleet!dashboard
  <2>4. FleetInv'
    BY <2>1, <2>2, <2>3, FleetKeeps
  <2>5. QED
    BY <1>1, <1>4, <2>4 DEF Mounted
<1>5. CASE surface = "/admin audit"
  <2>1. AuditInv
    BY <1>5 DEF Mounted
  <2>2. Audit!Next \/ UNCHANGED vars
    BY <1>5 DEF Next, DriverStep, GateStep, UsersStep, PolicyStep, FleetStep, AuditStep, SignInStep
  <2>3. UNCHANGED vars => UNCHANGED Audit!vars
    BY DEF vars, audit, Audit!vars, Audit!table, Audit!exports
  <2>4. AuditInv'
    BY <2>1, <2>2, <2>3, AuditKeeps
  <2>5. QED
    BY <1>1, <1>5, <2>4 DEF Mounted
<1>6. CASE surface = "/signin"
  <2>1. SessionInv
    BY <1>6 DEF Mounted
  <2>2. SignIn!Next \/ UNCHANGED vars
    BY <1>6 DEF Next, DriverStep, GateStep, UsersStep, PolicyStep, FleetStep, AuditStep, SignInStep
  <2>3. UNCHANGED vars => UNCHANGED SignIn!vars
    BY DEF vars, signin, SignIn!vars, SignIn!provider, SignIn!route
  <2>4. SessionInv'
    BY <2>1, <2>2, <2>3, SessionKeeps
  <2>5. QED
    BY <1>1, <1>6, <2>4 DEF Mounted
<1>7. CASE surface \notin {"/admin users", "/admin policy", "/carrier", "/admin audit", "/signin"}
  BY <1>1, <1>7 DEF Mounted
<1>8. QED
  BY <1>2, <1>3, <1>4, <1>5, <1>6, <1>7

LEMMA MountedAlways == Spec => []Mounted
<1>1. Init => Mounted
  BY MountedFirst
<1>2. Mounted /\ [Next]_vars => Mounted'
  BY MountedStays
<1>3. QED
  BY <1>1, <1>2, PTL DEF Spec

\* A removal is for good, whatever other admins, invitations, crashes and lost
\* answers were under way when it was recorded (remove_user, revoke_invite).
THEOREM RemovalIsForGood == Spec => []RemovedForGood
<1>1. Mounted => RemovedForGood
  BY DEF Mounted, UsersInv, RemovedForGood
<1>2. QED
  BY <1>1, MountedAlways, PTL

\* A user's scopes are those of his role, however many admins edit him at once
\* (update_user and _write_user_scopes under the row's lock).
THEOREM ScopesAreOfOneEdit == Spec => []AccessOfOneEdit
<1>1. Mounted => AccessOfOneEdit
  BY DEF Mounted, UsersInv, AccessOfOneEdit
<1>2. QED
  BY <1>1, MountedAlways, PTL

\* A version of the policy holds the weights its admin had on the screen when
\* he pressed, fairness weights only once he had unlocked them, follows the
\* version he had seen and is there once for his key, however often he presses
\* and whatever answers are lost or late; and a screen says done of a version
\* of its own admin (publish_policy_version and the policy editor).
THEOREM PublishedAsDecidedAlways == Spec => []PublishedAsDecided
<1>1. Mounted => PublishedAsDecided
  BY PolicyIsDecided DEF Mounted, PublishedAsDecided
<1>2. QED
  BY <1>1, MountedAlways, PTL

\* The carrier's fleet and the audit log are of the filter above them once no
\* load is under way or late, the time of the last update is not past what is
\* shown, and a file that was saved leaves out no entry that was recorded when
\* it was asked for (fleet-dashboard.tsx, audit-log.tsx).
THEOREM ListsAreCurrentAlways == Spec => []ListsAreCurrent
<1>1. Mounted => ListsAreCurrent
  BY AuditHolds, FleetHolds DEF Mounted, ListsAreCurrent
<1>2. QED
  BY <1>1, MountedAlways, PTL

\* Nobody's identity, facility or page is shown to anybody else, whatever
\* reads, refusals, other tabs and sign-outs overlap (AuthProvider and the
\* route guards of App.tsx).
THEOREM SessionIsTrueAlways == Spec => []SessionIsTrue
<1>1. Mounted => SessionIsTrue
  BY SessionHolds DEF Mounted, SessionIsTrue
<1>2. QED
  BY <1>1, MountedAlways, PTL
=============================================================================
