------------------------------ MODULE UserAdmin ------------------------------
(***************************************************************************)
(* The Users tab of the admin console (features/admin) and the tools behind *)
(* it (admin_user_service), about one e-mail address.  The user is kept in  *)
(* two places that share no transaction: the row of users with its scopes,  *)
(* and the identity of Supabase Auth, external, by which the person signs   *)
(* in.  Admins act side by side on lists that have gone stale; a tool may   *)
(* die between its two places, and its answer may be lost.                  *)
(***************************************************************************)
EXTENDS Naturals, Sequences, FiniteSets

CONSTANTS
    Admin,
    Access,         \* a role with the scopes that go with it
    None,
    MaxCalls,       \* bound: writes of all admins
    MaxTroubles     \* bound: answers that are lost and tools that die

\* A row of users with its rows of user_scopes.
Row == [role : Access, scopes : SUBSET Access, active : BOOLEAN, removed : BOOLEAN,
        invited : BOOLEAN, accepted : BOOLEAN, auth : Nat]

UserAssumption ==
    /\ {MaxCalls, MaxTroubles} \subseteq Nat
    /\ Access # {} /\ None \notin Access \cup Row \cup {"invite", "edit", "remove"}

VARIABLES
    user,           \* the row of users, and its user_scopes
    identity,       \* Supabase Auth: its id, 0 for none, and whether it was confirmed
    minted,         \* identities made so far
    session,        \* the identity of the person's token, 0 for none
    tab,            \* UsersTab, for each admin
    loads,          \* lists under way: what each would have shown when it was asked
    calls,          \* the writes: what the tab and the server know of each
    troubles

auth == <<identity, minted, session>>
vars == <<user, auth, tab, loads, calls, troubles>>

\* A row as an invitation makes it, and as the seed data has it, switched on or off.
NewRow(access, id) == [role |-> access, scopes |-> {access}, active |-> TRUE, removed |-> FALSE,
                       invited |-> TRUE, accepted |-> FALSE, auth |-> id]
SeedRow(access, active) == [NewRow(access, 1) EXCEPT !.invited = FALSE, !.active = active]

\* derive_lifecycle_state: removal first, then the switch, then the invitation.
LifecycleState(row) ==
    CASE row.removed -> "REMOVED"
      [] ~ row.removed /\ ~ row.active -> "DEACTIVATED"
      [] ~ row.removed /\ row.active -> IF row.invited /\ ~ row.accepted THEN "INVITED" ELSE "ACTIVE"

\* list_users: a removed user is in no list.
Listed == IF user = None \/ user.removed THEN "NONE" ELSE LifecycleState(user)

NoIdentity == [id |-> 0, confirmed |-> FALSE]

Init ==
    /\ \/ user = None /\ identity = NoIdentity
       \/ \E access \in Access : user = NewRow(access, 1) /\ identity = [id |-> 1, confirmed |-> FALSE]
       \/ \E access \in Access, active \in BOOLEAN :
              user = SeedRow(access, active) /\ identity = [id |-> 1, confirmed |-> TRUE]
    /\ minted = identity.id
    /\ session = IF identity.confirmed THEN identity.id ELSE 0
    /\ tab = [a \in Admin |-> [shown |-> Listed, dialog |-> None, busy |-> FALSE, error |-> None]]
    /\ loads = [a \in Admin |-> {}]
    /\ calls = << >>
    /\ troubles = 0
-----------------------------------------------------------------------------
(* The tab.                                                                 *)

\* UserRow: a pending invitation has two actions of its own; any other user can
\* be edited, switched and removed.  Without a user one can be invited.
Offers(shown) ==
    CASE shown = "NONE" -> {"invite"}
      [] shown = "INVITED" -> {"resend", "revoke"}
      [] shown = "ACTIVE" -> {"edit", "deactivate", "remove"}
      [] shown = "DEACTIVATED" -> {"edit", "reactivate", "remove"}

InDialog == {"invite", "edit", "remove"}

\* InviteUserDialog and RemoveUserDialog.
OpenDialog(a, op) ==
    /\ tab[a].dialog = None /\ op \in Offers(tab[a].shown) \cap InDialog
    /\ tab' = [tab EXCEPT ![a].dialog = op, ![a].error = None]
    /\ UNCHANGED <<user, auth, loads, calls, troubles>>

\* Cancel, also while a write is under way.
CloseDialog(a) ==
    /\ tab[a].dialog # None
    /\ tab' = [tab EXCEPT ![a].dialog = None]
    /\ UNCHANGED <<user, auth, loads, calls, troubles>>

\* What the form of an operation leaves open.
Choices(op) == IF op \in {"invite", "edit"} THEN Access ELSE {None}

\* A dialog commits once, while nothing is under way; a row's own actions do not
\* ask.
CanWrite(a, op) ==
    IF op \in InDialog THEN tab[a].dialog = op /\ ~ tab[a].busy
    ELSE tab[a].dialog = None /\ op \in Offers(tab[a].shown)

\* runWrite.
Write(a, op, access) ==
    /\ Len(calls) < MaxCalls /\ CanWrite(a, op)
    /\ tab' = [tab EXCEPT ![a].busy = TRUE, ![a].error = None]
    /\ calls' = Append(calls, [by |-> a, op |-> op, access |-> access, client |-> "open",
                               phase |-> "asked", auth |-> 0, seen |-> {}, dialog |-> tab[a].dialog])
    /\ UNCHANGED <<user, auth, loads, troubles>>

\* A write that is answered closes whatever dialog is open, and loads the list.
WriteLands(i) ==
    LET a == calls[i].by IN
    /\ calls[i].client = "open" /\ calls[i].phase = "done"
    /\ calls' = [calls EXCEPT ![i].client = "closed"]
    /\ tab' = [tab EXCEPT ![a].dialog = None]
    /\ loads' = [loads EXCEPT ![a] = @ \cup {Listed}]
    /\ UNCHANGED <<user, auth, troubles>>

\* A list, as it was at some time since it was asked for; a newer one may have
\* landed before it.
LoadLands(a, asked) ==
    /\ loads' = [loads EXCEPT ![a] = @ \ {asked}]
    /\ \E shown \in {asked, Listed} :
           tab' = [tab EXCEPT ![a].shown = shown, ![a].busy = FALSE]
    /\ UNCHANGED <<user, auth, calls, troubles>>

\* A write that throws, refused or lost: it is told where the press was made.
WriteFails(i) ==
    LET a == calls[i].by IN
    /\ calls[i].client = "open"
    /\ \/ calls[i].phase = "refused" /\ UNCHANGED troubles
       \/ calls[i].phase # "refused" /\ troubles < MaxTroubles /\ troubles' = troubles + 1
    /\ calls' = [calls EXCEPT ![i].client = "closed"]
    /\ tab' = [tab EXCEPT ![a].busy = FALSE, ![a].error = IF calls[i].dialog = None THEN "banner" ELSE "dialog"]
    /\ UNCHANGED <<user, auth, loads>>
-----------------------------------------------------------------------------
(* The tools.                                                               *)

Is(i, ops, phase) == calls[i].op \in ops /\ calls[i].phase = phase
At(i, phase) == calls' = [calls EXCEPT ![i].phase = phase]
Screens == UNCHANGED <<tab, loads, troubles>>

AnyRowLock == TRUE                       \* mutant of RowFree

\* Nobody has the user's row locked.
RowFree == \A j \in DOMAIN calls : calls[j].phase # "locked"

\* The process dies, or the call never reached it: its transaction is undone,
\* and what it asked of Auth stands.
ToolDies(i) ==
    /\ calls[i].phase \notin {"done", "refused", "dead"}
    /\ troubles < MaxTroubles /\ troubles' = troubles + 1
    /\ At(i, "dead")
    /\ UNCHANGED <<user, auth, tab, loads>>

\* POST /auth/v1/invite: a new identity, or another mail to one not confirmed.
AuthInvite ==
    /\ ~ identity.confirmed
    /\ IF identity.id = 0
          THEN minted' = minted + 1 /\ identity' = [id |-> minted + 1, confirmed |-> FALSE]
          ELSE UNCHANGED <<minted, identity>>
    /\ UNCHANGED session

\* _create_auth_user, and what it refuses.
CreateAuthUser(i) ==
    /\ Is(i, {"invite"}, "asked")
    /\ \/ /\ AuthInvite
          /\ calls' = [calls EXCEPT ![i].phase = "created", ![i].auth = identity'.id]
       \/ identity.confirmed /\ At(i, "refused") /\ UNCHANGED auth
    /\ Screens /\ UNCHANGED user

\* invite_user's rows; an address that has a row, though a removed one, breaks
\* its unique index and leaves the identity behind.
InsertUser(i) ==
    /\ Is(i, {"invite"}, "created")
    /\ IF user = None
          THEN user' = NewRow(calls[i].access, calls[i].auth) /\ At(i, "done")
          ELSE At(i, "refused") /\ UNCHANGED user
    /\ Screens /\ UNCHANGED auth

\* update_user takes the row, and then deletes the scopes it sees.
UpdateUser(i) ==
    /\ Is(i, {"edit"}, "asked") /\ RowFree
    /\ calls' = [calls EXCEPT ![i].phase = "locked", ![i].seen = user.scopes]
    /\ Screens /\ UNCHANGED <<user, auth>>

\* _write_user_scopes inserts the new ones, and all of it is committed.
WriteUserScopes(i) ==
    /\ Is(i, {"edit"}, "locked")
    /\ user' = [user EXCEPT !.role = calls[i].access,
                            !.scopes = (@ \ calls[i].seen) \cup {calls[i].access}]
    /\ At(i, "done")
    /\ Screens /\ UNCHANGED auth

SwitchesAnyRow == user # None            \* mutant of Switchable

\* A row that may be switched on and off: one that is not removed.
Switchable == ~ user.removed

\* _set_active.
SetActive(i, active) ==
    /\ Is(i, IF active THEN {"reactivate"} ELSE {"deactivate"}, "asked") /\ RowFree
    /\ IF Switchable THEN user' = [user EXCEPT !.active = active] /\ At(i, "done")
                             ELSE At(i, "refused") /\ UNCHANGED user
    /\ Screens /\ UNCHANGED auth

\* The read that remove_user, and through _load_pending_invite revoke_invite and
\* resend_invite begin with, and do not hold on to.
ReadUser(i) ==
    /\ Is(i, {"remove", "revoke", "resend"}, "asked")
    /\ IF calls[i].op = "remove" \/ LifecycleState(user) = "INVITED"
          THEN calls' = [calls EXCEPT ![i].phase = "read", ![i].auth = user.auth]
          ELSE At(i, "refused")
    /\ Screens /\ UNCHANGED <<user, auth>>

\* _delete_auth_user: one that is gone already is as good.
DeleteAuthUser(i) ==
    /\ Is(i, {"remove", "revoke"}, "read")
    /\ identity' = IF identity.id = calls[i].auth THEN NoIdentity ELSE identity
    /\ At(i, "deleted")
    /\ Screens /\ UNCHANGED <<user, minted, session>>

\* The rest of remove_user and of revoke_invite, whatever the row has become.
StampRemoved(i) ==
    /\ Is(i, {"remove", "revoke"}, "deleted") /\ RowFree
    /\ user' = [user EXCEPT !.active = FALSE, !.removed = TRUE]
    /\ At(i, "done")
    /\ Screens /\ UNCHANGED auth

\* resend_invite's mail; it only stamps the row with its time.
ResendInvite(i) ==
    /\ Is(i, {"resend"}, "read")
    /\ \/ AuthInvite /\ At(i, "done")
       \/ identity.confirmed /\ At(i, "refused") /\ UNCHANGED auth
    /\ Screens /\ UNCHANGED user
-----------------------------------------------------------------------------
(* The person.                                                              *)

\* The link of the invitation: the identity is confirmed and has a session.
AcceptLink ==
    /\ identity.id # 0 /\ session # identity.id
    /\ identity' = [identity EXCEPT !.confirmed = TRUE]
    /\ session' = identity.id
    /\ UNCHANGED <<user, minted, tab, loads, calls, troubles>>

\* get_execution_context: a token outlives its identity, but the row must be
\* switched on; the first request stamps the invitation as accepted.
Request ==
    /\ user # None /\ session = user.auth /\ session # 0 /\ user.active
    /\ user.invited /\ ~ user.accepted /\ RowFree
    /\ user' = [user EXCEPT !.accepted = TRUE]
    /\ UNCHANGED <<auth, tab, loads, calls, troubles>>

Tab(a) ==
    \/ \E op \in InDialog : OpenDialog(a, op)
    \/ CloseDialog(a)
    \/ \E op \in Offers(tab[a].shown) \cup InDialog : \E access \in Choices(op) : Write(a, op, access)
    \/ \E asked \in loads[a] : LoadLands(a, asked)

Tool(i) ==
    \/ ToolDies(i) \/ CreateAuthUser(i) \/ InsertUser(i)
    \/ UpdateUser(i) \/ WriteUserScopes(i) \/ (\E active \in BOOLEAN : SetActive(i, active))
    \/ ReadUser(i) \/ DeleteAuthUser(i) \/ StampRemoved(i) \/ ResendInvite(i)

Next ==
    \/ \E a \in Admin : Tab(a)
    \/ \E i \in DOMAIN calls : WriteLands(i) \/ WriteFails(i) \/ Tool(i)
    \/ AcceptLink \/ Request

Spec == Init /\ [][Next]_vars
-----------------------------------------------------------------------------
\* A removal is for good: whatever was under way when it was recorded, the user
\* is switched off and the identity the row names is no more, and a tool that
\* died halfway is finished by asking again.
RemovedForGood ==
    user # None /\ user.removed => ~ user.active /\ identity.id # user.auth

\* The role and the scopes a user has are of one edit, whoever else edited him.
AccessOfOneEdit == user # None => user.scopes = {user.role}
=============================================================================
