------------------------------- MODULE Session -------------------------------
(***************************************************************************)
(* Who the application thinks is using it (core/auth, and the sign-in route *)
(* of App.tsx).  The browser keeps one session, which other tabs change;    *)
(* AuthProvider hears of it by events, reads the identity of its subject    *)
(* from the server, and publishes it with the user's choice of facility.    *)
(* Any request refused with 401 signs the browser out.  The route guards    *)
(* choose the page from the status, the role and the page asked for.        *)
(***************************************************************************)
EXTENDS Naturals, Sequences, FiniteSets

CONSTANTS
    User,
    Facility,       \* the "all facilities" of the cross-facility roles among them
    ServerRole,     \* the roles the server may name
    Path,           \* the pages links and the history lead to
    None,           \* nobody; no facility, role or page
    MaxEvents,      \* bound: what other tabs and token refreshes do
    MaxSubmits,     \* bound: presses of Sign in
    MaxCalls        \* bound: requests of the screens behind

RoleName == {"DRIVER", "OPERATIONS_EXECUTIVE", "OPERATIONS_MANAGER", "WAREHOUSE_PLANNER",
             "GATE_OFFICER", "TRANSPORT_MANAGER", "ADMIN"}
Identity == [user : User, role : RoleName, facilities : SUBSET Facility]

SessionAssumption ==
    /\ {MaxEvents, MaxSubmits, MaxCalls} \subseteq Nat
    /\ None \notin User \cup Facility \cup ServerRole \cup Path \cup RoleName \cup Identity
    /\ "/signin" \notin Path

VARIABLES
    store,          \* localStorage's session, which all tabs share
    mount,          \* what the provider's mount waits for still
    events,         \* what other tabs have told this one, not heard yet
    session,        \* the subject of the provider's session
    status,         \* AuthStatus
    serverIdentity, \* whose, and the facilities the server lists; None
    facilityChoice,
    stored,         \* each user's choice, kept in localStorage
    reads,          \* the identity reads that have begun
    leaving,        \* calls of signOutLocal that await signOut()
    calls,          \* requests of the screens behind that are under way
    path,           \* the page
    from,           \* at /signin: the page that sent the browser there; None
    form, grant,    \* the sign-in form, and the password grant under way
    spent           \* what the bounds have used up

provider == <<session, status, serverIdentity, facilityChoice, reads>>
route == <<path, from, form>>
vars == <<store, mount, events, provider, stored, leaving, calls, route, grant, spent>>

AtRest == [submitting |-> FALSE, says |-> "nothing"]

Init ==
    /\ store \in User \cup {None}
    /\ mount = {"INITIAL_SESSION", "getSession"} /\ events = <<>>
    /\ session = None /\ status = "loading" /\ serverIdentity = None /\ facilityChoice = None
    /\ stored = [u \in User |-> None]
    /\ reads = {} /\ leaving = 0 /\ calls = {}
    /\ path \in Path \cup {"/signin"} /\ from = None /\ form = AtRest /\ grant = None
    /\ spent = [events |-> 0, submits |-> 0, calls |-> 0]
-----------------------------------------------------------------------------
Spend(k, max) == spent[k] < max /\ spent' = [spent EXCEPT ![k] = @ + 1]

\* The identity effect: the read under way is aborted, unless /auth/me has
\* answered already, and one for the subject begins with the stored token.
Aborted == {[r EXCEPT !.live = FALSE] : r \in {q \in reads : q.answered}}
Begun(subject) == {[token |-> store', answered |-> FALSE, live |-> TRUE] : u \in {subject} \ {None}}
Reread(subject) == reads' = Aborted \cup Begun(subject)

\* setSession: the effect runs again only if the subject is another.
SetSession(u) ==
    /\ session' = u
    /\ IF u = session THEN UNCHANGED reads ELSE Reread(u)

\* While somebody is authenticated the next subject is read behind his screen.
Loading(u) == IF u \in {None, session} \/ status = "authenticated" THEN status ELSE "loading"

(* The pages: the guards of App.tsx's routes redirect until one may stay.   *)

UiRole(r) == CASE r = "CARRIER" -> "TRANSPORT_MANAGER"
               [] r \in RoleName -> r
               [] OTHER -> None

HomePath(role) == CASE role = "DRIVER" -> "/driver"
                    [] role = "WAREHOUSE_PLANNER" -> "/planner"
                    [] role = "GATE_OFFICER" -> "/gate"
                    [] role = "TRANSPORT_MANAGER" -> "/carrier"
                    [] role = "ADMIN" -> "/admin"
                    [] OTHER -> "/ops"

\* The roles that may open a surface; any role may open any other page.
AllowedRoles(p) == CASE p = "/driver" -> {"DRIVER"}
                     [] p = "/planner" -> {"WAREHOUSE_PLANNER", "ADMIN"}
                     [] p = "/ops" -> {"OPERATIONS_EXECUTIVE", "OPERATIONS_MANAGER",
                                       "WAREHOUSE_PLANNER", "TRANSPORT_MANAGER", "ADMIN"}
                     [] p = "/gate" -> {"GATE_OFFICER", "WAREHOUSE_PLANNER", "ADMIN"}
                     [] p = "/carrier" -> {"TRANSPORT_MANAGER"}
                     [] p = "/admin" -> {"ADMIN"}
                     [] OTHER -> RoleName
CanAccess(role, p) == role \in AllowedRoles(p)

\* RequireAuth around a page, and SignInRoute's way back to one.
Guarded(role, p) == IF CanAccess(role, p) THEN p ELSE HomePath(role)
SignedIn(role, back) == IF back = None THEN HomePath(role) ELSE Guarded(role, back)
Arrives(p, back) ==
    /\ path' = CASE status' = "anonymous" -> "/signin"
                 [] status' = "authenticated" /\ p = "/signin" -> SignedIn(serverIdentity'.role, back)
                 [] status' = "authenticated" /\ p # "/signin" -> Guarded(serverIdentity'.role, p)
                 [] OTHER -> p
    /\ from' = CASE path' # "/signin" -> None
                 [] path' = "/signin" /\ p # "/signin" -> p
                 [] OTHER -> back
    /\ form' = IF path = "/signin" /\ path' = "/signin" THEN form ELSE AtRest
Route == Arrives(path, from)

\* A link of the rail or the user menu, or the history.
Go(p) ==
    /\ p # path
    /\ UNCHANGED <<store, mount, events, provider, stored, leaving, calls, grant, spent>>
    /\ Arrives(p, None)
-----------------------------------------------------------------------------
\* setSession(null), and what hangs on it.
NobodyHere ==
    /\ SetSession(None)
    /\ serverIdentity' = None /\ facilityChoice' = None
    /\ status' = "anonymous"
Anonymous == NobodyHere /\ Route

Becomes(u) ==
    /\ SetSession(u)
    /\ status' = Loading(u)
    /\ UNCHANGED <<serverIdentity, facilityChoice>>
    /\ Route

\* onAuthChange's callback.
Hear(u) == UNCHANGED store /\ IF u = None THEN Anonymous ELSE Becomes(u)

HearInitial ==
    /\ "INITIAL_SESSION" \in mount
    /\ mount' = mount \ {"INITIAL_SESSION"}
    /\ Hear(store)
    /\ UNCHANGED <<events, stored, leaving, calls, grant, spent>>

HearEvent ==
    /\ events # <<>>
    /\ events' = Tail(events)
    /\ Hear(Head(events))
    /\ UNCHANGED <<mount, stored, leaving, calls, grant, spent>>

\* getSession() of the mount: it never replaces what an event has set.
GetSession ==
    /\ "getSession" \in mount
    /\ mount' = mount \ {"getSession"}
    /\ UNCHANGED store
    /\ IF session = None /\ store # None
          THEN Becomes(store)
          ELSE /\ status' = IF store = None /\ status = "loading" THEN "anonymous" ELSE status
               /\ UNCHANGED <<session, serverIdentity, facilityChoice, reads>>
               /\ Route
    /\ UNCHANGED <<events, stored, leaving, calls, grant, spent>>

\* Another tab signs out or in, or a token is refreshed.
OtherTab(u) ==
    /\ Spend("events", MaxEvents)
    /\ store' = u
    /\ events' = Append(events, u)
    /\ UNCHANGED <<mount, provider, stored, leaving, calls, route, grant>>
-----------------------------------------------------------------------------
(* The identity read.                                                       *)

MeAnswers(r) ==
    /\ r.live /\ ~ r.answered /\ r.token # None
    /\ reads' = (reads \ {r}) \cup {[r EXCEPT !.answered = TRUE]}
    /\ UNCHANGED <<store, mount, events, session, status, serverIdentity, facilityChoice, stored,
                   leaving, calls, route, grant, spent>>

\* A 401 leaves the screen to the sign-out it has begun; without a stored
\* session no request goes out, and no sign-out begins either.
MeUnauthorized(r) ==
    /\ r.live /\ ~ r.answered
    /\ reads' = reads \ {r}
    /\ leaving' = IF r.token = None THEN leaving ELSE leaving + 1
    /\ UNCHANGED <<store, mount, events, session, status, serverIdentity, facilityChoice, stored,
                   calls, route, grant, spent>>

\* Refused (an account without a user, a disabled one), a role without a
\* surface, or nothing heard.
MeFails(r) ==
    /\ r.live /\ r.token # None
    /\ reads' = reads \ {r}
    /\ serverIdentity' = None /\ facilityChoice' = None /\ status' = "error"
    /\ Route
    /\ UNCHANGED <<store, mount, events, session, stored, leaving, calls, grant, spent>>

\* The choice of facility this browser keeps for a user, if he may still make it.
Choice(u, listed) == IF stored[u] \in listed THEN stored[u] ELSE None

LandsAnyway(r) == TRUE                    \* mutant of Lands
Lands(r) == r.live

\* account-profile has answered or failed, perhaps with 401: the identity is
\* published, with the facilities the two reads list.
IdentityLands(r) ==
    /\ r.answered
    /\ reads' = reads \ {r}
    /\ leaving' \in IF r.live THEN {leaving, leaving + 1} ELSE {leaving}
    /\ IF Lands(r)
          THEN \E listed \in SUBSET Facility, role \in {UiRole(k) : k \in ServerRole} \ {None} :
                   /\ serverIdentity' = [user |-> r.token, role |-> role, facilities |-> listed]
                   /\ facilityChoice' = Choice(r.token, listed)
                   /\ status' = "authenticated"
                   /\ Route
          ELSE UNCHANGED <<serverIdentity, facilityChoice, status, route>>
    /\ UNCHANGED <<store, mount, events, session, stored, calls, grant, spent>>

Retry ==
    /\ status = "error" /\ path # "/signin"
    /\ UNCHANGED <<store, session>>
    /\ Reread(session)
    /\ status' = IF session = None THEN status ELSE "loading"
    /\ UNCHANGED <<mount, events, serverIdentity, facilityChoice, stored, leaving, calls, grant, spent>>
    /\ Route

\* The facility switcher lists the identity's facilities; storage may refuse.
SetActiveFacility(f) ==
    /\ status = "authenticated" /\ f \in serverIdentity.facilities
    /\ facilityChoice' = f
    /\ stored' \in {stored, [stored EXCEPT ![serverIdentity.user] = f]}
    /\ UNCHANGED <<store, mount, events, session, status, serverIdentity, reads, leaving, calls, route,
                   grant, spent>>
-----------------------------------------------------------------------------
(* Signing out.                                                             *)

SignOut ==
    /\ status \in {"authenticated", "error"} /\ path # "/signin" /\ leaving = 0
    /\ leaving' = 1
    /\ UNCHANGED <<store, mount, events, provider, stored, calls, route, grant, spent>>

\* ShellRoute: the user menu's sign-out goes on to /signin itself, which may
\* forget the page before RequireAuth has kept it.
MenuGoesOn == path # "/signin" /\ Arrives("/signin", None)

\* signOutLocal after its await; signOut() that could not reach the server
\* leaves the stored session where it is.
SignedOut ==
    /\ leaving > 0
    /\ leaving' = leaving - 1
    /\ store' \in {None, store}
    /\ NobodyHere
    /\ Arrives(path, from) \/ MenuGoesOn
    /\ UNCHANGED <<mount, events, stored, calls, grant, spent>>

\* A screen's request, or the POST of signOutEverywhere.
Call(k) ==
    /\ status = "authenticated" /\ store # None /\ k \notin calls /\ Spend("calls", MaxCalls)
    /\ calls' = calls \cup {k}
    /\ UNCHANGED <<store, mount, events, provider, stored, leaving, route, grant>>

\* Its answer, whoever is signed in by then: 401 signs out, and so does the
\* server's yes to signing out everywhere.
CallAnswers(k, answer) ==
    /\ k \in calls
    /\ calls' = calls \ {k}
    /\ leaving' = IF answer = "401" \/ (k = "everywhere" /\ answer = "ok") THEN leaving + 1 ELSE leaving
    /\ UNCHANGED <<store, mount, events, provider, stored, route, grant, spent>>
-----------------------------------------------------------------------------
(* SignInRoute.  Its button is disabled while a submission is pending and   *)
(* when the server has said there were too many.                            *)

Submit(u) ==
    /\ path = "/signin" /\ ~ form.submitting /\ form.says # "rate-limited"
    /\ Spend("submits", MaxSubmits)
    /\ grant' = u
    /\ form' = [submitting |-> TRUE, says |-> "nothing"]
    /\ UNCHANGED <<store, mount, events, provider, stored, leaving, calls, path, from>>

Refused(says) ==
    /\ grant # None
    /\ grant' = None
    /\ form' = IF path = "/signin" THEN [submitting |-> FALSE, says |-> says] ELSE form
    /\ UNCHANGED <<store, mount, events, provider, stored, leaving, calls, path, from, spent>>

\* The grant is stored and heard of at once; the form stays pending.
Granted ==
    /\ grant # None
    /\ grant' = None
    /\ store' = grant
    /\ Becomes(grant)
    /\ UNCHANGED <<mount, events, stored, leaving, calls, spent>>
-----------------------------------------------------------------------------
Next ==
    \/ HearInitial \/ GetSession \/ HearEvent \/ (\E u \in User \cup {None} : OtherTab(u))
    \/ \E r \in reads : MeAnswers(r) \/ MeUnauthorized(r) \/ MeFails(r) \/ IdentityLands(r)
    \/ Retry \/ (\E f \in Facility : SetActiveFacility(f))
    \/ SignOut \/ SignedOut \/ (\E p \in Path : Go(p))
    \/ \E k \in {"screen", "everywhere"} : Call(k) \/ \E a \in {"ok", "401", "other"} : CallAnswers(k, a)
    \/ (\E u \in User : Submit(u)) \/ Granted \/ (\E s \in {"error", "rate-limited"} : Refused(s))

Spec == Init /\ [][Next]_vars
-----------------------------------------------------------------------------
Reading == \E r \in reads : r.live
UnderWay == mount # {} \/ events # <<>> \/ Reading \/ leaving > 0

\* Nobody is shown to anybody else: an identity outlives no session, the
\* facility chosen is one the server lists for it, and the page is one its role
\* may open, whoever the page was left by.  While no other tab
\* interferes, the identity on the screen, once everything has settled, is that
\* of the session whose token the requests carry, and the application never
\* says it is checking a session that nothing checks.
SessionIsTrue ==
    /\ serverIdentity # None => session # None
    /\ facilityChoice # None => serverIdentity # None /\ facilityChoice \in serverIdentity.facilities
    /\ status = "authenticated" =>
           serverIdentity # None /\ path # "/signin" /\ CanAccess(serverIdentity.role, path)
    /\ spent.events = 0 =>
           /\ serverIdentity # None /\ ~ UnderWay => session = store /\ serverIdentity.user = store
           /\ status = "loading" => UnderWay

\* A pending sign-in form is waiting for something: it is cleared on a failure
\* path, where there is something for the user to do (App.tsx:301-304).
PendingFormIsWaiting == form.submitting => grant # None \/ UnderWay
=============================================================================
