------------------------------ MODULE Consoles ------------------------------
(***************************************************************************)
(* The browser application around the planner's and the coordinator's      *)
(* consoles: the session every screen stands on, and the screens it may    *)
(* be opened on (the routes of App.tsx, the tabs of the admin console).    *)
(* A tab of the browser mounts one of them, and the state of the others    *)
(* does not exist then: it is None.  A variable two of them call by the    *)
(* same name belongs to the one that is mounted.                           *)
(***************************************************************************)
EXTENDS Naturals, Sequences, FiniteSets

CONSTANTS
    None,
    Slot, Ttl, Skew, MaxMessages,                         \* DriverChat
    Truck, Kiosk, Dock, Stage, MaxTaps, MaxLookups, MaxMoves,     \* GateKiosk
    Admin, Access,                                        \* UserAdmin
    Routine, Fair, LiveWeights, Invalid,                  \* PolicyEditor
    MaxEdits, MaxSimulations, MaxPublishes,
    Section, Filter, All, MaxLoads,                       \* FleetDashboard, AuditLog
    User, Facility, ServerRole, Path,                     \* Session
    MaxEvents, MaxSubmits, MaxRequests,
    MaxCalls, MaxTroubles, MaxNow                         \* bounds of several

VARIABLES
    surface,        \* what is mounted
    calls, now, troubles, tab, loads, reads, session, filter,     \* of several
    page, context, online, live, ticked, offset, skew, messages, card, hold,
    thread, replies, turn, abort, granted, remembered, told,
    kiosk, lookups, checkin, appt, log, raced, searched, moves,
    user, identity, minted,
    sims, publishes, versions, edits, simulated,
    shown, lastUpdated, staleSince, waited, detail, opens,
    list, recorded, asked, files, banner, late,
    store, mount, events, status, serverIdentity, facilityChoice, stored,
    leaving, path, from, form, grant, spent

driver == <<page, context, online, live, ticked, offset, skew, messages, card, hold,
            thread, replies, turn, abort, granted, remembered, told>>
gate == <<kiosk, lookups, checkin, appt, log, raced, searched, moves>>
users == <<user, identity, minted>>
policy == <<sims, publishes, versions, edits, simulated>>
carrier == <<shown, lastUpdated, staleSince, waited, detail, opens>>
audit == <<list, recorded, asked, files, banner, late>>
signin == <<store, mount, events, status, serverIdentity, facilityChoice, stored,
            leaving, path, from, form, grant, spent>>
vars == <<surface, calls, now, troubles, tab, loads, reads, session, filter,
          driver, gate, users, policy, carrier, audit, signin>>

Driver == INSTANCE DriverChat
Gate == INSTANCE GateKiosk
Users == INSTANCE UserAdmin
Policy == INSTANCE PolicyEditor
Fleet == INSTANCE FleetDashboard
Audit == INSTANCE AuditLog
SignIn == INSTANCE Session WITH MaxCalls <- MaxRequests

ASSUME ConsolesAssumption ==
    /\ Driver!DriverAssumption /\ Gate!GateAssumption
    /\ Users!UserAssumption /\ Policy!PolicyAssumption
    /\ Fleet!FleetAssumption /\ Audit!AuditAssumption /\ SignIn!SessionAssumption
-----------------------------------------------------------------------------
(* What a screen that is not mounted has: nothing.                          *)

NoDriver ==
    /\ page = None /\ context = None /\ online = None /\ live = None /\ ticked = None
    /\ offset = None /\ skew = None /\ messages = None /\ card = None /\ hold = None
    /\ thread = None /\ replies = None /\ turn = None /\ abort = None
    /\ granted = None /\ remembered = None /\ told = None
NoGate ==
    /\ kiosk = None /\ lookups = None /\ checkin = None /\ appt = None /\ log = None
    /\ raced = None /\ searched = None /\ moves = None
NoUsers ==
    /\ user = None /\ identity = None /\ minted = None
NoPolicy ==
    /\ sims = None /\ publishes = None /\ versions = None /\ edits = None
    /\ simulated = None
NoFleet ==
    /\ shown = None /\ lastUpdated = None /\ staleSince = None
    /\ waited = None /\ detail = None /\ opens = None
NoAudit ==
    /\ list = None /\ recorded = None /\ asked = None /\ files = None
    /\ banner = None /\ late = None
NoSignIn ==
    /\ store = None /\ mount = None /\ events = None /\ status = None
    /\ serverIdentity = None /\ facilityChoice = None /\ stored = None
    /\ leaving = None /\ path = None /\ from = None /\ form = None
    /\ grant = None /\ spent = None

\* Which screen is mounted: a route, or the tab of /admin that is selected.
InitDriver == surface = "/driver" /\ Driver!Init
              /\ NoGate /\ NoUsers /\ NoPolicy /\ NoFleet /\ NoAudit /\ NoSignIn
              /\ filter = None /\ tab = None /\ loads = None /\ reads = None /\ session = None
InitGate == surface = "/gate" /\ Gate!Init
            /\ NoDriver /\ NoUsers /\ NoPolicy /\ NoFleet /\ NoAudit /\ NoSignIn
            /\ filter = None /\ now = None /\ troubles = None /\ tab = None /\ loads = None
            /\ reads = None /\ session = None
InitUsers == surface = "/admin users" /\ Users!Init
             /\ NoDriver /\ NoGate /\ NoPolicy /\ NoFleet /\ NoAudit /\ NoSignIn
             /\ filter = None /\ now = None /\ reads = None
InitPolicy == surface = "/admin policy" /\ Policy!Init
              /\ NoDriver /\ NoGate /\ NoUsers /\ NoFleet /\ NoAudit /\ NoSignIn
              /\ filter = None /\ calls = None /\ now = None /\ loads = None /\ session = None
InitFleet == surface = "/carrier" /\ Fleet!Init
             /\ NoDriver /\ NoGate /\ NoUsers /\ NoPolicy /\ NoAudit /\ NoSignIn
             /\ calls = None /\ troubles = None /\ tab = None /\ reads = None /\ session = None
InitAudit == surface = "/admin audit" /\ Audit!Init
             /\ NoDriver /\ NoGate /\ NoUsers /\ NoPolicy /\ NoFleet /\ NoSignIn
             /\ calls = None /\ now = None /\ reads = None /\ session = None
InitSignIn == surface = "/signin" /\ SignIn!Init
              /\ NoDriver /\ NoGate /\ NoUsers /\ NoPolicy /\ NoFleet /\ NoAudit
              /\ filter = None /\ now = None /\ troubles = None /\ tab = None /\ loads = None

Init == InitDriver \/ InitGate \/ InitUsers \/ InitPolicy \/ InitFleet \/ InitAudit \/ InitSignIn

DriverStep == /\ surface = "/driver" /\ Driver!Next
              /\ UNCHANGED <<surface, tab, loads, reads, session, filter,
                             gate, users, policy, carrier, audit, signin>>
GateStep == /\ surface = "/gate" /\ Gate!Next
            /\ UNCHANGED <<surface, now, troubles, tab, loads, reads, session, filter,
                           driver, users, policy, carrier, audit, signin>>
UsersStep == /\ surface = "/admin users" /\ Users!Next
             /\ UNCHANGED <<surface, now, reads, filter,
                            driver, gate, policy, carrier, audit, signin>>
PolicyStep == /\ surface = "/admin policy" /\ Policy!Next
              /\ UNCHANGED <<surface, calls, now, loads, session, filter,
                             driver, gate, users, carrier, audit, signin>>
FleetStep == /\ surface = "/carrier" /\ Fleet!Next
             /\ UNCHANGED <<surface, calls, troubles, tab, reads, session,
                            driver, gate, users, policy, audit, signin>>
AuditStep == /\ surface = "/admin audit" /\ Audit!Next
             /\ UNCHANGED <<surface, calls, now, reads, session,
                            driver, gate, users, policy, carrier, signin>>
SignInStep == /\ surface = "/signin" /\ SignIn!Next
              /\ UNCHANGED <<surface, now, troubles, tab, loads, filter,
                             driver, gate, users, policy, carrier, audit>>

Next == DriverStep \/ GateStep \/ UsersStep \/ PolicyStep \/ FleetStep \/ AuditStep \/ SignInStep

Spec == Init /\ [][Next]_vars
-----------------------------------------------------------------------------
(* What each screen promises while it is mounted; the modules say why.      *)

\* DriverChat: however often a message is retried and wherever its turn broke,
\* it costs one hold.
OneHoldPerMessage == surface = "/driver" => Driver!OneHoldPerMessage

\* DriverChat: the conversation says what happened.
ConversationIsTrue == surface = "/driver" => Driver!ConversationIsTrue

\* GateKiosk: a visit is recorded step by step, each step once.
StepsOnceInOrder == surface = "/gate" => Gate!StepsOnceInOrder

\* GateKiosk: two trucks share a dock only through the check without a lock.
DockSharedOnlyInARace == surface = "/gate" => Gate!DockSharedOnlyInARace

\* GateKiosk: a kiosk waits for calls of its own and tells what is on record.
KioskIsTrue == surface = "/gate" => Gate!KioskIsTrue

\* PolicyEditor: a published version is the one its admin decided on, once.
PublishedAsDecided == surface = "/admin policy" => Policy!PublishedAsDecided

\* UserAdmin: a removed user has neither switch nor identity.
RemovedForGood == surface = "/admin users" => Users!RemovedForGood

\* UserAdmin: role and scopes are of one edit.
AccessOfOneEdit == surface = "/admin users" => Users!AccessOfOneEdit

\* FleetDashboard and AuditLog: a list is of the filter above it; no late load
\* puts older data on the carrier's page, and no export is of other rows.
ListsAreCurrent ==
    /\ surface = "/carrier" => Fleet!FleetIsCurrent
    /\ surface = "/admin audit" => Audit!AuditIsTrue

\* Session: nobody's identity or page is shown to anybody else.
SessionIsTrue == surface = "/signin" => SignIn!SessionIsTrue
=============================================================================
