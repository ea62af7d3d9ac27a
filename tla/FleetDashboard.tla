---------------------------- MODULE FleetDashboard ----------------------------
(***************************************************************************)
(* The carrier portal (features/carrier): a dashboard of sections that are  *)
(* read together and answer, or fail, each for itself, and the screen of    *)
(* one shipment.  The carrier may refresh, change the filter or ask one     *)
(* section again while earlier loads are still under way: nothing is        *)
(* cancelled, and each section takes the answer to its newest request only. *)
(*                                                                         *)
(* The sparkline of the overview, which comes and goes without a word, and  *)
(* what an empty list says of itself are left out.                          *)
(***************************************************************************)
EXTENDS Naturals, Sequences, FiniteSets

CONSTANTS
    Section,        \* the dashboard's: some of overview, shipments and exceptions
    Filter,         \* the status filter's values
    All,            \* no filter
    MaxLoads,       \* bound: loads of the dashboard and visits to a shipment's screen
    MaxNow          \* bound: the server's clock

FleetAssumption ==
    /\ {MaxLoads, MaxNow} \subseteq Nat
    /\ All \in Filter /\ "shipments" \in Section

VARIABLES
    shown,          \* each section: its data and whether its newest request failed
    filter,         \* statusFilter
    loads,          \* the loads, in order, with what each still waits for
    lastUpdated,    \* as_of of the last load with an answer, 0 for none
    staleSince,     \* the page's stale notice, 0 for none
    waited,         \* how long something has been in flight: 1 skeletons, 2 Retry
    detail,         \* the shipment's screen
    opens, now

dashboard == <<shown, filter, loads, lastUpdated, staleSince, waited>>
vars == <<dashboard, detail, opens, now>>

NoData == [filter |-> All, asOf |-> 0]
Away == [open |-> FALSE, state |-> "loading", asked |-> FALSE]

\* One load: what it asks for and since when, what it waits for, what it got.
Begun(f, sections) ==
    [filter |-> f, asked |-> now, sections |-> sections, left |-> sections, newest |-> 0,
     failed |-> FALSE, open |-> TRUE]

Init ==
    /\ shown = [s \in Section |-> [data |-> NoData, failed |-> FALSE]]
    /\ filter = All
    /\ now = 1
    /\ loads = <<Begun(All, Section)>>
    /\ lastUpdated = 0 /\ staleSince = 0 /\ waited = 0
    /\ detail = Away /\ opens = 0
-----------------------------------------------------------------------------
InFlight == \E i \in DOMAIN loads : loads[i].open
HasData(s) == shown[s].data.asOf # 0

\* load.
Load(f, sections) ==
    /\ Len(loads) + opens < MaxLoads
    /\ loads' = Append(loads, Begun(f, sections))
    /\ UNCHANGED <<shown, lastUpdated, staleSince, waited, detail, opens, now>>

OnDashboard == ~ detail.open

\* The filter, and what asks again for what it is set to.
SetStatusFilter(f) ==
    /\ OnDashboard /\ f # filter
    /\ filter' = f
    /\ Load(f, {"shipments"})

Refresh == OnDashboard /\ Load(filter, Section) /\ UNCHANGED filter

\* RegionFailedBlock stands where a section has failed and has nothing to show;
\* StalledRow, under skeletons that have been there for long.
OffersRetry(s) == ~ HasData(s) /\ (shown[s].failed \/ (s = "shipments" /\ InFlight /\ waited = 2))

RetrySection(s) ==
    /\ OnDashboard /\ s # "overview" /\ OffersRetry(s)
    /\ Load(filter, {s}) /\ UNCHANGED filter

NewestOfItsFilter(i, s) ==               \* mutant of Newest
    \A j \in (i + 1) .. Len(loads) : s \in loads[j].sections => loads[j].filter # loads[i].filter

\* The section's own sequence: no later load has asked for it.
Newest(i, s) == \A j \in (i + 1) .. Len(loads) : s \notin loads[j].sections

\* A section's answer, of some time since it was asked; an older one is dropped.
SectionAnswers(i, s) ==
    /\ s \in loads[i].left
    /\ \E asOf \in loads[i].asked .. now :
           IF Newest(i, s)
              THEN /\ shown' = [shown EXCEPT ![s] = [data |-> [filter |-> loads[i].filter, asOf |-> asOf],
                                                     failed |-> FALSE]]
                   /\ loads' = [loads EXCEPT ![i].left = @ \ {s},
                                             ![i].newest = IF asOf > @ THEN asOf ELSE @]
              ELSE /\ loads' = [loads EXCEPT ![i].left = @ \ {s}]
                   /\ UNCHANGED shown
    /\ UNCHANGED <<filter, lastUpdated, staleSince, waited, detail, opens, now>>

\* A section fails; what it had stays on the screen.
SectionFails(i, s) ==
    /\ s \in loads[i].left
    /\ loads' = [loads EXCEPT ![i].left = @ \ {s}, ![i].failed = @ \/ Newest(i, s)]
    /\ shown' = IF Newest(i, s) THEN [shown EXCEPT ![s].failed = TRUE] ELSE shown
    /\ UNCHANGED <<filter, lastUpdated, staleSince, waited, detail, opens, now>>

\* The end of load: the page's time, and its notice if nothing of it came.
LoadEnds(i) ==
    LET l == loads[i] IN
    /\ l.open /\ l.left = {}
    /\ loads' = [loads EXCEPT ![i].open = FALSE]
    /\ lastUpdated' = IF l.newest # 0 THEN l.newest ELSE lastUpdated
    /\ staleSince' = IF l.failed /\ l.newest = 0 THEN lastUpdated ELSE 0
    /\ waited' = IF \E j \in DOMAIN loads \ {i} : loads[j].open THEN waited ELSE 0
    /\ UNCHANGED <<shown, filter, detail, opens, now>>

\* SKELETON_AFTER_MS and STALLED_AFTER_MS.
Wait ==
    /\ InFlight /\ waited < 2
    /\ waited' = waited + 1
    /\ UNCHANGED <<shown, filter, loads, lastUpdated, staleSince, detail, opens, now>>
-----------------------------------------------------------------------------
(* CarrierShipmentDetail; the dashboard's loads go on behind it.            *)

OpenShipment ==
    /\ OnDashboard /\ HasData("shipments") /\ Len(loads) + opens < MaxLoads
    /\ opens' = opens + 1
    /\ detail' = [open |-> TRUE, state |-> "loading", asked |-> TRUE]
    /\ UNCHANGED <<dashboard, now>>

\* fetchShipmentDetail's answers: found, refused as out of scope, or failed.
DetailAnswers(state) ==
    /\ detail.open /\ detail.asked
    /\ detail' = [detail EXCEPT !.state = state, !.asked = FALSE]
    /\ UNCHANGED <<dashboard, opens, now>>

\* Its Retry shows the skeleton again, and asks for nothing.
RetryDetail ==
    /\ detail.open /\ detail.state = "failed"
    /\ detail' = [detail EXCEPT !.state = "loading"]
    /\ UNCHANGED <<dashboard, opens, now>>

BackToDashboard ==
    /\ detail.open
    /\ detail' = Away
    /\ UNCHANGED <<dashboard, opens, now>>

Tick == now < MaxNow /\ now' = now + 1 /\ UNCHANGED <<dashboard, detail, opens>>

Carrier ==
    \/ (\E f \in Filter : SetStatusFilter(f)) \/ Refresh \/ (\E s \in Section : RetrySection(s))
    \/ OpenShipment \/ RetryDetail \/ BackToDashboard

Answers ==
    \/ \E i \in DOMAIN loads :
           \/ \E s \in Section : SectionAnswers(i, s) \/ SectionFails(i, s)
           \/ LoadEnds(i)
    \/ \E state \in {"ready", "refused", "failed"} : DetailAnswers(state)

Next == Carrier \/ Answers \/ Wait \/ Tick

Spec == Init /\ [][Next]_vars
-----------------------------------------------------------------------------
\* Once nothing is under way, the shipments on the screen are those of the
\* filter that is set unless they failed; and the page is never newer, by its
\* own account, than what is on it: loads that finish in any order do not put
\* older data back.
FleetIsCurrent ==
    /\ ~ InFlight /\ ~ shown["shipments"].failed => shown["shipments"].data.filter = filter
    /\ lastUpdated = 0 \/ \E s \in Section : shown[s].data.asOf >= lastUpdated
=============================================================================
