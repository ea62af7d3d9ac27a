------------------------------ MODULE AuditLog ------------------------------
(***************************************************************************)
(* Two tabs of the admin console (features/admin): the audit log with its  *)
(* export, and the facility rules.  Each is a list behind filters; picking *)
(* a filter loads the list again, and an older load is neither aborted nor *)
(* ignored.                                                                *)
(***************************************************************************)
EXTENDS Naturals, Sequences, FiniteSets

CONSTANTS
    Filter, All,    \* the settings of the toolbar, and the one it opens with
    None,
    MaxLoads,       \* bound: loads of the list
    MaxCalls,       \* bound: exports asked for
    MaxTroubles     \* bound: entries recorded meanwhile

AuditAssumption ==
    /\ All \in Filter /\ None \notin Nat
    /\ {MaxLoads, MaxCalls, MaxTroubles} \subseteq Nat

VARIABLES
    list,           \* which of the two tabs it is: "audit" or "rules"
    recorded,       \* server: how many entries each setting finds
    filter,         \* the setting of the toolbar
    tab,            \* the list: its state, and the entries it got last
    loads,          \* the loads under way
    asked,          \* loads begun: the number of the newest
    files,          \* exports, in the order asked for
    banner,         \* the banner of a failed export
    late,           \* history: the answer heard last was not the newest load's
    troubles

table == <<filter, tab, loads, asked, late>>
exports == <<files, banner>>
vars == <<list, recorded, table, exports, troubles>>

Entries(f, n) == [of |-> f, rows |-> n]
Load(n, f) == [n |-> n, of |-> f, answer |-> None]

\* The list opens loading, with the default setting.
Init ==
    /\ list \in {"audit", "rules"}
    /\ recorded \in [Filter -> 0 .. 1]
    /\ filter = All
    /\ tab = [state |-> "loading", entries |-> Entries(All, 0)]
    /\ loads = {Load(1, All)} /\ asked = 1
    /\ files = << >> /\ banner = FALSE
    /\ late = FALSE /\ troubles = 0
-----------------------------------------------------------------------------
(* Loading the list.                                                        *)

\* load(): the entries of the last answer are kept under the skeleton.
Reload(f) ==
    /\ asked < MaxLoads
    /\ asked' = asked + 1
    /\ loads' = loads \cup {Load(asked + 1, f)}
    /\ tab' = [tab EXCEPT !.state = "loading"]
    /\ late' = FALSE

\* FilterSelect: a setting is picked, and the effect of [load, filters] runs.
PickFilter(f) ==
    /\ f # filter
    /\ filter' = f
    /\ Reload(f)
    /\ UNCHANGED <<list, recorded, exports, troubles>>

\* NoMatches: the way back from a setting that finds nothing.
ClearFilters ==
    /\ list = "audit" /\ tab.state = "ready" /\ tab.entries.rows = 0
    /\ PickFilter(All)

\* LoadFailed: the button of the region error.
TryAgain ==
    /\ tab.state = "failed"
    /\ Reload(filter)
    /\ UNCHANGED <<list, recorded, filter, exports, troubles>>

\* get_audit_log, list_facility_rules.
LoadAnswers(l) ==
    /\ l.answer = None
    /\ loads' = (loads \ {l}) \cup {[l EXCEPT !.answer = recorded[l.of]]}
    /\ UNCHANGED <<list, recorded, filter, tab, asked, late, exports, troubles>>

\* Whichever load answers, its entries are the list's.
LoadLands(l) ==
    /\ l.answer # None
    /\ loads' = loads \ {l}
    /\ tab' = [state |-> "ready", entries |-> Entries(l.of, l.answer)]
    /\ late' = (l.n # asked)
    /\ UNCHANGED <<list, recorded, filter, asked, exports, troubles>>

LoadFails(l) ==
    /\ loads' = loads \ {l}
    /\ tab' = [tab EXCEPT !.state = "failed"]
    /\ late' = (l.n # asked)
    /\ UNCHANGED <<list, recorded, filter, asked, exports, troubles>>
-----------------------------------------------------------------------------
(* The export of the audit log.                                             *)

CanExport == tab.state = "ready" /\ tab.entries.rows > 0

\* The rows the table shows that the file should have: those of the setting.
Shown == IF CanExport /\ ~ late THEN tab.entries.rows ELSE 0

\* onExport: the file is of the setting of this moment.
OnExport ==
    /\ Len(files) < MaxCalls
    /\ files' = Append(files, [of |-> filter, state |-> "asked", least |-> Shown, rows |-> None])
    /\ banner' = FALSE
    /\ UNCHANGED <<list, recorded, table, troubles>>

Export == list = "audit" /\ CanExport /\ OnExport

\* The banner's button asks whatever the table shows now.
RetryExport == banner /\ OnExport

\* export_audit_log, and the download of what it answers.
ExportLands(i) ==
    /\ files[i].state = "asked"
    /\ files' = [files EXCEPT ![i].state = "saved", ![i].rows = recorded[files[i].of]]
    /\ UNCHANGED <<list, recorded, table, banner, troubles>>

ExportFails(i) ==
    /\ files[i].state = "asked"
    /\ files' = [files EXCEPT ![i].state = "failed"]
    /\ banner' = TRUE
    /\ UNCHANGED <<list, recorded, table, troubles>>

\* _write_audit_entry: a write of anybody's is one more entry, for some settings.
WriteAuditEntry(found) ==
    /\ list = "audit" /\ troubles < MaxTroubles
    /\ recorded' = [f \in Filter |-> IF f \in found THEN recorded[f] + 1 ELSE recorded[f]]
    /\ troubles' = troubles + 1
    /\ UNCHANGED <<list, table, exports>>

Next ==
    \/ \E f \in Filter : PickFilter(f)
    \/ \E found \in SUBSET Filter : WriteAuditEntry(found)
    \/ ClearFilters \/ TryAgain \/ Export \/ RetryExport
    \/ \E l \in loads : LoadAnswers(l) \/ LoadLands(l) \/ LoadFails(l)
    \/ \E i \in DOMAIN files : ExportLands(i) \/ ExportFails(i)

Spec == Init /\ [][Next]_vars
-----------------------------------------------------------------------------
\* Unless an older load was heard after the newest, the table shows what its
\* toolbar says, and a file exported from it has every row it showed: its
\* button leads to no empty file (audit-tab.tsx: "so an admin never receives a
\* file and has to guess whether it's empty because nothing matched").
AuditIsTrue ==
    /\ tab.state = "ready" /\ ~ late => tab.entries.of = filter
    /\ \A i \in DOMAIN files : files[i].state = "saved" => files[i].rows >= files[i].least
=============================================================================
