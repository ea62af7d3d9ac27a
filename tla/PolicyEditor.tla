---------------------------- MODULE PolicyEditor ----------------------------
(***************************************************************************)
(* The Policy tab of the admin console (features/admin) and the publishing  *)
(* of ranking weights behind it (admin_governance_service).  An admin edits *)
(* a draft of the live weights, simulates it and publishes what was         *)
(* simulated as a new version, on top of the version the tab has read.      *)
(* Admins publish side by side; calls and answers may be lost or late, and  *)
(* nothing keeps an admin from simulating again while a publish is open.    *)
(*                                                                         *)
(* Weights are opaque: the live ones, which publishing never changes, some  *)
(* that differ in routine fields, and some that also enable fairness.       *)
(***************************************************************************)
EXTENDS Naturals, Sequences, FiniteSets

CONSTANTS
    Admin,
    Routine, Fair,  \* weights an admin may type: without and with a fairness term
    LiveWeights,    \* live_weights: the engine's, from constraints.json
    Invalid,        \* a draft with a field that is no number
    MaxEdits,       \* bound: edits, unlocks and discards, of all admins
    MaxSimulations, \* bound: simulations, of all admins
    MaxPublishes,   \* bound: publishes and their retries, of all admins
    MaxTroubles     \* bound: tab changes, and reads and simulations that fail

PolicyAssumption ==
    /\ {MaxEdits, MaxSimulations, MaxPublishes, MaxTroubles} \subseteq Nat
    /\ Routine \cap Fair = {}
    /\ LiveWeights \in Routine /\ Invalid \notin Routine \cup Fair

VARIABLES
    tab,            \* PolicyEditor's state, for each admin
    reads,          \* GET /policy/active under way: asked when, and for what
    sims,           \* simulations under way
    publishes,      \* the publishes: what the tab and the server know of each
    versions,       \* policy_versions, in order: the last one is active
    edits, simulated, troubles

vars == <<tab, reads, sims, publishes, versions, edits, simulated, troubles>>

Idle == [kind |-> "idle"]
Result(w, vacuous) == [kind |-> "result", weights |-> w, vacuous |-> vacuous]

\* PolicyEditor as it mounts; a version of 0 is no active version.
Mounted == [load |-> "loading", version |-> 0, draft |-> LiveWeights, sim |-> Idle,
            publish |-> Idle, simFailed |-> FALSE, unlocked |-> FALSE, key |-> 0]

\* A read under way: whether it seeds the drafts, whether it ends a load, and
\* the newest version when it was asked.
Read(seeds, loads) == [seeds |-> seeds, loads |-> loads, asked |-> Len(versions)]

Init ==
    /\ tab = [a \in Admin |-> Mounted]
    /\ versions = << >>
    /\ reads = [a \in Admin |-> {Read(TRUE, TRUE)}]
    /\ sims = [a \in Admin |-> {}]
    /\ publishes = << >>
    /\ edits = 0 /\ simulated = 0 /\ troubles = 0
-----------------------------------------------------------------------------
(* The baseline.                                                            *)

\* refresh and the mount's read: the version that was active at some time since
\* it was asked; reads land in any order.
ReadLands(a, r) ==
    /\ reads' = [reads EXCEPT ![a] = @ \ {r}]
    /\ \E v \in r.asked .. Len(versions) :
           tab' = [tab EXCEPT ![a].version = v,
                              ![a].draft = IF r.seeds THEN LiveWeights ELSE @,
                              ![a].load = IF r.loads THEN "ready" ELSE @]
    /\ UNCHANGED <<sims, publishes, versions, edits, simulated, troubles>>

\* A failed read, of a refresh after a publish too, is the whole tab's.
ReadFails(a, r) ==
    /\ troubles < MaxTroubles /\ troubles' = troubles + 1
    /\ reads' = [reads EXCEPT ![a] = @ \ {r}]
    /\ tab' = [tab EXCEPT ![a].load = "failed"]
    /\ UNCHANGED <<sims, publishes, versions, edits, simulated>>

\* LoadFailed: Retry seeds the drafts again.
RetryLoad(a) ==
    /\ tab[a].load = "failed"
    /\ tab' = [tab EXCEPT ![a].load = "loading"]
    /\ reads' = [reads EXCEPT ![a] = @ \cup {Read(TRUE, TRUE)}]
    /\ UNCHANGED <<sims, publishes, versions, edits, simulated, troubles>>

\* AdminConsole unmounts a tab that is left: what is under way tells nobody.
LeaveTab(a) ==
    /\ troubles < MaxTroubles /\ troubles' = troubles + 1
    /\ tab' = [tab EXCEPT ![a] = Mounted]
    /\ reads' = [reads EXCEPT ![a] = {Read(TRUE, TRUE)}]
    /\ sims' = [sims EXCEPT ![a] = {}]
    /\ publishes' = [i \in DOMAIN publishes |->
                       IF publishes[i].by = a THEN [publishes[i] EXCEPT !.client = "closed"]
                       ELSE publishes[i]]
    /\ UNCHANGED <<versions, edits, simulated>>
-----------------------------------------------------------------------------
(* Editing and simulating.                                                  *)

\* An edit or an unlock retires what was published, and its key.
Cleared(t) == [t EXCEPT !.publish = IF @.kind = "done" THEN Idle ELSE @, !.key = 0]

\* buildProposedWeights: none from a draft that is no number.
Proposes(t) == t.draft # Invalid

\* onChange; the fairness field is there once it is unlocked.
Edit(a, w) ==
    /\ edits < MaxEdits /\ edits' = edits + 1
    /\ tab[a].load = "ready" /\ w # tab[a].draft
    /\ w \in Fair => tab[a].unlocked
    /\ tab' = [tab EXCEPT ![a] = [Cleared(@) EXCEPT !.draft = w]]
    /\ UNCHANGED <<reads, sims, publishes, versions, simulated, troubles>>

\* FairnessDangerDialog: unlocked for as long as the tab is mounted.
UnlockFairness(a) ==
    /\ edits < MaxEdits /\ edits' = edits + 1
    /\ tab[a].load = "ready" /\ ~ tab[a].unlocked
    /\ tab' = [tab EXCEPT ![a] = [Cleared(@) EXCEPT !.unlocked = TRUE]]
    /\ UNCHANGED <<reads, sims, publishes, versions, simulated, troubles>>

\* onSimulate, from the editor, or from the banner of one that failed.
Simulate(a) ==
    LET t == tab[a] IN
    /\ t.load = "ready" /\ simulated < MaxSimulations
    /\ t.sim.kind # "running" \/ t.simFailed
    /\ Proposes(t)
    /\ simulated' = simulated + 1
    /\ tab' = [tab EXCEPT ![a].simFailed = FALSE, ![a].publish = Idle, ![a].key = 0,
                          ![a].sim = [kind |-> "running"]]
    /\ sims' = [sims EXCEPT ![a] = @ \cup {[n |-> simulated, weights |-> t.draft]}]
    /\ UNCHANGED <<reads, publishes, versions, edits, troubles>>

\* Its answer, whatever the tab has turned to: it may have compared nothing.
SimulationLands(a, s) ==
    /\ sims' = [sims EXCEPT ![a] = @ \ {s}]
    /\ \E vacuous \in BOOLEAN : tab' = [tab EXCEPT ![a].sim = Result(s.weights, vacuous)]
    /\ UNCHANGED <<reads, publishes, versions, edits, simulated, troubles>>

SimulationFails(a, s) ==
    /\ troubles < MaxTroubles /\ troubles' = troubles + 1
    /\ sims' = [sims EXCEPT ![a] = @ \ {s}]
    /\ tab' = [tab EXCEPT ![a].sim = Idle, ![a].simFailed = TRUE]
    /\ UNCHANGED <<reads, publishes, versions, edits, simulated>>

StaleUnlessRetried(t) ==                 \* mutant of Stale
    t.publish.kind # "failed" /\ t.sim.weights # t.draft

\* stale: the drafts have moved on since the simulation.
Stale(t) == t.sim.weights # t.draft

\* onDiscard.
Discard(a) ==
    /\ edits < MaxEdits /\ edits' = edits + 1
    /\ tab[a].load = "ready" /\ tab[a].sim.kind = "result"
    /\ tab' = [tab EXCEPT ![a].draft = LiveWeights, ![a].sim = Idle, ![a].simFailed = FALSE,
                          ![a].publish = Idle, ![a].key = 0]
    /\ UNCHANGED <<reads, sims, publishes, versions, simulated, troubles>>
-----------------------------------------------------------------------------
(* Publishing.                                                              *)

\* SimulationResult's button, or the Retry of the banner of one that failed,
\* which asks less: neither that it compared something nor that none is open.
CanPublish(t) ==
    /\ t.load = "ready" /\ t.sim.kind = "result"
    /\ t.publish.kind = "failed" \/ (t.publish.kind # "busy" /\ ~ t.sim.vacuous)

\* onPublish: the simulated weights, on the version the tab has read, under the
\* key of the attempt that failed if nothing has changed since.
Publish(a) ==
    LET t == tab[a]
        key == IF t.key = 0 THEN Len(publishes) + 1 ELSE t.key IN
    /\ CanPublish(t) /\ ~ Stale(t) /\ Len(publishes) < MaxPublishes
    /\ tab' = [tab EXCEPT ![a].publish = [kind |-> "busy"], ![a].key = key]
    /\ publishes' = Append(publishes,
           [by |-> a, key |-> key, weights |-> t.sim.weights, base |-> t.version,
            shown |-> t.draft, unlocked |-> t.unlocked,
            client |-> "open", server |-> "asked", answer |-> Idle])
    /\ UNCHANGED <<reads, sims, versions, edits, simulated, troubles>>

At(i, phase, answer) ==
    publishes' = [publishes EXCEPT ![i].server = phase, ![i].answer = answer]

Done(v) == [kind |-> "done", version |-> v]

\* publish_policy_version looks the key up; a version found is told again.
LookUpKey(i) ==
    /\ publishes[i].server = "asked"
    /\ LET replay == {v \in DOMAIN versions : versions[v].key = publishes[i].key} IN
       IF replay = {} THEN At(i, "looked up", Idle)
       ELSE At(i, "answered", Done(CHOOSE v \in replay : TRUE))
    /\ UNCHANGED <<tab, reads, sims, versions, edits, simulated, troubles>>

\* With the active row locked: the version published upon is still the active one.
OnItsBaseline(i) == publishes[i].base = Len(versions)

\* The rest of it, one publish at a time: a new active version, or a refusal.
\* Of two first publishes at once the later breaks the index of one active row.
WriteVersion(i) ==
    LET p == publishes[i] IN
    /\ p.server = "looked up"
    /\ IF OnItsBaseline(i)
          THEN /\ versions' = Append(versions, [weights |-> p.weights, by |-> p.by, key |-> p.key,
                                                publish |-> i, base |-> p.base])
               /\ At(i, "answered", Done(Len(versions) + 1))
          ELSE /\ \E kind \in IF p.base = 0 THEN {"conflict", "failed"} ELSE {"conflict"} :
                      At(i, "answered", [kind |-> kind])
               /\ UNCHANGED versions
    /\ UNCHANGED <<tab, reads, sims, edits, simulated, troubles>>

\* onPublish's end: published, or refused for its baseline; the simulation goes
\* and the active version is read again.
PublishEnds(i) ==
    LET p == publishes[i] IN
    /\ p.client = "open" /\ p.server = "answered" /\ p.answer.kind # "failed"
    /\ publishes' = [publishes EXCEPT ![i].client = "closed"]
    /\ tab' = [tab EXCEPT ![p.by].publish = p.answer, ![p.by].sim = Idle, ![p.by].key = 0]
    /\ reads' = [reads EXCEPT ![p.by] = @ \cup {Read(FALSE, FALSE)}]
    /\ UNCHANGED <<sims, versions, edits, simulated, troubles>>

\* The call failed: refused otherwise, or lost on its way there or back.  The
\* key is kept.
PublishFails(i) ==
    LET p == publishes[i] IN
    /\ p.client = "open"
    /\ \E server \in {p.server, IF p.server = "asked" THEN "lost" ELSE p.server} :
           publishes' = [publishes EXCEPT ![i].client = "closed", ![i].server = server]
    /\ tab' = [tab EXCEPT ![p.by].publish = [kind |-> "failed"]]
    /\ UNCHANGED <<reads, sims, versions, edits, simulated, troubles>>

\* PublishConflict.
DismissConflict(a) ==
    /\ tab[a].load = "ready" /\ tab[a].publish.kind = "conflict"
    /\ tab' = [tab EXCEPT ![a].publish = Idle]
    /\ UNCHANGED <<reads, sims, publishes, versions, edits, simulated, troubles>>

Editing(a) ==
    \/ \E r \in reads[a] : ReadLands(a, r) \/ ReadFails(a, r)
    \/ RetryLoad(a) \/ LeaveTab(a)
    \/ (\E w \in Routine \cup Fair \cup {Invalid} : Edit(a, w)) \/ UnlockFairness(a)
    \/ Simulate(a) \/ (\E s \in sims[a] : SimulationLands(a, s) \/ SimulationFails(a, s))
    \/ Discard(a) \/ Publish(a) \/ DismissConflict(a)

Publishing(i) == LookUpKey(i) \/ WriteVersion(i) \/ PublishEnds(i) \/ PublishFails(i)

Next ==
    \/ \E a \in Admin : Editing(a)
    \/ \E i \in DOMAIN publishes : Publishing(i)

Spec == Init /\ [][Next]_vars
-----------------------------------------------------------------------------
\* What is published is what was decided: the weights on the screen when Publish
\* was pressed are the ones that were simulated, fairness was unlocked if they
\* enable it, and nobody's version is passed over: each stands on the version
\* its admin had before him, however calls were lost, repeated or crossed.  And
\* it counts once: no two versions come of one key, and a tab that says it is
\* done names the version its own publish made.
PublishedAsDecided ==
    /\ \A v \in DOMAIN versions :
           LET p == publishes[versions[v].publish] IN
           /\ p.weights = p.shown
           /\ p.weights \in Fair => p.unlocked
           /\ p.base = v - 1
    /\ \A v, w \in DOMAIN versions : versions[v].key = versions[w].key => v = w
    /\ \A a \in Admin : tab[a].publish.kind = "done" => versions[tab[a].publish.version].by = a
=============================================================================
