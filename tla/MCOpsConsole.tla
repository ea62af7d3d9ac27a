---------------------------- MODULE MCOpsConsole ----------------------------
(* Small instances of the console and its co-pilot: two coordinators, two   *)
(* drivers' threads, a case on each, and room for more.                     *)
EXTENDS OpsCopilot, TLC

CONSTANTS me, other, t1, t2, r1, r2

OpenCase(t, r) == [status |-> "OPEN", owner |-> None, thread |-> t, reason |-> r, day |-> 0]
OwnedCase(t, r) == [status |-> "ACKNOWLEDGED", owner |-> me, thread |-> t, reason |-> r, day |-> 0]
Presses == [case |-> 2, talk |-> 3, recover |-> 2, raise |-> 3, advise |-> 1]
Clicks == [case |-> 2, talk |-> 1, recover |-> 1, raise |-> 2, advise |-> 2]
TwoCases == 1 :> OpenCase(t1, r1) @@ 2 :> OwnedCase(t2, r1)
CaseAndIncident == 1 :> OpenCase(t1, r1) @@ 2 :> OwnedCase(t2, r2)
Cases == [k \in Errand |-> IF k = "advise" THEN CaseAndIncident ELSE TwoCases]
=============================================================================
