---------------------------- MODULE MCDashboard ----------------------------
(* An instance of Dashboard for TLC: tracker t1 knows transfer a, nothing   *)
(* else is known.  One goroutine builds the dashboard up, the other one     *)
(* uses it and takes transfer a out of it.                                  *)
EXTENDS Dashboard, TLC

CONSTANTS a, b, p1, p2, t1, t2, g

AllIds == {a, b}
AllBegun ==
  {[t \in {t1, t2} |-> (a :> (IF t = t1 THEN "Transferring" ELSE "Absent") @@ b :> "Absent")]}

Adds == {c \in WriteCalls : c.op \in {"AddTracker", "AddToGroup"}}
               \ {[op |-> "AddTracker", id |-> b, tracker |-> t2]}
Removals == [op : {"RemoveTracker"}, id : {a}] \cup [op : {"RemoveFromGroup"}, group : {g}, id : {a}]
OnCallbacks == {c \in WriteCalls : c.op \in {"AddGlobalCallback", "RemoveGlobalCallback"}}

AllJobs == p1 :> (Adds \cup OnCallbacks) @@ p2 :> (GroupCalls \cup ReadCalls \cup Removals)

=============================================================================
