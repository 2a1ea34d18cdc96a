--------------------------- MODULE TransferRecord ---------------------------
(***************************************************************************)
(* One transferRecord of the progress tracker (src/progress_tracker.go)    *)
(* and what each tracker operation does to it.  Times are left out and the *)
(* average of the speed samples is the bytes of the last one: nothing      *)
(* decides on either.  Percentages are whole numbers, exact for the totals *)
(* that divide 100 * bytes.                                                *)
(***************************************************************************)
EXTENDS Integers

CONSTANTS
  MediumTotal,  \* 1 MB: from here on progress is notified every 5 percent
  LargeTotal    \* 100 MB: from here on progress is notified every percent

Statuses == {"Initializing", "Transferring", "Paused", "Resuming",
             "Completed", "Failed", "Cancelled"}
Terminal == {"Completed", "Failed", "Cancelled"}

Record == [status : Statuses, total : Nat, bytes : Nat, percent : Nat,
           speed : Int,              \* CurrentSpeed
           notified : Nat,           \* LastNotifiedPercentage
           completionSent : BOOLEAN] \* CompletionNotified

Fresh(total) ==
  [status |-> "Initializing", total |-> total, bytes |-> 0, percent |-> 0,
   speed |-> 0, notified |-> 0, completionSent |-> FALSE]

ValidTransition(old, new) ==
  \/ old = "Initializing" /\ new \in {"Transferring", "Paused", "Failed", "Cancelled"}
  \/ old = "Transferring" /\ new \in {"Paused", "Completed", "Failed", "Cancelled"}
  \/ old = "Paused"       /\ new \in {"Resuming", "Failed", "Cancelled"}
  \/ old = "Resuming"     /\ new \in {"Transferring", "Paused", "Failed", "Cancelled"}
  \/ old \in {"Failed", "Cancelled"} /\ new = "Initializing"

(* Faulty variants of definitions below, one per property that rests on    *)
(* them: what TLC must reject if the code had the bug.                     *)

(* Any percentage above the last notified one is notified.                 *)
NotifyDue_EveryUpdate(r, percent) == percent >= r.notified

(* UpdateProgress accepts a transfer that is already complete.             *)
CanProgress_WhenCompleted(r) ==
  r.status \in {"Transferring", "Initializing", "Resuming", "Completed"}

-----------------------------------------------------------------------------

Percent(bytes, total) == IF total > 0 THEN (bytes * 100) \div total ELSE 0

NotifyThreshold(total) ==
  IF total < MediumTotal THEN 10 ELSE IF total < LargeTotal THEN 5 ELSE 1

NotifyDue(r, percent) ==
  \/ percent >= r.notified + NotifyThreshold(r.total)
  \/ percent >= 100 /\ ~r.completionSent

CanProgress(r) == r.status \in {"Transferring", "Initializing", "Resuming"}

Reaches(r, bytes) == r.total > 0 /\ bytes >= r.total

(* UpdateProgress of a record that CanProgress: it passes through          *)
(* Transferring and is completed as soon as the bytes reach the total.  A  *)
(* speed sample is taken when enough time has passed since the last one,   *)
(* against the byte count that has been stored just before.                *)
AfterProgress(r, bytes, sampled) ==
  LET percent == Percent(bytes, r.total)
      stored  == [r EXCEPT !.bytes = bytes]
  IN
  [status   |-> IF Reaches(r, bytes) THEN "Completed" ELSE "Transferring",
   total    |-> r.total,
   bytes    |-> bytes,
   percent  |-> IF Reaches(r, bytes) THEN 100 ELSE percent,
   speed    |-> IF sampled THEN bytes - stored.bytes ELSE r.speed,
   notified |-> IF NotifyDue(r, percent) THEN percent ELSE r.notified,
   completionSent |-> r.completionSent \/ Reaches(r, bytes)]

WithStatus(r, s) == [r EXCEPT !.status = s]

(* UpdateTotalSize looks at no status.                                     *)
WithTotal(r, total) ==
  [r EXCEPT !.total = total, !.percent = Percent(r.bytes, total)]

CanPause(r)  == r.status \in {"Transferring", "Initializing"}
CanResume(r) == r.status = "Paused"
CanFail(r)   == r.status \notin {"Completed", "Cancelled"}
CanCancel(r) == r.status \notin {"Completed", "Failed"}   \* by StopTracking

=============================================================================
