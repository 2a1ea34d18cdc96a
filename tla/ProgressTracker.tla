--------------------------- MODULE ProgressTracker ---------------------------
(***************************************************************************)
(* The progress tracker (src/progress_tracker.go): a table of transfer     *)
(* records behind one mutex, and a callback that every operation notifies, *)
(* once it is registered, in goroutines of their own, so that the          *)
(* notifications run in any order.  Operations come from any goroutine in  *)
(* any order.                                                              *)
(***************************************************************************)
EXTENDS TransferRecord, Sequences, SequencesExt

CONSTANTS
  Ids,         \* transfer IDs
  Sizes,       \* byte counts the callers pass
  MaxPending,  \* bound: status notifications whose goroutine has not run
  MaxRuns,     \* bound: runs of a transfer (StartTracking that succeeds)
  None         \* no record

ASSUME SizesAssumption == Sizes \subseteq Nat
ASSUME BoundsAssumption == MaxPending \in Nat /\ MaxRuns \in Nat
ASSUME NoneAssumption == None \notin Record

VARIABLES
  transfers,  \* t.transfers: the record of each ID, or None
  registered, \* AddCallback has added the callback
  pending,    \* status notifications in flight, in the order they were sent
  seen,       \* the status the callback was last told, per ID
  runs,       \* history: how often StartTracking started each ID
  progressed, \* history: progress notifications since that start
  completed   \* history: completion notifications, all runs

vars == <<transfers, registered, pending, seen, runs, progressed, completed>>

Change(id, old, new) == [id |-> id, old |-> old, new |-> new]

Init ==
  /\ transfers = [id \in Ids |-> None]
  /\ registered = FALSE
  /\ pending = <<>>
  /\ seen = [id \in Ids |-> None]
  /\ runs = [id \in Ids |-> 0]
  /\ progressed = [id \in Ids |-> 0]
  /\ completed = [id \in Ids |-> 0]

Exists(id) == transfers[id] # None

(* What every operation does: store the record, notify the changes.        *)
Store(id, r) == transfers' = [transfers EXCEPT ![id] = r]
Notify(changes) ==
  /\ IF registered THEN Len(pending) + Len(changes) <= MaxPending
                      /\ pending' = pending \o changes
                   ELSE pending' = pending
  /\ registered' = registered

-----------------------------------------------------------------------------
(* Faulty variants, one per property: TLC must reject them.                *)

(* Pause forgets to check the status.                                      *)
PauseTracking_Unchecked(id) ==
  /\ Exists(id)
  /\ Store(id, WithStatus(transfers[id], "Paused"))
  /\ Notify(<<Change(id, transfers[id].status, "Paused")>>)
  /\ UNCHANGED <<seen, runs, progressed, completed>>

(* UpdateTotalSize takes the new size from a record that may be missing.   *)
UpdateTotalSize_Unchecked(id, total) ==
  /\ Store(id, [status |-> "Initializing", total |-> total])
  /\ UNCHANGED <<registered, pending, seen, runs, progressed, completed>>

-----------------------------------------------------------------------------

AddCallback ==
  /\ registered' = TRUE
  /\ UNCHANGED <<transfers, pending, seen, runs, progressed, completed>>

MayStart(id) == Exists(id) => transfers[id].status \in Terminal

(* A record is created, or a finished one reset; the notification of a     *)
(* reset always names Cancelled as the old status.                         *)
StartTracking(id, total) ==
  /\ runs[id] < MaxRuns
  /\ MayStart(id)
  /\ Store(id, Fresh(total))
  /\ Notify(<<Change(id, IF Exists(id) THEN "Cancelled" ELSE "Initializing",
                     "Initializing")>>)
  /\ runs' = [runs EXCEPT ![id] = @ + 1]
  /\ progressed' = [progressed EXCEPT ![id] = 0]
  /\ UNCHANGED <<seen, completed>>

UpdateProgress(id, bytes, sampled) ==
  LET r == transfers[id] IN
  /\ Exists(id)
  /\ CanProgress(r)
  /\ Store(id, AfterProgress(r, bytes, sampled))
  /\ Notify((IF r.status = "Transferring" THEN <<>>
             ELSE <<Change(id, r.status, "Transferring")>>)
            \o (IF Reaches(r, bytes) THEN <<Change(id, "Transferring", "Completed")>>
                ELSE <<>>))
  /\ progressed' = [progressed EXCEPT
       ![id] = IF NotifyDue(r, Percent(bytes, r.total)) THEN @ + 1 ELSE @]
  /\ completed' = [completed EXCEPT ![id] = IF Reaches(r, bytes) THEN @ + 1 ELSE @]
  /\ UNCHANGED <<seen, runs>>

(* The operations that only move a record from one status to another.      *)
Move(id, status) ==
  /\ Store(id, WithStatus(transfers[id], status))
  /\ Notify(<<Change(id, transfers[id].status, status)>>)
  /\ UNCHANGED <<seen, runs, progressed, completed>>

UpdateStatus(id, status) ==
  /\ Exists(id)
  /\ ValidTransition(transfers[id].status, status)
  /\ Move(id, status)

(* Stopping a cancelled transfer cancels and notifies it again.            *)
StopTracking(id) ==
  /\ Exists(id)
  /\ CanCancel(transfers[id])
  /\ Move(id, "Cancelled")

PauseTracking(id) ==
  /\ Exists(id)
  /\ CanPause(transfers[id])
  /\ Move(id, "Paused")

ResumeTracking(id) ==
  /\ Exists(id)
  /\ CanResume(transfers[id])
  /\ Move(id, "Resuming")

MarkFailed(id) ==
  /\ Exists(id)
  /\ CanFail(transfers[id])
  /\ Move(id, "Failed")

UpdateTotalSize(id, total) ==
  /\ Exists(id)
  /\ Store(id, WithTotal(transfers[id], total))
  /\ UNCHANGED <<registered, pending, seen, runs, progressed, completed>>

(* The history cleaner deletes a finished record when it is old enough.    *)
Cleanup(id) ==
  /\ Exists(id)
  /\ transfers[id].status \in Terminal
  /\ Store(id, None)
  /\ UNCHANGED <<registered, pending, seen, runs, progressed, completed>>

(* The goroutine of any notification runs the callback.                    *)
Deliver(i) ==
  /\ seen' = [seen EXCEPT ![pending[i].id] = pending[i].new]
  /\ pending' = RemoveAt(pending, i)
  /\ UNCHANGED <<transfers, registered, runs, progressed, completed>>

Next ==
  \/ AddCallback
  \/ \E id \in Ids :
       \/ \E n \in Sizes : \/ StartTracking(id, n) \/ UpdateTotalSize(id, n)
                           \/ \E sampled \in BOOLEAN : UpdateProgress(id, n, sampled)
       \/ \E s \in Statuses : UpdateStatus(id, s)
       \/ StopTracking(id) \/ PauseTracking(id) \/ ResumeTracking(id)
       \/ MarkFailed(id) \/ Cleanup(id)
  \/ \E i \in 1..Len(pending) : Deliver(i)

Spec == Init /\ [][Next]_vars

-----------------------------------------------------------------------------
(* Properties.                                                             *)

Changes == [id : Ids, old : Statuses, new : Statuses]

(* The table holds records and the notifications are about its IDs.        *)
TypeOK ==
  /\ transfers \in [Ids -> Record \cup {None}]
  /\ registered \in BOOLEAN
  /\ pending \in Seq(Changes)
  /\ seen \in [Ids -> Statuses \cup {None}]
  /\ runs \in [Ids -> Nat]
  /\ progressed \in [Ids -> Nat]
  /\ completed \in [Ids -> Nat]

(* OnComplete is sent at most once per run of a transfer, whatever is      *)
(* called in between: pauses, failures, retries, new totals, late updates. *)
CompletesOnce ==
  \A id \in Ids :
    /\ completed[id] <= runs[id]
    /\ Exists(id) /\ completed[id] = runs[id] => transfers[id].status = "Completed"

(* The record remembers having sent OnComplete exactly while it is         *)
(* completed, so that a new run reports its own progress and completion.   *)
CompletionFlagTrue ==
  \A id \in Ids : Exists(id) /\ transfers[id].completionSent =>
    transfers[id].status = "Completed"

(* A run sends OnProgress at most once per percent and once at the end,    *)
(* whatever byte counts are reported and however the total changes: the    *)
(* callbacks are not flooded.                                              *)
ProgressThrottled ==
  \A id \in Ids : Exists(id) => progressed[id] <= transfers[id].notified + 1

(* Every status change of a record follows the transition table of         *)
(* isValidStatusTransition, directly or through Transferring, except that  *)
(* StartTracking may restart a completed transfer; and the record of an    *)
(* active transfer never disappears under its callers.                     *)
StatusGraph ==
  [][\A id \in Ids :
       LET old == transfers[id].status
           new == transfers[id]'.status
       IN  /\ Exists(id) /\ Exists(id)' /\ old # new =>
                \/ ValidTransition(old, new)
                \/ ValidTransition(old, "Transferring") /\ ValidTransition("Transferring", new)
                \/ old = "Completed" /\ new = "Initializing" /\ runs[id]' = runs[id] + 1
           /\ Exists(id) /\ ~Exists(id)' => old \in Terminal]_vars

==============================================================================
