----------------------- MODULE ProgressTracker_proofs -----------------------
(***************************************************************************)
(* Theorems about ProgressTracker, for any set of transfers, any byte      *)
(* counts and totals, any number of runs and notifications in flight, and  *)
(* any thresholds.                                                         *)
(***************************************************************************)
EXTENDS ProgressTracker, TLAPS

USE SizesAssumption, BoundsAssumption, NoneAssumption

-----------------------------------------------------------------------------
(* What the operations make of a record.                                   *)

(* A new record is a record.                                               *)
LEMMA FreshRecord ==
  ASSUME NEW n \in Nat
  PROVE  /\ Fresh(n) \in Record
         /\ Fresh(n).status = "Initializing"
         /\ Fresh(n).notified = 0
         /\ Fresh(n).completionSent = FALSE
  BY DEF Fresh, Record, Statuses

(* Changing the status of a record gives a record.                         *)
LEMMA StatusRecord ==
  ASSUME NEW r \in Record, NEW s \in Statuses
  PROVE  /\ WithStatus(r, s) \in Record
         /\ WithStatus(r, s).status = s
         /\ WithStatus(r, s).notified = r.notified
         /\ WithStatus(r, s).completionSent = r.completionSent
  BY DEF WithStatus, Record

(* Percentages are natural numbers.                                        *)
LEMMA PercentNat ==
  ASSUME NEW bytes \in Nat, NEW total \in Nat
  PROVE  Percent(bytes, total) \in Nat
  BY DEF Percent

(* UpdateTotalSize turns a record into a record.                           *)
LEMMA TotalRecord ==
  ASSUME NEW r \in Record, NEW n \in Nat
  PROVE  /\ WithTotal(r, n) \in Record
         /\ WithTotal(r, n).status = r.status
         /\ WithTotal(r, n).notified = r.notified
         /\ WithTotal(r, n).completionSent = r.completionSent
<1>1. r.bytes \in Nat
  BY DEF Record
<1>2. Percent(r.bytes, n) \in Nat
  BY <1>1, PercentNat
<1> QED
  BY <1>2 DEF WithTotal, Record

(* The percentage reaches 100 exactly when the bytes reach the total.      *)
LEMMA FullPercent ==
  ASSUME NEW bytes \in Nat, NEW total \in Nat, Percent(bytes, total) >= 100
  PROVE  total > 0 /\ bytes >= total
<1>1. total > 0
  BY DEF Percent
<1>2. CASE bytes < total
  <2>1. bytes * 100 < 100 * total
    BY <1>2
  <2>2. (bytes * 100) \div total < 100
    BY <1>1, <2>1
  <2> QED
    BY <1>1, <2>2, PercentNat DEF Percent
<1> QED
  BY <1>1, <1>2

(* UpdateProgress turns a record into a record, and what it stores.        *)
LEMMA ProgressRecord ==
  ASSUME NEW r \in Record, NEW n \in Nat, NEW sampled \in BOOLEAN
  PROVE  /\ AfterProgress(r, n, sampled) \in Record
         /\ AfterProgress(r, n, sampled).status =
              IF Reaches(r, n) THEN "Completed" ELSE "Transferring"
         /\ AfterProgress(r, n, sampled).notified =
              IF NotifyDue(r, Percent(n, r.total)) THEN Percent(n, r.total)
              ELSE r.notified
         /\ AfterProgress(r, n, sampled).completionSent =
              (r.completionSent \/ Reaches(r, n))
<1>1. r.total \in Nat /\ r.notified \in Nat /\ r.speed \in Int
      /\ r.completionSent \in BOOLEAN
  BY DEF Record
<1>2. Percent(n, r.total) \in Nat
  BY <1>1, PercentNat
<1>3. [r EXCEPT !.bytes = n].bytes \in Int
  BY DEF Record
<1>4. Reaches(r, n) \in BOOLEAN
  BY DEF Reaches
<1> QED
  BY <1>1, <1>2, <1>3, <1>4 DEF AfterProgress, Record, Statuses

-----------------------------------------------------------------------------
(* The inductive invariant.  A run that has not completed has notified     *)
(* fewer than 100 percent: that leaves its last notification free.         *)

Throttled ==
  \A id \in Ids : Exists(id) =>
    /\ progressed[id] <= transfers[id].notified
    /\ ~transfers[id].completionSent => transfers[id].notified < 100

IInv == TypeOK /\ CompletesOnce /\ CompletionFlagTrue /\ Throttled

(* The operations that only move a record do so along the table, and never *)
(* move a completed one.                                                   *)
LegalMove(id, s) ==
  /\ Exists(id)
  /\ transfers[id].status # "Completed"
  /\ s = transfers[id].status \/ ValidTransition(transfers[id].status, s)
  /\ Move(id, s)

(* The operations that only change a status do so along the table.         *)
LEMMA MovesAreLegal ==
  ASSUME TypeOK, NEW id \in Ids,
         \/ \E s \in Statuses : UpdateStatus(id, s)
         \/ StopTracking(id) \/ PauseTracking(id) \/ ResumeTracking(id)
         \/ MarkFailed(id)
  PROVE  \E s \in Statuses : LegalMove(id, s)
<1> DEFINE old == transfers[id].status
<1>1. Exists(id)
  BY DEF UpdateStatus, StopTracking, PauseTracking, ResumeTracking, MarkFailed
<1>2. old \in Statuses
  BY <1>1 DEF TypeOK, Exists, Record
<1>3. ASSUME NEW s \in Statuses, UpdateStatus(id, s) PROVE LegalMove(id, s)
  BY <1>3 DEF UpdateStatus, LegalMove, ValidTransition
<1>4. CASE StopTracking(id)
  <2>1. LegalMove(id, "Cancelled")
    BY <1>2, <1>4 DEF StopTracking, CanCancel, LegalMove, ValidTransition, Statuses
  <2> QED
    BY <2>1 DEF Statuses
<1>5. CASE PauseTracking(id)
  <2>1. LegalMove(id, "Paused")
    BY <1>5 DEF PauseTracking, CanPause, LegalMove, ValidTransition
  <2> QED
    BY <2>1 DEF Statuses
<1>6. CASE ResumeTracking(id)
  <2>1. LegalMove(id, "Resuming")
    BY <1>6 DEF ResumeTracking, CanResume, LegalMove, ValidTransition
  <2> QED
    BY <2>1 DEF Statuses
<1>7. CASE MarkFailed(id)
  <2>1. LegalMove(id, "Failed")
    BY <1>2, <1>7 DEF MarkFailed, CanFail, LegalMove, ValidTransition, Statuses
  <2> QED
    BY <2>1 DEF Statuses
<1> QED
  BY <1>3, <1>4, <1>5, <1>6, <1>7

(* Every step is one of these seven.                                       *)
LEMMA StepCases ==
  ASSUME TypeOK, [Next]_vars
  PROVE  \/ \E id \in Ids, n \in Sizes : StartTracking(id, n)
         \/ \E id \in Ids, n \in Sizes, b \in BOOLEAN : UpdateProgress(id, n, b)
         \/ \E id \in Ids, n \in Sizes : UpdateTotalSize(id, n)
         \/ \E id \in Ids, s \in Statuses : LegalMove(id, s)
         \/ \E id \in Ids : Cleanup(id)
         \/ \E i \in 1..Len(pending) : Deliver(i)
         \/ AddCallback \/ UNCHANGED vars
  BY MovesAreLegal DEF Next

(* The initial state satisfies the inductive invariant.                    *)
LEMMA InitIInv == Init => IInv
<1> SUFFICES ASSUME Init PROVE IInv
  OBVIOUS
<1>1. TypeOK
  <2>1. transfers \in [Ids -> Record \cup {None}] /\ seen \in [Ids -> Statuses \cup {None}]
    BY DEF Init
  <2>2. pending \in Seq(Changes)
    BY DEF Init
  <2>3. runs \in [Ids -> Nat] /\ progressed \in [Ids -> Nat] /\ completed \in [Ids -> Nat]
    BY DEF Init
  <2> QED
    BY <2>1, <2>2, <2>3 DEF Init, TypeOK
<1>2. \A id \in Ids : ~Exists(id) /\ completed[id] = 0 /\ runs[id] = 0
  BY DEF Init, Exists
<1> QED
  BY <1>1, <1>2 DEF IInv, CompletesOnce, CompletionFlagTrue, Throttled

(* Notifying changes keeps the notifications in flight well typed.         *)
LEMMA NotifyType ==
  ASSUME TypeOK, NEW changes \in Seq(Changes), Notify(changes)
  PROVE  pending' \in Seq(Changes) /\ registered' \in BOOLEAN
<1>1. pending \in Seq(Changes) /\ registered \in BOOLEAN
  BY DEF TypeOK
<1>2. pending \o changes \in Seq(Changes)
  BY <1>1
<1> QED
  BY <1>1, <1>2 DEF Notify

(* Every operation keeps the variables within their types.                 *)
LEMMA TypeStep == IInv /\ [Next]_vars => TypeOK'
<1> SUFFICES ASSUME IInv, [Next]_vars PROVE TypeOK'
  OBVIOUS
<1> USE DEF IInv
<1>1. ASSUME NEW id \in Ids, NEW n \in Sizes, StartTracking(id, n) PROVE TypeOK'
  <2>1. \A s \in {"Cancelled", "Initializing"} :
          <<Change(id, s, "Initializing")>> \in Seq(Changes)
    BY DEF Change, Changes, Statuses
  <2>2. pending' \in Seq(Changes) /\ registered' \in BOOLEAN
    BY <1>1, <2>1, NotifyType DEF StartTracking
  <2>3. Fresh(n) \in Record
    BY FreshRecord
  <2> QED
    BY <1>1, <2>2, <2>3 DEF StartTracking, Store, TypeOK
<1>2. ASSUME NEW id \in Ids, NEW n \in Sizes, NEW b \in BOOLEAN, UpdateProgress(id, n, b)
      PROVE TypeOK'
  <2>1. transfers[id] \in Record /\ transfers[id].status \in Statuses
    BY <1>2 DEF UpdateProgress, Exists, TypeOK, Record
  <2>2. AfterProgress(transfers[id], n, b) \in Record
    BY <2>1, ProgressRecord
  <2> DEFINE started == IF transfers[id].status = "Transferring" THEN <<>>
                        ELSE <<Change(id, transfers[id].status, "Transferring")>>
             ended == IF Reaches(transfers[id], n)
                      THEN <<Change(id, "Transferring", "Completed")>> ELSE <<>>
  <2>3. Change(id, transfers[id].status, "Transferring") \in Changes
        /\ Change(id, "Transferring", "Completed") \in Changes
    BY <2>1 DEF Change, Changes, Statuses
  <2>4. started \in Seq(Changes) /\ ended \in Seq(Changes)
    BY <2>3
  <2>5. started \o ended \in Seq(Changes)
    BY <2>4
  <2>6. Notify(started \o ended)
    BY <1>2 DEF UpdateProgress
  <2>7. pending' \in Seq(Changes) /\ registered' \in BOOLEAN
    BY <2>5, <2>6, NotifyType
  <2> QED
    BY <1>2, <2>2, <2>7 DEF UpdateProgress, Store, TypeOK
<1>3. ASSUME NEW id \in Ids, NEW n \in Sizes, UpdateTotalSize(id, n) PROVE TypeOK'
  <2>1. transfers[id] \in Record
    BY <1>3 DEF UpdateTotalSize, Exists, TypeOK
  <2>2. WithTotal(transfers[id], n) \in Record
    BY <2>1, TotalRecord
  <2> QED
    BY <1>3, <2>2 DEF UpdateTotalSize, Store, TypeOK
<1>4. ASSUME NEW id \in Ids, NEW s \in Statuses, LegalMove(id, s) PROVE TypeOK'
  <2>1. transfers[id] \in Record /\ transfers[id].status \in Statuses
    BY <1>4 DEF LegalMove, Exists, TypeOK, Record
  <2>2. WithStatus(transfers[id], s) \in Record
    BY <2>1, StatusRecord
  <2>3. <<Change(id, transfers[id].status, s)>> \in Seq(Changes)
    BY <2>1 DEF Change, Changes
  <2>4. pending' \in Seq(Changes) /\ registered' \in BOOLEAN
    BY <1>4, <2>3, NotifyType DEF LegalMove, Move
  <2> QED
    BY <1>4, <2>2, <2>4 DEF LegalMove, Move, Store, TypeOK
<1>5. ASSUME NEW id \in Ids, Cleanup(id) PROVE TypeOK'
  BY <1>5 DEF Cleanup, Store, TypeOK
<1>6. ASSUME NEW i \in 1..Len(pending), Deliver(i) PROVE TypeOK'
  <2>1. pending \in Seq(Changes) /\ pending[i] \in Changes
    BY DEF TypeOK
  <2>2. pending[i].id \in Ids /\ pending[i].new \in Statuses
    BY <2>1 DEF Changes
  <2>3. RemoveAt(pending, i) \in Seq(Changes)
    BY <2>1 DEF RemoveAt
  <2> QED
    BY <1>6, <2>2, <2>3 DEF Deliver, TypeOK
<1>7. CASE AddCallback
  BY <1>7 DEF AddCallback, TypeOK
<1>8. CASE UNCHANGED vars
  BY <1>8 DEF vars, TypeOK
<1> QED
  BY <1>1, <1>2, <1>3, <1>4, <1>5, <1>6, <1>7, <1>8, StepCases

(* Every operation keeps completions at most one per run.                  *)
LEMMA CompletesOnceStep == IInv /\ [Next]_vars => CompletesOnce'
<1> SUFFICES ASSUME IInv, [Next]_vars PROVE CompletesOnce'
  OBVIOUS
<1> USE DEF IInv
<1>1. \A id \in Ids : runs[id] \in Nat /\ completed[id] \in Nat
  BY DEF TypeOK
<1>2. ASSUME NEW id \in Ids, NEW n \in Sizes, StartTracking(id, n) PROVE CompletesOnce'
  BY <1>1, <1>2, FreshRecord DEF StartTracking, Store, TypeOK, CompletesOnce, Exists
<1>3. ASSUME NEW id \in Ids, NEW n \in Sizes, NEW b \in BOOLEAN, UpdateProgress(id, n, b)
      PROVE CompletesOnce'
  <2>1. transfers[id] \in Record
    BY <1>3 DEF UpdateProgress, Exists, TypeOK
  <2>2. completed[id] < runs[id]
    BY <1>1, <1>3 DEF UpdateProgress, CanProgress, CompletesOnce
  <2>3. AfterProgress(transfers[id], n, b).status =
          IF Reaches(transfers[id], n) THEN "Completed" ELSE "Transferring"
    BY <2>1, ProgressRecord
  <2>4. transfers' = [transfers EXCEPT ![id] = AfterProgress(transfers[id], n, b)]
    BY <1>3 DEF UpdateProgress, Store
  <2>5. runs' = runs
        /\ completed' = [completed EXCEPT
             ![id] = IF Reaches(transfers[id], n) THEN @ + 1 ELSE @]
    BY <1>3 DEF UpdateProgress
  <2>6. ASSUME NEW m \in Ids
        PROVE  /\ completed'[m] <= runs'[m]
               /\ Exists(m)' /\ completed'[m] = runs'[m] => transfers'[m].status = "Completed"
    <3>1. CASE m = id
      BY <3>1, <2>2, <2>3, <2>4, <2>5, <1>1 DEF TypeOK
    <3>2. CASE m # id
      BY <3>2, <2>4, <2>5, <1>1 DEF TypeOK, CompletesOnce, Exists
    <3> QED
      BY <3>1, <3>2
  <2> QED
    BY <2>6 DEF CompletesOnce
<1>4. ASSUME NEW id \in Ids, NEW n \in Sizes, UpdateTotalSize(id, n) PROVE CompletesOnce'
  <2>1. WithTotal(transfers[id], n).status = transfers[id].status
    BY <1>4, TotalRecord DEF UpdateTotalSize, Exists, TypeOK
  <2> QED
    BY <1>4, <2>1 DEF UpdateTotalSize, Store, TypeOK, CompletesOnce, Exists
<1>5. ASSUME NEW id \in Ids, NEW s \in Statuses, LegalMove(id, s) PROVE CompletesOnce'
  BY <1>1, <1>5 DEF LegalMove, Move, Store, TypeOK, CompletesOnce, Exists
<1>6. ASSUME NEW id \in Ids, Cleanup(id) PROVE CompletesOnce'
  BY <1>6 DEF Cleanup, Store, TypeOK, CompletesOnce, Exists
<1>7. ASSUME NEW i \in 1..Len(pending), Deliver(i) PROVE CompletesOnce'
  BY <1>7 DEF Deliver, CompletesOnce, Exists
<1>8. CASE AddCallback
  BY <1>8 DEF AddCallback, CompletesOnce, Exists
<1>9. CASE UNCHANGED vars
  BY <1>9 DEF vars, CompletesOnce, Exists
<1> QED
  BY <1>2, <1>3, <1>4, <1>5, <1>6, <1>7, <1>8, <1>9, StepCases

(* Every operation keeps the completion flag to completed records.         *)
LEMMA FlagStep == IInv /\ [Next]_vars => CompletionFlagTrue'
<1> SUFFICES ASSUME IInv, [Next]_vars PROVE CompletionFlagTrue'
  OBVIOUS
<1> USE DEF IInv
<1>1. ASSUME NEW id \in Ids, NEW n \in Sizes, StartTracking(id, n) PROVE CompletionFlagTrue'
  BY <1>1, FreshRecord DEF StartTracking, Store, TypeOK, CompletionFlagTrue, Exists
<1>2. ASSUME NEW id \in Ids, NEW n \in Sizes, NEW b \in BOOLEAN, UpdateProgress(id, n, b)
      PROVE CompletionFlagTrue'
  <2> DEFINE r1 == AfterProgress(transfers[id], n, b)
  <2>1. transfers[id] \in Record
    BY <1>2 DEF UpdateProgress, Exists, TypeOK
  <2>2. transfers[id].completionSent = FALSE
    BY <1>2, <2>1 DEF UpdateProgress, CanProgress, CompletionFlagTrue, Record
  <2>3. r1.completionSent => r1.status = "Completed"
    <3>1. r1.completionSent = (transfers[id].completionSent \/ Reaches(transfers[id], n))
      BY <2>1, ProgressRecord
    <3>2. r1.status = IF Reaches(transfers[id], n) THEN "Completed" ELSE "Transferring"
      BY <2>1, ProgressRecord
    <3> HIDE DEF r1
    <3> QED
      BY <3>1, <3>2, <2>2
  <2> QED
    BY <1>2, <2>3 DEF UpdateProgress, Store, TypeOK, CompletionFlagTrue, Exists
<1>3. ASSUME NEW id \in Ids, NEW n \in Sizes, UpdateTotalSize(id, n)
      PROVE CompletionFlagTrue'
  <2> DEFINE r1 == WithTotal(transfers[id], n)
  <2>1. r1.status = transfers[id].status
        /\ r1.completionSent = transfers[id].completionSent
    BY <1>3, TotalRecord DEF UpdateTotalSize, Exists, TypeOK
  <2> QED
    BY <1>3, <2>1 DEF UpdateTotalSize, Store, TypeOK, CompletionFlagTrue, Exists
<1>4. ASSUME NEW id \in Ids, NEW s \in Statuses, LegalMove(id, s) PROVE CompletionFlagTrue'
  <2> DEFINE r1 == WithStatus(transfers[id], s)
  <2>1. transfers[id] \in Record
    BY <1>4 DEF LegalMove, Exists, TypeOK
  <2>2. ~transfers[id].completionSent
    BY <1>4 DEF LegalMove, CompletionFlagTrue
  <2>3. ~r1.completionSent
    BY <2>1, <2>2, StatusRecord
  <2> QED
    BY <1>4, <2>3 DEF LegalMove, Move, Store, TypeOK, CompletionFlagTrue, Exists
<1>5. ASSUME NEW id \in Ids, Cleanup(id) PROVE CompletionFlagTrue'
  BY <1>5 DEF Cleanup, Store, TypeOK, CompletionFlagTrue, Exists
<1>6. ASSUME NEW i \in 1..Len(pending), Deliver(i) PROVE CompletionFlagTrue'
  BY <1>6 DEF Deliver, CompletionFlagTrue, Exists
<1>7. CASE AddCallback
  BY <1>7 DEF AddCallback, CompletionFlagTrue, Exists
<1>8. CASE UNCHANGED vars
  BY <1>8 DEF vars, CompletionFlagTrue, Exists
<1> QED
  BY <1>1, <1>2, <1>3, <1>4, <1>5, <1>6, <1>7, <1>8, StepCases

(* Every operation keeps the notifications within the percentages.         *)
LEMMA ThrottleStep == IInv /\ [Next]_vars => Throttled'
<1> SUFFICES ASSUME IInv, [Next]_vars PROVE Throttled'
  OBVIOUS
<1> USE DEF IInv
<1>1. ASSUME NEW id \in Ids, NEW n \in Sizes, StartTracking(id, n) PROVE Throttled'
  <2> DEFINE r1 == Fresh(n)
  <2>1. r1.notified = 0
    BY FreshRecord
  <2>2. transfers' = [transfers EXCEPT ![id] = r1]
        /\ progressed' = [progressed EXCEPT ![id] = 0]
    BY <1>1 DEF StartTracking, Store
  <2> HIDE DEF r1
  <2> QED
    BY <2>1, <2>2 DEF TypeOK, Throttled, Exists
<1>2. ASSUME NEW id \in Ids, NEW n \in Sizes, NEW b \in BOOLEAN, UpdateProgress(id, n, b)
      PROVE Throttled'
  <2> DEFINE r == transfers[id]
             r1 == AfterProgress(r, n, b)
             p == Percent(n, r.total)
             more == IF NotifyDue(r, p) THEN progressed[id] + 1 ELSE progressed[id]
  <2>1. r \in Record /\ r.total \in Nat /\ r.notified \in Nat /\ progressed[id] \in Nat
    BY <1>2 DEF UpdateProgress, Exists, TypeOK, Record
  <2>2. r.completionSent = FALSE
    BY <1>2, <2>1 DEF UpdateProgress, CanProgress, CompletionFlagTrue, Record
  <2>3. progressed[id] <= r.notified /\ r.notified < 100
    BY <1>2, <2>2 DEF UpdateProgress, Throttled
  <2>4. p \in Nat
    BY <2>1, PercentNat
  <2>5. p >= 100 => Reaches(r, n)
    BY <2>1, FullPercent DEF Reaches
  <2>6. NotifyThreshold(r.total) \in Nat /\ NotifyThreshold(r.total) >= 1
    BY DEF NotifyThreshold
  <2>7. NotifyDue(r, p) => p >= r.notified + 1
    BY <2>1, <2>2, <2>3, <2>4, <2>6 DEF NotifyDue
  <2>8. r1.notified = (IF NotifyDue(r, p) THEN p ELSE r.notified)
        /\ (~r1.completionSent => ~Reaches(r, n))
    <3>1. r1.notified = IF NotifyDue(r, p) THEN p ELSE r.notified
      BY <2>1, ProgressRecord
    <3>2. r1.completionSent = (r.completionSent \/ Reaches(r, n))
      BY <2>1, ProgressRecord
    <3> QED
      BY <3>1, <3>2
  <2>9. more <= r1.notified /\ (~r1.completionSent => r1.notified < 100)
    BY <2>1, <2>3, <2>4, <2>5, <2>7, <2>8
  <2>10. transfers' = [transfers EXCEPT ![id] = r1]
         /\ progressed' = [progressed EXCEPT ![id] = more]
    BY <1>2 DEF UpdateProgress, Store
  <2> HIDE DEF r1, more
  <2> QED
    BY <2>9, <2>10 DEF TypeOK, Throttled, Exists
<1>3. ASSUME NEW id \in Ids, NEW n \in Sizes, UpdateTotalSize(id, n) PROVE Throttled'
  <2> DEFINE r1 == WithTotal(transfers[id], n)
  <2>1. r1.notified = transfers[id].notified
        /\ r1.completionSent = transfers[id].completionSent
    BY <1>3, TotalRecord DEF UpdateTotalSize, Exists, TypeOK
  <2> QED
    BY <1>3, <2>1 DEF UpdateTotalSize, Store, TypeOK, Throttled, Exists
<1>4. ASSUME NEW id \in Ids, NEW s \in Statuses, LegalMove(id, s) PROVE Throttled'
  <2> DEFINE r1 == WithStatus(transfers[id], s)
  <2>1. r1.notified = transfers[id].notified
        /\ r1.completionSent = transfers[id].completionSent
    BY <1>4, StatusRecord DEF LegalMove, Exists, TypeOK
  <2> QED
    BY <1>4, <2>1 DEF LegalMove, Move, Store, TypeOK, Throttled, Exists
<1>5. ASSUME NEW id \in Ids, Cleanup(id) PROVE Throttled'
  BY <1>5 DEF Cleanup, Store, TypeOK, Throttled, Exists
<1>6. ASSUME NEW i \in 1..Len(pending), Deliver(i) PROVE Throttled'
  BY <1>6 DEF Deliver, Throttled, Exists
<1>7. CASE AddCallback
  BY <1>7 DEF AddCallback, Throttled, Exists
<1>8. CASE UNCHANGED vars
  BY <1>8 DEF vars, Throttled, Exists
<1> QED
  BY <1>1, <1>2, <1>3, <1>4, <1>5, <1>6, <1>7, <1>8, StepCases

(* The invariant the theorems below rest on.                               *)
LEMMA Invariance == Spec => []IInv
<1>1. IInv /\ [Next]_vars => IInv'
  BY TypeStep, CompletesOnceStep, FlagStep, ThrottleStep DEF IInv
<1> QED
  BY InitIInv, <1>1, PTL DEF Spec

-----------------------------------------------------------------------------
(* The tracker's state is well typed in every reachable state.             *)
THEOREM TypeCorrect == Spec => []TypeOK
<1>1. IInv => TypeOK
  BY DEF IInv
<1> QED
  BY Invariance, <1>1, PTL

(* The callbacks of UpdateProgress hear of the completion of a run at most *)
(* once, and the record's completion flag tells the truth.                 *)
THEOREM CompletionCorrect == Spec => [](CompletesOnce /\ CompletionFlagTrue)
<1>1. IInv => CompletesOnce /\ CompletionFlagTrue
  BY DEF IInv
<1> QED
  BY Invariance, <1>1, PTL

(* UpdateProgress notifies at most once per percent of a run.              *)
THEOREM NotificationsThrottled == Spec => []ProgressThrottled
<1>1. IInv => ProgressThrottled
  <2> SUFFICES ASSUME IInv, NEW id \in Ids, Exists(id)
               PROVE  progressed[id] <= transfers[id].notified + 1
    BY DEF ProgressThrottled
  <2>1. progressed[id] \in Nat /\ transfers[id].notified \in Nat
    BY DEF IInv, TypeOK, Exists, Record
  <2> QED
    BY <2>1 DEF IInv, Throttled
<1> QED
  BY Invariance, <1>1, PTL

(* No operation moves a record off the table of isValidStatusTransition,   *)
(* except StartTracking, which reopens a completed transfer as a new run.  *)
THEOREM StatusesFollowGraph == Spec => StatusGraph
<1> DEFINE Graph == \A id \in Ids :
       LET old == transfers[id].status
           new == transfers[id]'.status
       IN  /\ Exists(id) /\ Exists(id)' /\ old # new =>
                \/ ValidTransition(old, new)
                \/ ValidTransition(old, "Transferring") /\ ValidTransition("Transferring", new)
                \/ old = "Completed" /\ new = "Initializing" /\ runs[id]' = runs[id] + 1
           /\ Exists(id) /\ ~Exists(id)' => old \in Terminal
<1>1. ASSUME IInv, [Next]_vars, NEW m \in Ids, Exists(m), Exists(m)',
             transfers[m].status # transfers[m]'.status
      PROVE  \/ ValidTransition(transfers[m].status, transfers[m]'.status)
             \/ /\ ValidTransition(transfers[m].status, "Transferring")
                /\ ValidTransition("Transferring", transfers[m]'.status)
             \/ /\ transfers[m].status = "Completed"
                /\ transfers[m]'.status = "Initializing"
                /\ runs[m]' = runs[m] + 1
  <2> USE <1>1 DEF IInv, TypeOK
  <2>1. ASSUME NEW id \in Ids, NEW n \in Sizes, StartTracking(id, n)
        PROVE  m = id /\ transfers[m]'.status = "Initializing"
               /\ runs[m]' = runs[m] + 1 /\ transfers[m].status \in Terminal
    BY <2>1, FreshRecord DEF StartTracking, Store, MayStart, Exists
  <2>2. ASSUME NEW id \in Ids, NEW n \in Sizes, NEW b \in BOOLEAN, UpdateProgress(id, n, b)
        PROVE  m = id /\ transfers[m].status \in {"Initializing", "Resuming", "Transferring"}
               /\ transfers[m]'.status \in {"Transferring", "Completed"}
    <3>1. m = id
      BY <2>2 DEF UpdateProgress, Store
    <3>2. transfers[m] \in Record
      BY DEF Exists
    <3>3. AfterProgress(transfers[m], n, b).status \in {"Transferring", "Completed"}
      <4>1. AfterProgress(transfers[m], n, b).status =
              IF Reaches(transfers[m], n) THEN "Completed" ELSE "Transferring"
        BY <3>2, ProgressRecord
      <4> QED
        BY <4>1
    <3>4. transfers[m]' = AfterProgress(transfers[m], n, b)
      BY <2>2, <3>1 DEF UpdateProgress, Store
    <3> QED
      BY <2>2, <3>1, <3>3, <3>4 DEF UpdateProgress, CanProgress
  <2>3. ASSUME NEW id \in Ids, NEW n \in Sizes, UpdateTotalSize(id, n) PROVE FALSE
    <3>1. WithTotal(transfers[id], n).status = transfers[id].status
      BY <2>3, TotalRecord DEF UpdateTotalSize, Exists
    <3> QED
      BY <2>3, <3>1 DEF UpdateTotalSize, Store
  <2>4. ASSUME NEW id \in Ids, NEW s \in Statuses, LegalMove(id, s)
        PROVE  ValidTransition(transfers[m].status, transfers[m]'.status)
    BY <2>4, StatusRecord DEF LegalMove, Move, Store, Exists
  <2>5. ASSUME NEW id \in Ids, Cleanup(id) PROVE FALSE
    BY <2>5 DEF Cleanup, Store, Exists
  <2>6. ASSUME NEW i \in 1..Len(pending), Deliver(i) PROVE FALSE
    BY <2>6 DEF Deliver
  <2>7. ~AddCallback /\ ~UNCHANGED vars
    BY DEF AddCallback, vars
  <2> QED
    BY <2>1, <2>2, <2>3, <2>4, <2>5, <2>6, <2>7, StepCases DEF ValidTransition, Terminal
<1>2. ASSUME IInv, [Next]_vars, NEW m \in Ids, Exists(m), ~Exists(m)'
      PROVE  transfers[m].status \in Terminal
  <2> USE <1>2 DEF IInv, TypeOK
  <2>1. ASSUME NEW id \in Ids, NEW n \in Sizes, StartTracking(id, n) PROVE FALSE
    BY <2>1, FreshRecord, NoneAssumption DEF StartTracking, Store, Exists
  <2>2. ASSUME NEW id \in Ids, NEW n \in Sizes, NEW b \in BOOLEAN, UpdateProgress(id, n, b)
        PROVE  FALSE
    <3>1. AfterProgress(transfers[id], n, b) \in Record
      BY <2>2, ProgressRecord DEF UpdateProgress, Exists
    <3> QED
      BY <2>2, <3>1, NoneAssumption DEF UpdateProgress, Store, Exists
  <2>3. ASSUME NEW id \in Ids, NEW n \in Sizes, UpdateTotalSize(id, n) PROVE FALSE
    <3>1. WithTotal(transfers[id], n) \in Record
      BY <2>3, TotalRecord DEF UpdateTotalSize, Exists
    <3> QED
      BY <2>3, <3>1, NoneAssumption DEF UpdateTotalSize, Store, Exists
  <2>4. ASSUME NEW id \in Ids, NEW s \in Statuses, LegalMove(id, s) PROVE FALSE
    <3>1. WithStatus(transfers[id], s) \in Record
      BY <2>4, StatusRecord DEF LegalMove, Exists
    <3> QED
      BY <2>4, <3>1, NoneAssumption DEF LegalMove, Move, Store, Exists
  <2>5. ASSUME NEW id \in Ids, Cleanup(id) PROVE transfers[m].status \in Terminal
    BY <2>5 DEF Cleanup, Store, Exists
  <2>6. ASSUME NEW i \in 1..Len(pending), Deliver(i) PROVE FALSE
    BY <2>6 DEF Deliver, Exists
  <2>7. ~AddCallback /\ ~UNCHANGED vars
    BY DEF AddCallback, vars, Exists
  <2> QED
    BY <2>1, <2>2, <2>3, <2>4, <2>5, <2>6, <2>7, StepCases
<1>3. IInv /\ [Next]_vars => Graph
  BY <1>1, <1>2
<1>4. Spec => [][Graph]_vars
  BY Invariance, <1>3, PTL DEF Spec
<1> QED
  BY <1>4 DEF StatusGraph
=============================================================================
