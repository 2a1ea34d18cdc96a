----------------------------- MODULE Dashboard -----------------------------
(***************************************************************************)
(* src/progress_dashboard.go: the trackers registered under transfer IDs,  *)
(* the groups of transfers, the global callbacks and the statistics, all   *)
(* behind one reader/writer lock, used by several goroutines.  A call is a *)
(* sequence of lock steps; what it does under the lock is one step, since  *)
(* nobody else sees the dashboard meanwhile.  The transfers go on changing *)
(* status in their trackers, which have locks of their own: a count asks   *)
(* each of them once, here all at the same moment.                         *)
(*                                                                         *)
(* Left out: bytes, speeds and times, on which no operation decides.       *)
(***************************************************************************)
EXTENDS RWMutex, Sequences, FiniteSets

CONSTANTS
  Ids, Groups, Trackers, Callbacks,
  NoTracker,  \* nothing is registered under an ID
  Begun,      \* what the trackers may hold when the dashboard is created
  Jobs,       \* the calls each goroutine makes
  MediumTotal, LargeTotal,
  MaxCalls,   \* bound: calls of the dashboard
  MaxMoves    \* bound: status changes made by the application

TR == INSTANCE TransferRecord

Statuses == TR!Statuses \cup {"Absent"}  \* Absent: the tracker has no record of it

VARIABLES
  status,     \* the status of every transfer in every tracker
  heard,      \* the callbacks each tracker notifies
  trackers,   \* the tracker registered under each ID
  groups,     \* the transfers of each group (transferGroups)
  globals,    \* globalCallbacks, of which only the members matter
  stats,      \* TotalTransfers and the number of transfers by status
  lock,       \* mu
  call,       \* the call each goroutine is in, where it stands, its locals
  calls, moves

registry == <<heard, trackers, groups, globals, stats>>
bounds == <<calls, moves>>
vars == <<status, registry, lock, call, bounds>>

Active == {"Transferring", "Initializing", "Resuming"}
Stats == [total : Int, active : Int, completed : Int, failed : Int, paused : Int, cancelled : Int]
NoStats == [total |-> 0, active |-> 0, completed |-> 0, failed |-> 0, paused |-> 0, cancelled |-> 0]

(* The calls with their arguments, by the way they use the lock.           *)
WriteCalls ==
  [op : {"AddTracker"}, id : Ids, tracker : Trackers]
  \cup [op : {"RemoveTracker"}, id : Ids]
  \cup [op : {"AddToGroup", "RemoveFromGroup"}, group : Groups, id : Ids]
  \cup [op : {"AddGlobalCallback", "RemoveGlobalCallback"}, callback : Callbacks]
GroupCalls == [op : {"PauseGroup", "ResumeGroup", "CancelGroup"}, group : Groups]
ReadCalls == [op : {"GetStats"}] \cup [op : {"GetGroupStats"}, group : Groups]
Calls == WriteCalls \cup GroupCalls \cup ReadCalls

ASSUME SetsAssumption ==
  /\ IsFiniteSet(Ids) /\ NoTracker \notin Trackers /\ Nobody \notin Procs
  /\ Begun \subseteq [Trackers -> [Ids -> Statuses]]
  /\ Jobs \in [Procs -> SUBSET Calls]

Idle == [at |-> "idle", of |-> [op |-> "none"], ids |-> <<>>, tracker |-> NoTracker,
         counted |-> FALSE, answer |-> NoStats]

Steps == {"idle", "lock", "write", "outer", "inner", "copy", "each", "look", "ask",
          "rlock", "read", "relock", "count", "return"}
CallRecord ==
  [at : Steps, of : Calls \cup {Idle.of}, ids : Seq(Ids), counted : BOOLEAN,
   tracker : Trackers \cup {NoTracker}, answer : Stats]

(* Every variable holds a value of the kind the code gives it: in          *)
(* particular a goroutine keeps the locals of the call it is in and at     *)
(* most the two read locks of a group operation.                           *)
TypeOK ==
  /\ status \in [Trackers -> [Ids -> Statuses]]
  /\ heard \in [Trackers -> SUBSET Callbacks]
  /\ trackers \in [Ids -> Trackers \cup {NoTracker}]
  /\ groups \in [Groups -> Seq(Ids)]
  /\ globals \subseteq Callbacks
  /\ stats \in Stats
  /\ lock \in Locks /\ \A p \in Procs : lock.reads[p] <= 2
  /\ call \in [Procs -> CallRecord]

-----------------------------------------------------------------------------
(* What the dashboard computes under its lock.                             *)

Known(id) == trackers[id] # NoTracker
Registered(reg) == {id \in Ids : reg[id] # NoTracker}

(* GetStatus: a transfer the tracker does not know counts as failed.       *)
GetStatus(t, id) == IF status[t][id] = "Absent" THEN "Failed" ELSE status[t][id]

(* Faulty: a transfer that resumes is not counted as active.                *)
CountIn_NotResuming(ids, reg, in) ==
  Cardinality({id \in ids : GetStatus(reg[id], id) \in in \ {"Resuming"}})

(* The transfers of a set that are in one of some statuses.                *)
CountIn(ids, reg, in) == Cardinality({id \in ids : GetStatus(reg[id], id) \in in})

Tally(ids, reg, total) ==
  [total     |-> total,
   active    |-> CountIn(ids, reg, Active),
   completed |-> CountIn(ids, reg, {"Completed"}),
   failed    |-> CountIn(ids, reg, {"Failed"}),
   paused    |-> CountIn(ids, reg, {"Paused"}),
   cancelled |-> CountIn(ids, reg, {"Cancelled"})]

(* updateStatsLocked: all but the total are counted anew.                  *)
UpdateStats(reg, total) == stats' = Tally(Registered(reg), reg, total)

Members(group) == {groups[group][i] : i \in DOMAIN groups[group]}

(* A group without one of its members, which it has only once.             *)
Without(s, x) ==
  IF x \notin {s[i] : i \in DOMAIN s} THEN s
  ELSE LET at == CHOOSE i \in DOMAIN s : s[i] = x IN
       [i \in 1..(Len(s) - 1) |-> IF i < at THEN s[i] ELSE s[i + 1]]

(* GetGroupStats: the members that are registered, counted afresh.         *)
GroupStats(group) ==
  LET ids == Members(group) \cap Registered(trackers) IN
  Tally(ids, trackers, Cardinality(ids))

-----------------------------------------------------------------------------
(* Faulty variants of definitions below, one per property that rests on    *)
(* them: what TLC must reject if the code had the bug.                     *)

(* The groups keep a transfer whose tracker is removed.                    *)
RemoveTracker_KeepsGroups(id) ==
  /\ trackers' = [trackers EXCEPT ![id] = NoTracker]
  /\ IF Known(id) THEN UpdateStats(trackers', stats.total - 1) ELSE UNCHANGED stats
  /\ UNCHANGED <<heard, groups, globals>>

(* The two read locks of a group operation are released once.              *)
Released_Once(p) == RUnlock(lock, p, 1)

(* GetStats asks for the write lock without giving its read lock back.     *)
Upgrading_Holding(p) == lock

-----------------------------------------------------------------------------
(* What each call does under the write lock.                               *)

(* A tracker added again under the same ID replaces the old one and is     *)
(* counted again in the total.                                             *)
AddTracker(id, tracker) ==
  /\ trackers' = [trackers EXCEPT ![id] = tracker]
  /\ heard' = [heard EXCEPT ![tracker] = @ \cup globals]
  /\ UpdateStats(trackers', stats.total + 1)
  /\ UNCHANGED <<groups, globals>>

RemoveTracker(id) ==
  /\ trackers' = [trackers EXCEPT ![id] = NoTracker]
  /\ IF Known(id)
     THEN /\ groups' = [g \in Groups |-> Without(groups[g], id)]
          /\ UpdateStats(trackers', stats.total - 1)
     ELSE UNCHANGED <<groups, stats>>
  /\ UNCHANGED <<heard, globals>>

(* A group that does not exist is an empty one.                            *)
AddToGroup(group, id) ==
  /\ groups' = IF Known(id) /\ id \notin Members(group)
               THEN [groups EXCEPT ![group] = Append(@, id)] ELSE groups
  /\ UNCHANGED <<heard, trackers, globals, stats>>

RemoveFromGroup(group, id) ==
  /\ groups' = [groups EXCEPT ![group] = Without(@, id)]
  /\ UNCHANGED <<heard, trackers, globals, stats>>

(* The list may hold a callback twice: a tracker keeps it once, and        *)
(* RemoveGlobalCallback removes all of them.                               *)
AddGlobalCallback(callback) ==
  /\ globals' = globals \cup {callback}
  /\ heard' = [t \in Trackers |-> IF t \in {trackers[id] : id \in Ids}
                                  THEN heard[t] \cup {callback} ELSE heard[t]]
  /\ UNCHANGED <<trackers, groups, stats>>

(* The trackers keep the callback: they have no operation to remove it.    *)
RemoveGlobalCallback(callback) ==
  /\ globals' = globals \ {callback}
  /\ UNCHANGED <<heard, trackers, groups, stats>>

Update(c) ==
  \/ c.op = "AddTracker" /\ AddTracker(c.id, c.tracker)
  \/ c.op = "RemoveTracker" /\ RemoveTracker(c.id)
  \/ c.op = "AddToGroup" /\ AddToGroup(c.group, c.id)
  \/ c.op = "RemoveFromGroup" /\ RemoveFromGroup(c.group, c.id)
  \/ c.op = "AddGlobalCallback" /\ AddGlobalCallback(c.callback)
  \/ c.op = "RemoveGlobalCallback" /\ RemoveGlobalCallback(c.callback)

-----------------------------------------------------------------------------

Init ==
  /\ status \in Begun
  /\ heard = [t \in Trackers |-> {}]
  /\ trackers = [id \in Ids |-> NoTracker]
  /\ groups = [g \in Groups |-> <<>>]
  /\ globals = {} /\ stats = NoStats
  /\ lock = Unlocked
  /\ call = [p \in Procs |-> Idle]
  /\ calls = 0 /\ moves = 0

(* GetStats gives its read lock back before it asks for the write lock; a  *)
(* group operation gives back both of its own.                             *)
Upgrading(p) == RUnlock(lock, p, 1)
Released(p) == RUnlock(lock, p, 2)

At(p, pc) == call[p].at = pc /\ Runs(lock, p)
Goto(p, pc) == call' = [call EXCEPT ![p].at = pc]

Begin(p, c) ==
  /\ At(p, "idle") /\ calls < MaxCalls
  /\ call' = [call EXCEPT ![p] = [Idle EXCEPT !.of = c,
       !.at = IF c \in WriteCalls THEN "lock" ELSE IF c \in GroupCalls THEN "outer" ELSE "rlock"]]
  /\ calls' = calls + 1
  /\ UNCHANGED <<status, registry, lock, moves>>

(* Lock() of a call that writes, or of GetStats.                           *)
AnnounceWrite(p, pc, next) ==
  /\ At(p, pc) /\ CanAnnounce(lock)
  /\ lock' = Announce(lock, p)
  /\ Goto(p, next)
  /\ UNCHANGED <<status, registry, bounds>>

Write(p) ==
  /\ At(p, "write") /\ Owns(lock, p)
  /\ Update(call[p].of)
  /\ lock' = Unlock(lock)
  /\ call' = [call EXCEPT ![p] = Idle]
  /\ UNCHANGED <<status, bounds>>

(* RLock(): the goroutine goes on from pc next once it runs.               *)
ReadLock(p, pc, next) ==
  /\ At(p, pc)
  /\ lock' = RLock(lock, p)
  /\ Goto(p, next)
  /\ UNCHANGED <<status, registry, bounds>>

(* The getters.  GetStats counts anew when its last count is too old: it   *)
(* gives the read lock back, counts under the write lock and takes the     *)
(* read lock again.                                                        *)
Answer(p, s) ==
  /\ lock' = RUnlock(lock, p, 1)
  /\ call' = [call EXCEPT ![p].at = "return", ![p].answer = s]
  /\ UNCHANGED <<status, registry, bounds>>

GetStats(p) ==
  /\ At(p, "read") /\ call[p].of.op = "GetStats"
  /\ Answer(p, stats)

GetGroupStats(p) ==
  /\ At(p, "read") /\ call[p].of.op = "GetGroupStats"
  /\ Answer(p, GroupStats(call[p].of.group))

Outdated(p) ==
  /\ At(p, "read") /\ call[p].of.op = "GetStats" /\ ~call[p].counted
  /\ lock' = Upgrading(p)
  /\ Goto(p, "relock")
  /\ UNCHANGED <<status, registry, bounds>>

CountAnew(p) ==
  /\ At(p, "count") /\ Owns(lock, p)
  /\ UpdateStats(trackers, stats.total)
  /\ lock' = Unlock(lock)
  /\ call' = [call EXCEPT ![p].at = "rlock", ![p].counted = TRUE]
  /\ UNCHANGED <<status, heard, trackers, groups, globals, bounds>>

Return(p) ==
  /\ At(p, "return")
  /\ call' = [call EXCEPT ![p] = Idle]
  /\ UNCHANGED <<status, registry, lock, bounds>>

(* A group operation copies the members under two read locks, the second   *)
(* taken inside the first, and then looks every one of them up under a     *)
(* lock of its own and asks its tracker outside it.                        *)
CopyMembers(p) ==
  /\ At(p, "copy")
  /\ lock' = Released(p)
  /\ call' = [call EXCEPT ![p].at = "each", ![p].ids = groups[call[p].of.group]]
  /\ UNCHANGED <<status, registry, bounds>>

GroupDone(p) ==
  /\ At(p, "each") /\ call[p].ids = <<>>
  /\ call' = [call EXCEPT ![p] = Idle]
  /\ UNCHANGED <<status, registry, lock, bounds>>

LookUp(p) ==
  /\ At(p, "look")
  /\ lock' = RUnlock(lock, p, 1)
  /\ IF Known(Head(call[p].ids))
     THEN call' = [call EXCEPT ![p].at = "ask", ![p].tracker = trackers[Head(call[p].ids)]]
     ELSE call' = [call EXCEPT ![p].at = "each", ![p].ids = Tail(@)]
  /\ UNCHANGED <<status, registry, bounds>>

(* PauseTracking, ResumeTracking or StopTracking of a member.              *)
Asked(op, old) ==
  LET r == [status |-> old] IN
  IF old = "Absent" THEN old
  ELSE IF op = "PauseGroup" /\ TR!CanPause(r) THEN "Paused"
  ELSE IF op = "ResumeGroup" /\ TR!CanResume(r) THEN "Resuming"
  ELSE IF op = "CancelGroup" /\ TR!CanCancel(r) THEN "Cancelled"
  ELSE old

AskTracker(p) ==
  /\ At(p, "ask")
  /\ status' = [status EXCEPT ![call[p].tracker][Head(call[p].ids)] = Asked(call[p].of.op, @)]
  /\ call' = [call EXCEPT ![p].at = "each", ![p].ids = Tail(@), ![p].tracker = NoTracker]
  /\ UNCHANGED <<registry, lock, bounds>>

(* The application moves a transfer on: StartTracking, UpdateProgress,     *)
(* UpdateStatus, MarkFailed, StopTracking and the cleanup of old records.  *)
MayBecome(old, new) ==
  \/ old = "Absent" /\ new = "Initializing"
  \/ old \in TR!Terminal /\ new \in {"Absent", "Initializing"}
  \/ TR!ValidTransition(old, new)
  \/ old \in Active /\ new \in {"Transferring", "Completed"}

MoveOn(t, id, new) ==
  /\ moves < MaxMoves
  /\ MayBecome(status[t][id], new)
  /\ status' = [status EXCEPT ![t][id] = new]
  /\ moves' = moves + 1
  /\ UNCHANGED <<registry, lock, call, calls>>

Step(p) ==
  \/ AnnounceWrite(p, "lock", "write")
  \/ Write(p)
  \/ ReadLock(p, "rlock", "read")
  \/ GetStats(p)
  \/ GetGroupStats(p)
  \/ Outdated(p)
  \/ AnnounceWrite(p, "relock", "count")
  \/ CountAnew(p)
  \/ Return(p)
  \/ ReadLock(p, "outer", "inner")
  \/ ReadLock(p, "inner", "copy")
  \/ CopyMembers(p)
  \/ GroupDone(p)
  \/ call[p].ids # <<>> /\ ReadLock(p, "each", "look")
  \/ LookUp(p)
  \/ AskTracker(p)

Next ==
  \/ \E p \in Procs : Step(p) \/ \E c \in Jobs[p] : Begin(p, c)
  \/ \E t \in Trackers, id \in Ids, new \in Statuses : MoveOn(t, id, new)

Spec == Init /\ [][Next]_vars

(* A goroutine in a call goes on with it: nothing but the lock can hold it *)
(* up.                                                                     *)
FairSpec == Spec /\ \A p \in Procs : WF_vars(Step(p))

-----------------------------------------------------------------------------

(* The registry agrees with itself, whichever of a tracker, a group and a  *)
(* callback came first: a group only has transfers that are registered,    *)
(* each of them once, as RemoveTracker clears them from every group; and a *)
(* registered tracker notifies every global callback.                      *)
RegistryConsistent ==
  /\ \A g \in Groups :
       /\ Members(g) \subseteq Registered(trackers)
       /\ \A i, j \in DOMAIN groups[g] : groups[g][i] = groups[g][j] => i = j
  /\ \A id \in Registered(trackers) : globals \subseteq heard[trackers[id]]

Counted(s) == s.active + s.completed + s.failed + s.paused + s.cancelled

(* The totals by status count every registered transfer exactly once,      *)
(* however the transfers move between the counts; the total never falls    *)
(* behind them, and it is exact in the statistics of a group.              *)
StatsAddUp ==
  /\ Counted(stats) = Cardinality(Registered(trackers))
  /\ Counted(stats) <= stats.total
  /\ \A p \in Procs : call[p].at = "return" =>
       LET s == call[p].answer IN
       /\ Counted(s) <= s.total
       /\ call[p].of.op = "GetGroupStats" => Counted(s) = s.total

(* The deadlock the code does have: a group operation waits for its second *)
(* read lock behind a writer that waits for the first.                     *)
NestedReadDeadlock ==
  \E p \in Procs : call[p].at = "copy" /\ p \in lock.waiting /\ lock.reads[p] > 0

(* Every call returns, unless a writer came between the two read locks of  *)
(* a group operation.                                                      *)
CallsReturn ==
  \A p \in Procs : call[p].at # "idle" ~> (call[p].at = "idle" \/ NestedReadDeadlock)

=============================================================================
