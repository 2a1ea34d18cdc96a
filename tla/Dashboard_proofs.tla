-------------------------- MODULE Dashboard_proofs --------------------------
(***************************************************************************)
(* Proofs about Dashboard, for any transfers, groups, trackers, callbacks, *)
(* goroutines and calls.                                                   *)
(***************************************************************************)
EXTENDS Dashboard, FiniteSetTheorems, TLAPS

USE SetsAssumption

-----------------------------------------------------------------------------
(* The inductive invariant.                                                *)

(* How many read locks a goroutine has asked for when it is at a step.     *)
Wants(at) == IF at = "copy" THEN 2 ELSE IF at \in {"inner", "look", "read"} THEN 1 ELSE 0

(* The read locks a goroutine holds or waits for.                          *)
Claims(l, p) == l.reads[p] + (IF p \in l.waiting THEN 1 ELSE 0)

(* A goroutine holds the read locks it asked for, but for one it waits     *)
(* for, and whoever is at a step that writes is the writer.                *)
LockFits(l, p, at) ==
  /\ Claims(l, p) = Wants(at)
  /\ l.writer = p <=> at \in {"write", "count"}

(* The locals of a call fit its step, and its answer adds up.              *)
LocalsFit(r) ==
  /\ r.at \in {"outer", "inner", "copy"} => r.of \in GroupCalls
  /\ r.at \in {"lock", "write"} => r.of \in WriteCalls
  /\ r.at \in {"look", "ask"} => r.ids # <<>>
  /\ r.at = "ask" => r.tracker \in Trackers
  /\ r.at = "return" => /\ Counted(r.answer) <= r.answer.total
                        /\ r.of.op = "GetGroupStats" => Counted(r.answer) = r.answer.total

StatusType == status \in [Trackers -> [Ids -> Statuses]]

CallsInv ==
  /\ StatusType /\ lock \in Locks /\ call \in [Procs -> CallRecord]
  /\ \A p \in Procs : LockFits(lock, p, call[p].at) /\ LocalsFit(call[p])

(* The registry: its types, that it is consistent, and its statistics.     *)
RegistryTypes ==
  /\ heard \in [Trackers -> SUBSET Callbacks]
  /\ trackers \in [Ids -> Trackers \cup {NoTracker}]
  /\ groups \in [Groups -> Seq(Ids)]
  /\ globals \subseteq Callbacks
  /\ stats \in Stats

StatsFit ==
  /\ Counted(stats) = Cardinality(Registered(trackers))
  /\ Counted(stats) <= stats.total

RegistryInv == RegistryTypes /\ RegistryConsistent /\ StatsFit

IInv == CallsInv /\ RegistryInv

-----------------------------------------------------------------------------
(* What the operators on locks, calls, groups and statuses return.         *)

(* The operations of the lock make a lock of it.                         *)
LEMMA LockTypes ==
  ASSUME NEW l \in Locks, NEW p \in Procs
  PROVE  /\ RLock(l, p) \in Locks
         /\ Announce(l, p) \in Locks
         /\ Unlock(l) \in Locks
         /\ \A n \in Nat : n <= l.reads[p] => RUnlock(l, p, n) \in Locks
<1>1. RLock(l, p) \in Locks
  <2>1. [l EXCEPT !.reads[p] = @ + 1] \in Locks
    BY DEF Locks
  <2>2. [l EXCEPT !.waiting = @ \cup {p}] \in Locks
    BY DEF Locks
  <2> QED BY <2>1, <2>2 DEF RLock
<1>2. Announce(l, p) \in Locks
  BY DEF Announce, Locks
<1>3. Unlock(l) \in Locks
  BY DEF Unlock, Locks
<1>4. ASSUME NEW n \in Nat, n <= l.reads[p] PROVE RUnlock(l, p, n) \in Locks
  BY <1>4 DEF RUnlock, Locks
<1> QED BY <1>1, <1>2, <1>3, <1>4

(* What they do to the claim of a goroutine and to the writer.           *)
LEMMA LockClaims ==
  ASSUME NEW l \in Locks, NEW p \in Procs, NEW q \in Procs
  PROVE  /\ Runs(l, p) => Claims(RLock(l, p), q) = Claims(l, q) + (IF q = p THEN 1 ELSE 0)
         /\ RLock(l, p).writer = l.writer
         /\ \A n \in Nat : /\ Claims(RUnlock(l, p, n), q) = Claims(l, q) - (IF q = p THEN n ELSE 0)
                            /\ RUnlock(l, p, n).writer = l.writer
         /\ Claims(Announce(l, p), q) = Claims(l, q) /\ Announce(l, p).writer = p
         /\ Claims(Unlock(l), q) = Claims(l, q) /\ Unlock(l).writer = Nobody
<1>1. Runs(l, p) => Claims(RLock(l, p), q) = Claims(l, q) + (IF q = p THEN 1 ELSE 0)
  BY DEF RLock, Locks, Claims, Runs
<1>2. RLock(l, p).writer = l.writer
  BY DEF RLock, Locks
<1>3. ASSUME NEW n \in Nat
      PROVE  /\ Claims(RUnlock(l, p, n), q) = Claims(l, q) - (IF q = p THEN n ELSE 0)
             /\ RUnlock(l, p, n).writer = l.writer
  BY DEF RUnlock, Locks, Claims
<1>4. Claims(Announce(l, p), q) = Claims(l, q) /\ Announce(l, p).writer = p
  BY DEF Announce, Locks, Claims
<1>5. Claims(Unlock(l), q) = Claims(l, q) /\ Unlock(l).writer = Nobody
  BY DEF Unlock, Locks, Claims
<1> QED BY <1>1, <1>2, <1>3, <1>4, <1>5

(* A goroutine that runs holds what it claims.                             *)
LEMMA RunningHolds ==
  ASSUME NEW l \in Locks, NEW p \in Procs, Runs(l, p)
  PROVE  l.reads[p] = Claims(l, p)
BY DEF Locks, Claims, Runs

(* Unlock and Unlocked: nobody writes, and in the latter nobody reads.     *)
LEMMA UnlockedLock ==
  /\ Unlocked \in Locks /\ Unlocked.writer = Nobody
  /\ \A p \in Procs : Claims(Unlocked, p) = 0
BY DEF Unlocked, Locks, Claims

(* A goroutine that goes to another step keeps its locals.               *)
LEMMA RecordWith ==
  ASSUME NEW r \in CallRecord, NEW at \in Steps
  PROVE  /\ [r EXCEPT !.at = at] \in CallRecord
         /\ [r EXCEPT !.at = at].at = at /\ [r EXCEPT !.at = at].of = r.of
         /\ [r EXCEPT !.at = at].ids = r.ids
         /\ [r EXCEPT !.at = at].tracker = r.tracker
         /\ [r EXCEPT !.at = at].answer = r.answer
BY DEF CallRecord

(* A goroutine outside a call, and statistics of nothing.                *)
LEMMA IdleRecord ==
  /\ Idle \in CallRecord /\ Idle.at = "idle" /\ LocalsFit(Idle) /\ Wants("idle") = 0
  /\ NoStats \in Stats /\ Counted(NoStats) = 0 /\ NoStats.total = 0
<1>1. NoStats \in Stats /\ Counted(NoStats) = 0 /\ NoStats.total = 0
  BY DEF NoStats, Stats, Counted
<1>2. Idle \in CallRecord
  BY <1>1 DEF Idle, CallRecord, Steps
<1>3. Idle.at = "idle" /\ LocalsFit(Idle) /\ Wants("idle") = 0
  BY DEF Idle, LocalsFit, Wants
<1> QED BY <1>1, <1>2, <1>3

(* The arguments of a call, told from its name.                            *)
LEMMA CallArguments ==
  ASSUME NEW c \in Calls \cup {Idle.of}
  PROVE  /\ c.op = "AddTracker" => c.id \in Ids /\ c.tracker \in Trackers
         /\ c.op = "RemoveTracker" => c.id \in Ids
         /\ c.op \in {"AddToGroup", "RemoveFromGroup"} => c.id \in Ids /\ c.group \in Groups
         /\ c.op \in {"AddGlobalCallback", "RemoveGlobalCallback"} => c.callback \in Callbacks
         /\ c.op = "GetGroupStats" => c.group \in Groups
         /\ c \in GroupCalls => c.group \in Groups
BY DEF Calls, WriteCalls, GroupCalls, ReadCalls, Idle

(* The three kinds of calls make up the calls.                           *)
LEMMA CallKinds ==
  /\ GroupCalls \subseteq Calls /\ WriteCalls \subseteq Calls
  /\ \A c \in Calls : c \in WriteCalls \/ c \in GroupCalls \/ c \in ReadCalls
BY DEF Calls

(* A group loses the member it had once, and only that member.           *)
LEMMA WithoutMember ==
  ASSUME NEW s \in Seq(Ids), NEW x
  PROVE  /\ Without(s, x) \in Seq(Ids)
         /\ \A i \in DOMAIN Without(s, x) : \E j \in DOMAIN s : Without(s, x)[i] = s[j]
         /\ (\A i, j \in DOMAIN s : s[i] = s[j] => i = j) =>
              /\ \A i \in DOMAIN Without(s, x) : Without(s, x)[i] # x
              /\ \A i, j \in DOMAIN Without(s, x) :
                   Without(s, x)[i] = Without(s, x)[j] => i = j
<1>1. CASE x \notin {s[i] : i \in DOMAIN s}
  BY <1>1 DEF Without
<1>2. CASE x \in {s[i] : i \in DOMAIN s}
  <2> DEFINE at == CHOOSE i \in DOMAIN s : s[i] = x
             t == [i \in 1..(Len(s) - 1) |-> IF i < at THEN s[i] ELSE s[i + 1]]
  <2>1. at \in 1..Len(s) /\ s[at] = x
    BY <1>2
  <2>2. Without(s, x) = t
    BY <1>2 DEF Without
  <2> HIDE DEF at
  <2>3. Len(s) \in Nat /\ Len(s) - 1 \in Nat
    BY <2>1
  <2>4. t \in Seq(Ids) /\ DOMAIN t = 1..(Len(s) - 1)
    BY <2>1, <2>3
  <2>5. ASSUME NEW i \in DOMAIN t PROVE t[i] = s[IF i < at THEN i ELSE i + 1]
    BY <2>5, <2>4, <2>1, <2>3
  <2>6. ASSUME NEW i \in DOMAIN t PROVE (IF i < at THEN i ELSE i + 1) \in DOMAIN s \ {at}
    BY <2>6, <2>4, <2>1, <2>3
  <2>7. ASSUME NEW i \in DOMAIN t, NEW j \in DOMAIN t,
               (IF i < at THEN i ELSE i + 1) = (IF j < at THEN j ELSE j + 1)
        PROVE  i = j
    BY <2>7, <2>4, <2>1, <2>3
  <2> HIDE DEF t
  <2>8. \A i \in DOMAIN t : \E j \in DOMAIN s : t[i] = s[j]
    BY <2>5, <2>6
  <2>9. ASSUME \A i, j \in DOMAIN s : s[i] = s[j] => i = j
        PROVE  /\ \A i \in DOMAIN t : t[i] # x
               /\ \A i, j \in DOMAIN t : t[i] = t[j] => i = j
    BY <2>9, <2>1, <2>5, <2>6, <2>7
  <2> QED BY <2>2, <2>4, <2>8, <2>9
<1> QED BY <1>1, <1>2

-----------------------------------------------------------------------------
(* The counts.                                                             *)

Disjoint5(A, B, C, D, E) ==
  /\ A \cap B = {} /\ (A \cup B) \cap C = {}
  /\ (A \cup B \cup C) \cap D = {} /\ (A \cup B \cup C \cup D) \cap E = {}

(* The size of disjoint sets, of two and of five.                        *)
LEMMA CountDisjoint ==
  ASSUME NEW S, NEW T, IsFiniteSet(S), IsFiniteSet(T), S \cap T = {}
  PROVE  IsFiniteSet(S \cup T) /\ Cardinality(S \cup T) = Cardinality(S) + Cardinality(T)
<1>1. Cardinality(S \cap T) = 0
  BY FS_EmptySet
<1>2. /\ IsFiniteSet(S \cup T)
      /\ Cardinality(S \cup T) = Cardinality(S) + Cardinality(T) - Cardinality(S \cap T)
  BY FS_Union
<1>3. Cardinality(S) \in Nat /\ Cardinality(T) \in Nat
  BY FS_CardinalityType
<1> QED BY <1>1, <1>2, <1>3

(* Five disjoint sets have as many elements together as one by one.        *)
LEMMA CountFive ==
  ASSUME NEW A, NEW B, NEW C, NEW D, NEW E, Disjoint5(A, B, C, D, E),
         IsFiniteSet(A), IsFiniteSet(B), IsFiniteSet(C), IsFiniteSet(D), IsFiniteSet(E)
  PROVE  Cardinality(A \cup B \cup C \cup D \cup E)
           = Cardinality(A) + Cardinality(B) + Cardinality(C) + Cardinality(D) + Cardinality(E)
<1>1. /\ IsFiniteSet(A \cup B)
      /\ Cardinality(A \cup B) = Cardinality(A) + Cardinality(B)
  BY CountDisjoint DEF Disjoint5
<1>2. /\ IsFiniteSet(A \cup B \cup C)
      /\ Cardinality(A \cup B \cup C) = Cardinality(A \cup B) + Cardinality(C)
  BY <1>1, CountDisjoint DEF Disjoint5
<1>3. /\ IsFiniteSet(A \cup B \cup C \cup D)
      /\ Cardinality(A \cup B \cup C \cup D) = Cardinality(A \cup B \cup C) + Cardinality(D)
  BY <1>2, CountDisjoint DEF Disjoint5
<1>4. Cardinality(A \cup B \cup C \cup D \cup E)
        = Cardinality(A \cup B \cup C \cup D) + Cardinality(E)
  BY <1>3, CountDisjoint DEF Disjoint5
<1> QED BY <1>1, <1>2, <1>3, <1>4

(* A tally counts every transfer of the set in exactly one of its columns. *)
LEMMA TallyCounts ==
  ASSUME NEW ids \in SUBSET Ids, NEW reg, \A id \in ids : reg[id] \in Trackers,
         status \in [Trackers -> [Ids -> Statuses]], NEW total \in Int
  PROVE  /\ Tally(ids, reg, total) \in Stats
         /\ Tally(ids, reg, total).total = total
         /\ Counted(Tally(ids, reg, total)) = Cardinality(ids)
<1> DEFINE In(in) == {id \in ids : GetStatus(reg[id], id) \in in}
<1>1. IsFiniteSet(ids)
  BY FS_Subset
<1>2. \A in : IsFiniteSet(In(in)) /\ Cardinality(In(in)) \in Nat
  BY <1>1, FS_Subset, FS_CardinalityType
<1>3. \A in : CountIn(ids, reg, in) = Cardinality(In(in))
  BY DEF CountIn
<1>4. \A id \in ids : GetStatus(reg[id], id) \in TR!Statuses
  BY DEF GetStatus, Statuses, TR!Statuses
<1>5. ids = In(Active) \cup In({"Completed"}) \cup In({"Failed"}) \cup In({"Paused"})
              \cup In({"Cancelled"})
  BY <1>4 DEF TR!Statuses, Active
<1>6. Disjoint5(In(Active), In({"Completed"}), In({"Failed"}), In({"Paused"}), In({"Cancelled"}))
  BY DEF Disjoint5, Active
<1> HIDE DEF In
<1>7. Cardinality(ids) = Cardinality(In(Active)) + Cardinality(In({"Completed"}))
        + Cardinality(In({"Failed"})) + Cardinality(In({"Paused"})) + Cardinality(In({"Cancelled"}))
  BY <1>2, <1>5, <1>6, CountFive
<1>8. Tally(ids, reg, total) \in Stats
  BY <1>2, <1>3 DEF Tally, Stats
<1> QED BY <1>3, <1>7, <1>8 DEF Tally, Counted

(* What is registered, and how many.                                       *)
LEMMA RegisteredSets ==
  ASSUME NEW reg \in [Ids -> Trackers \cup {NoTracker}]
  PROVE  /\ Registered(reg) \in SUBSET Ids /\ IsFiniteSet(Registered(reg))
         /\ Cardinality(Registered(reg)) \in Nat
         /\ \A id \in Registered(reg) : reg[id] \in Trackers
<1>1. Registered(reg) \in SUBSET Ids /\ \A id \in Registered(reg) : reg[id] \in Trackers
  BY DEF Registered
<1> QED BY <1>1, FS_Subset, FS_CardinalityType

(* Adding a tracker registers at most one transfer more.                 *)
LEMMA RegisterOne ==
  ASSUME NEW reg \in [Ids -> Trackers \cup {NoTracker}], NEW id \in Ids, NEW t \in Trackers
  PROVE  /\ Registered([reg EXCEPT ![id] = t]) = Registered(reg) \cup {id}
         /\ Cardinality(Registered([reg EXCEPT ![id] = t])) <= Cardinality(Registered(reg)) + 1
<1>1. Registered([reg EXCEPT ![id] = t]) = Registered(reg) \cup {id}
  BY DEF Registered
<1>2. IsFiniteSet(Registered(reg)) /\ Cardinality(Registered(reg)) \in Nat
  BY RegisteredSets
<1>3. Cardinality(Registered(reg) \cup {id}) =
        IF id \in Registered(reg) THEN Cardinality(Registered(reg))
                                  ELSE Cardinality(Registered(reg)) + 1
  BY <1>2, FS_AddElement
<1>4. Cardinality(Registered(reg) \cup {id}) <= Cardinality(Registered(reg)) + 1
  BY <1>2, <1>3
<1> QED BY <1>1, <1>4

(* Removing one registers exactly one less.                              *)
LEMMA UnregisterOne ==
  ASSUME NEW reg \in [Ids -> Trackers \cup {NoTracker}], NEW id \in Ids
  PROVE  /\ Registered([reg EXCEPT ![id] = NoTracker]) = Registered(reg) \ {id}
         /\ reg[id] # NoTracker =>
              Cardinality(Registered([reg EXCEPT ![id] = NoTracker]))
                = Cardinality(Registered(reg)) - 1
<1>1. Registered([reg EXCEPT ![id] = NoTracker]) = Registered(reg) \ {id}
  BY DEF Registered
<1>2. IsFiniteSet(Registered(reg)) /\ Cardinality(Registered(reg)) \in Nat
  BY RegisteredSets
<1>3. ASSUME reg[id] # NoTracker
      PROVE  Cardinality(Registered(reg) \ {id}) = Cardinality(Registered(reg)) - 1
  <2>1. id \in Registered(reg)
    BY <1>3 DEF Registered
  <2> QED BY <1>2, <2>1, FS_RemoveElement
<1> QED BY <1>1, <1>3

-----------------------------------------------------------------------------
(* What a call under the write lock keeps.                                 *)

(* The total is a number.                                                  *)
LEMMA TotalType == ASSUME stats \in Stats PROVE stats.total \in Int
BY DEF Stats

(* Statistics that are counted anew fit, when the total is high enough.    *)
LEMMA CountedAnew ==
  ASSUME NEW reg \in [Ids -> Trackers \cup {NoTracker}], StatusType, NEW total \in Int,
         Cardinality(Registered(reg)) <= total,
         trackers' = reg, UpdateStats(reg, total)
  PROVE  stats' \in Stats /\ StatsFit'
<1> DEFINE ids == Registered(reg)
<1>1. ids \in SUBSET Ids /\ \A id \in ids : reg[id] \in Trackers
  BY RegisteredSets
<1>2. /\ Tally(ids, reg, total) \in Stats
      /\ Tally(ids, reg, total).total = total
      /\ Counted(Tally(ids, reg, total)) = Cardinality(ids)
  BY <1>1, TallyCounts DEF StatusType
<1>3. stats' = Tally(ids, reg, total)
  BY DEF UpdateStats
<1>4. Counted(stats') = Cardinality(ids) /\ stats'.total = total
  BY <1>2, <1>3
<1>5. Counted(stats)' = Counted(stats')
  BY DEF Counted
<1>6. Registered(trackers)' = ids
  BY DEF Registered
<1> QED BY <1>2, <1>3, <1>4, <1>5, <1>6 DEF StatsFit

(* AddTracker keeps the registry, also for an ID it knows.               *)
LEMMA AddTrackerInv ==
  ASSUME RegistryInv, StatusType, NEW id \in Ids, NEW t \in Trackers, AddTracker(id, t)
  PROVE  RegistryInv'
<1> DEFINE reg == [trackers EXCEPT ![id] = t]
<1>1. /\ trackers \in [Ids -> Trackers \cup {NoTracker}] /\ reg \in [Ids -> Trackers \cup {NoTracker}]
      /\ heard' = [heard EXCEPT ![t] = @ \cup globals]
      /\ trackers' = reg /\ UpdateStats(reg, stats.total + 1)
      /\ groups' = groups /\ globals' = globals
  BY DEF AddTracker, RegistryInv, RegistryTypes
<1>2. Registered(reg) = Registered(trackers) \cup {id}
  BY <1>1, RegisterOne
<1>3. stats.total \in Int /\ Cardinality(Registered(trackers)) <= stats.total
  BY TotalType DEF RegistryInv, StatsFit, RegistryTypes
<1>4. Cardinality(Registered(reg)) <= stats.total + 1
  <2>1. Cardinality(Registered(reg)) <= Cardinality(Registered(trackers)) + 1
    BY <1>1, RegisterOne
  <2>2. Cardinality(Registered(reg)) \in Nat /\ Cardinality(Registered(trackers)) \in Nat
    BY <1>1, RegisteredSets
  <2> HIDE DEF reg
  <2> QED BY <2>1, <2>2, <1>3
<1>5. stats.total + 1 \in Int
  BY <1>3
<1> HIDE DEF reg
<1>6. stats' \in Stats /\ StatsFit'
  BY <1>1, <1>4, <1>5, CountedAnew
<1> USE DEF reg
<1>7. RegistryTypes'
  <2>1. heard' \in [Trackers -> SUBSET Callbacks]
    BY <1>1 DEF RegistryInv, RegistryTypes
  <2> QED BY <1>1, <1>6, <2>1 DEF RegistryInv, RegistryTypes
<1>8. RegistryConsistent'
  <2>1. Registered(trackers') = Registered(trackers) \cup {id}
    BY <1>1, <1>2
  <2>2. ASSUME NEW g \in Groups
        PROVE  /\ {groups'[g][i] : i \in DOMAIN groups'[g]} \subseteq Registered(trackers')
               /\ \A i, j \in DOMAIN groups'[g] : groups'[g][i] = groups'[g][j] => i = j
    <3>1. /\ {groups[g][i] : i \in DOMAIN groups[g]} \subseteq Registered(trackers)
          /\ \A i, j \in DOMAIN groups[g] : groups[g][i] = groups[g][j] => i = j
      BY DEF RegistryInv, RegistryConsistent, Members
    <3>2. groups' = groups
      BY <1>1
    <3> QED BY <2>1, <3>1, <3>2
  <2>3. ASSUME NEW x \in Registered(trackers') PROVE globals' \subseteq heard'[trackers'[x]]
    <3>1. CASE x = id
      BY <3>1, <1>1 DEF RegistryInv, RegistryTypes
    <3>2. CASE x # id
      <4>1. x \in Registered(trackers) /\ x \in Ids /\ trackers'[x] = trackers[x]
        BY <3>2, <2>1, <1>1 DEF Registered
      <4>2. globals \subseteq heard[trackers[x]] /\ trackers[x] \in Trackers
        BY <4>1, <1>1, RegisteredSets DEF RegistryInv, RegistryConsistent
      <4>3. heard \in [Trackers -> SUBSET Callbacks]
        BY DEF RegistryInv, RegistryTypes
      <4> QED BY <1>1, <4>1, <4>2, <4>3
    <3> QED BY <3>1, <3>2
  <2> QED BY <2>2, <2>3 DEF RegistryConsistent, Members
<1> QED BY <1>6, <1>7, <1>8 DEF RegistryInv

(* An operation on the groups leaves them consistent when each of them     *)
(* keeps only registered members, each once.                               *)
LEMMA GroupsInv ==
  ASSUME RegistryInv, UNCHANGED <<heard, trackers, globals, stats>>,
         groups' \in [Groups -> Seq(Ids)],
         \A g \in Groups :
           /\ \A i \in DOMAIN groups'[g] : groups'[g][i] \in Registered(trackers)
           /\ \A i, j \in DOMAIN groups'[g] : groups'[g][i] = groups'[g][j] => i = j
  PROVE  RegistryInv'
<1>1. RegistryTypes'
  BY DEF RegistryInv, RegistryTypes
<1>2. StatsFit'
  BY DEF RegistryInv, StatsFit, Counted, Registered
<1>3. RegistryConsistent'
  <2>1. Registered(trackers)' = Registered(trackers)
    BY DEF Registered
  <2>2. \A g \in Groups : Members(g)' \subseteq Registered(trackers)
    BY DEF Members
  <2>3. \A id \in Registered(trackers) : globals' \subseteq heard'[trackers'[id]]
    BY DEF RegistryInv, RegistryConsistent
  <2> QED BY <2>1, <2>2, <2>3 DEF RegistryConsistent
<1> QED BY <1>1, <1>2, <1>3 DEF RegistryInv

(* What the invariant says of one group.                                 *)
LEMMA GroupFacts ==
  ASSUME RegistryInv, NEW g \in Groups
  PROVE  /\ groups[g] \in Seq(Ids)
         /\ \A i \in DOMAIN groups[g] : groups[g][i] \in Registered(trackers)
         /\ \A i, j \in DOMAIN groups[g] : groups[g][i] = groups[g][j] => i = j
BY DEF RegistryInv, RegistryTypes, RegistryConsistent, Members

(* AddToGroup only appends a registered transfer the group lacks.        *)
LEMMA AddToGroupInv ==
  ASSUME RegistryInv, NEW h \in Groups, NEW id \in Ids, AddToGroup(h, id)
  PROVE  RegistryInv'
<1>1. groups \in [Groups -> Seq(Ids)] /\ UNCHANGED <<heard, trackers, globals, stats>>
  BY DEF AddToGroup, RegistryInv, RegistryTypes
<1>2. CASE Known(id) /\ id \notin Members(h)
  <2>1. groups' = [groups EXCEPT ![h] = Append(@, id)]
    BY <1>2 DEF AddToGroup
  <2>2. groups' \in [Groups -> Seq(Ids)]
    BY <2>1, <1>1
  <2>3. id \in Registered(trackers) /\ \A i \in DOMAIN groups[h] : groups[h][i] # id
    BY <1>2 DEF Known, Registered, Members
  <2>4. ASSUME NEW g \in Groups
        PROVE  /\ \A i \in DOMAIN groups'[g] : groups'[g][i] \in Registered(trackers)
               /\ \A i, j \in DOMAIN groups'[g] : groups'[g][i] = groups'[g][j] => i = j
    <3>1. CASE g # h
      <4>1. groups'[g] = groups[g]
        BY <3>1, <2>1, <1>1
      <4> QED BY <4>1, GroupFacts
    <3>2. CASE g = h
      <4>1. groups'[g] = Append(groups[h], id) /\ groups[h] \in Seq(Ids)
        BY <3>2, <2>1, <1>1
      <4>2. /\ \A i \in DOMAIN groups[h] : groups[h][i] \in Registered(trackers)
            /\ \A i, j \in DOMAIN groups[h] : groups[h][i] = groups[h][j] => i = j
        BY GroupFacts
      <4>3. /\ DOMAIN Append(groups[h], id) = 1..(Len(groups[h]) + 1)
            /\ \A i \in 1..Len(groups[h]) : Append(groups[h], id)[i] = groups[h][i]
            /\ Append(groups[h], id)[Len(groups[h]) + 1] = id
            /\ DOMAIN groups[h] = 1..Len(groups[h]) /\ Len(groups[h]) \in Nat
        BY <4>1
      <4> QED BY <4>1, <4>2, <4>3, <2>3
    <3> QED BY <3>1, <3>2
  <2> QED BY <2>2, <2>4, <1>1, GroupsInv
<1>3. CASE ~(Known(id) /\ id \notin Members(h))
  <2>1. groups' = groups
    BY <1>3 DEF AddToGroup
  <2> QED BY <2>1, <1>1, GroupFacts, GroupsInv
<1> QED BY <1>2, <1>3

(* RemoveFromGroup only takes members away.                              *)
LEMMA RemoveFromGroupInv ==
  ASSUME RegistryInv, NEW h \in Groups, NEW id \in Ids, RemoveFromGroup(h, id)
  PROVE  RegistryInv'
<1>1. /\ groups \in [Groups -> Seq(Ids)] /\ UNCHANGED <<heard, trackers, globals, stats>>
      /\ groups' = [groups EXCEPT ![h] = Without(@, id)]
  BY DEF RemoveFromGroup, RegistryInv, RegistryTypes
<1>2. Without(groups[h], id) \in Seq(Ids)
  BY <1>1, WithoutMember
<1>3. groups' \in [Groups -> Seq(Ids)]
  BY <1>1, <1>2
<1>4. ASSUME NEW g \in Groups
      PROVE  /\ \A i \in DOMAIN groups'[g] : groups'[g][i] \in Registered(trackers)
             /\ \A i, j \in DOMAIN groups'[g] : groups'[g][i] = groups'[g][j] => i = j
  <2>1. CASE g # h
    <3>1. groups'[g] = groups[g]
      BY <2>1, <1>1
    <3> QED BY <3>1, GroupFacts
  <2>2. CASE g = h
    <3>1. groups'[g] = Without(groups[h], id)
      BY <2>2, <1>1
    <3> QED BY <3>1, GroupFacts, WithoutMember
  <2> QED BY <2>1, <2>2
<1> QED BY <1>1, <1>3, <1>4, GroupsInv

(* RemoveTracker takes the transfer out of every group.                  *)
LEMMA RemoveTrackerInv ==
  ASSUME RegistryInv, StatusType, NEW id \in Ids, RemoveTracker(id)
  PROVE  RegistryInv'
<1> DEFINE reg == [trackers EXCEPT ![id] = NoTracker]
<1>1. /\ trackers \in [Ids -> Trackers \cup {NoTracker}] /\ reg \in [Ids -> Trackers \cup {NoTracker}]
      /\ heard \in [Trackers -> SUBSET Callbacks] /\ globals \subseteq Callbacks
      /\ groups \in [Groups -> Seq(Ids)]
      /\ trackers' = reg /\ heard' = heard /\ globals' = globals
  BY DEF RemoveTracker, RegistryInv, RegistryTypes
<1>2. CASE Known(id)
  <2>1. /\ UpdateStats(reg, stats.total - 1)
        /\ groups' = [g \in Groups |-> Without(groups[g], id)]
    BY <1>1, <1>2 DEF RemoveTracker
  <2>2. /\ Registered(reg) = Registered(trackers) \ {id}
        /\ Cardinality(Registered(reg)) = Cardinality(Registered(trackers)) - 1
    BY <1>1, <1>2, UnregisterOne DEF Known
  <2>3. /\ stats.total \in Int /\ Cardinality(Registered(trackers)) <= stats.total
        /\ Cardinality(Registered(trackers)) \in Nat
    BY <1>1, TotalType, RegisteredSets DEF RegistryInv, StatsFit, RegistryTypes
  <2> HIDE DEF reg
  <2>4. stats.total - 1 \in Int /\ Cardinality(Registered(reg)) <= stats.total - 1
    BY <2>2, <2>3
  <2>5. stats' \in Stats /\ StatsFit'
    BY <1>1, <2>1, <2>4, CountedAnew
  <2>6. ASSUME NEW g \in Groups
        PROVE  /\ groups'[g] \in Seq(Ids)
               /\ \A i \in DOMAIN groups'[g] : groups'[g][i] \in Registered(reg)
               /\ \A i, j \in DOMAIN groups'[g] : groups'[g][i] = groups'[g][j] => i = j
    <3>1. groups'[g] = Without(groups[g], id)
      BY <2>1
    <3> QED BY <3>1, <2>2, GroupFacts, WithoutMember
  <2>7. groups' \in [Groups -> Seq(Ids)]
    BY <2>1, <2>6
  <2>8. RegistryTypes'
    BY <1>1, <2>5, <2>7 DEF RegistryTypes
  <2>9. RegistryConsistent'
    <3>1. Registered(trackers)' = Registered(reg)
      BY <1>1 DEF Registered
    <3>2. \A g \in Groups : Members(g)' \subseteq Registered(reg)
      BY <2>6 DEF Members
    <3>3. ASSUME NEW x \in Registered(reg) PROVE globals' \subseteq heard'[trackers'[x]]
      <4>1. x \in Registered(trackers) /\ trackers'[x] = trackers[x]
        BY <1>1, <2>2 DEF reg, Registered
      <4> QED BY <1>1, <4>1 DEF RegistryInv, RegistryConsistent
    <3> QED BY <2>6, <3>1, <3>2, <3>3 DEF RegistryConsistent
  <2> QED BY <2>5, <2>8, <2>9 DEF RegistryInv
<1>3. CASE ~Known(id)
  <2>1. reg = trackers
    BY <1>1, <1>3 DEF Known
  <2>2. UNCHANGED <<heard, trackers, groups, globals, stats>>
    BY <1>1, <1>3, <2>1 DEF RemoveTracker
  <2> QED BY <1>1, <2>2, GroupFacts, GroupsInv
<1> QED BY <1>2, <1>3

(* A new global callback reaches every registered tracker.               *)
LEMMA CallbacksInv ==
  ASSUME RegistryInv, NEW c \in Callbacks, AddGlobalCallback(c) \/ RemoveGlobalCallback(c)
  PROVE  RegistryInv'
<1>1. /\ trackers \in [Ids -> Trackers \cup {NoTracker}]
      /\ heard \in [Trackers -> SUBSET Callbacks] /\ globals \subseteq Callbacks
      /\ UNCHANGED <<trackers, groups, stats>>
  BY DEF AddGlobalCallback, RemoveGlobalCallback, RegistryInv, RegistryTypes
<1>2. heard' \in [Trackers -> SUBSET Callbacks] /\ globals' \subseteq Callbacks
  BY <1>1 DEF AddGlobalCallback, RemoveGlobalCallback
<1>3. RegistryTypes'
  BY <1>1, <1>2 DEF RegistryInv, RegistryTypes
<1>4. StatsFit'
  BY <1>1 DEF RegistryInv, StatsFit, Counted, Registered
<1>5. ASSUME NEW id \in Registered(trackers) PROVE globals' \subseteq heard'[trackers[id]]
  <2>1. id \in Ids /\ trackers[id] \in Trackers /\ globals \subseteq heard[trackers[id]]
    BY <1>1, RegisteredSets DEF RegistryInv, RegistryConsistent
  <2>2. CASE AddGlobalCallback(c)
    BY <1>1, <2>1, <2>2 DEF AddGlobalCallback
  <2>3. CASE RemoveGlobalCallback(c)
    BY <1>1, <2>1, <2>3 DEF RemoveGlobalCallback
  <2> QED BY <2>2, <2>3
<1>6. RegistryConsistent'
  <2>1. Registered(trackers)' = Registered(trackers)
    BY <1>1 DEF Registered
  <2>2. \A g \in Groups : Members(g)' = Members(g)
    BY <1>1 DEF Members
  <2>3. \A g \in Groups :
          /\ Members(g) \subseteq Registered(trackers)
          /\ \A i, j \in DOMAIN groups'[g] : groups'[g][i] = groups'[g][j] => i = j
    BY <1>1 DEF RegistryInv, RegistryConsistent
  <2> QED BY <1>1, <1>5, <2>1, <2>2, <2>3 DEF RegistryConsistent
<1> QED BY <1>3, <1>4, <1>6 DEF RegistryInv

(* Every call under the write lock keeps the registry.                     *)
LEMMA UpdateInv ==
  ASSUME RegistryInv, StatusType, NEW c \in Calls \cup {Idle.of}, Update(c)
  PROVE  RegistryInv'
<1>1. CASE c.op = "AddTracker" /\ AddTracker(c.id, c.tracker)
  BY <1>1, CallArguments, AddTrackerInv
<1>2. CASE c.op = "RemoveTracker" /\ RemoveTracker(c.id)
  BY <1>2, CallArguments, RemoveTrackerInv
<1>3. CASE c.op = "AddToGroup" /\ AddToGroup(c.group, c.id)
  BY <1>3, CallArguments, AddToGroupInv
<1>4. CASE c.op = "RemoveFromGroup" /\ RemoveFromGroup(c.group, c.id)
  BY <1>4, CallArguments, RemoveFromGroupInv
<1>5. CASE c.op = "AddGlobalCallback" /\ AddGlobalCallback(c.callback)
  BY <1>5, CallArguments, CallbacksInv
<1>6. CASE c.op = "RemoveGlobalCallback" /\ RemoveGlobalCallback(c.callback)
  BY <1>6, CallArguments, CallbacksInv
<1> QED BY <1>1, <1>2, <1>3, <1>4, <1>5, <1>6 DEF Update

-----------------------------------------------------------------------------
(* What one step of a goroutine keeps of the calls.                        *)

(* Goroutine p goes on with the locals r, and the lock gives every other   *)
(* goroutine the claims it had.                                            *)
LEMMA CallStep ==
  ASSUME CallsInv, NEW p \in Procs, NEW r \in CallRecord, StatusType',
         call' = [call EXCEPT ![p] = r], lock' \in Locks,
         LockFits(lock', p, r.at), LocalsFit(r),
         \A q \in Procs \ {p} : /\ Claims(lock', q) = Claims(lock, q)
                                /\ lock'.writer = q <=> lock.writer = q
  PROVE  CallsInv'
<1>1. call \in [Procs -> CallRecord]
  BY DEF CallsInv
<1>2. call' \in [Procs -> CallRecord]
  BY <1>1
<1>3. ASSUME NEW q \in Procs PROVE LockFits(lock', q, call'[q].at) /\ LocalsFit(call'[q])
  <2>1. CASE q = p
    BY <2>1, <1>1
  <2>2. CASE q # p
    <3>1. call'[q] = call[q]
      BY <2>2, <1>1
    <3>2. LockFits(lock, q, call[q].at) /\ LocalsFit(call[q])
      BY DEF CallsInv
    <3>3. LockFits(lock', q, call[q].at)
      BY <2>2, <3>2 DEF LockFits
    <3> QED BY <3>1, <3>2, <3>3
  <2> QED BY <2>1, <2>2
<1> QED BY <1>2, <1>3 DEF CallsInv, LocalsFit

(* The facts of the invariant that a step of goroutine p starts from.      *)
LEMMA CallFacts ==
  ASSUME CallsInv, NEW p \in Procs
  PROVE  /\ lock \in Locks /\ call[p] \in CallRecord /\ LocalsFit(call[p])
         /\ Claims(lock, p) = Wants(call[p].at)
         /\ lock.writer = p <=> call[p].at \in {"write", "count"}
         /\ call[p].of \in Calls \cup {Idle.of} /\ call[p].ids \in Seq(Ids)
BY DEF CallsInv, LockFits, CallRecord

(* A step that leaves the registry alone keeps its invariant.              *)
LEMMA RegistryKept ==
  ASSUME RegistryInv, UNCHANGED registry
  PROVE  RegistryInv'
<1>1. UNCHANGED <<heard, trackers, groups, globals, stats>>
  BY DEF registry
<1> QED BY <1>1, GroupsInv, GroupFacts DEF RegistryInv, RegistryTypes

(* Asking for the write lock makes the goroutine the writer.             *)
LEMMA AnnounceWriteInv ==
  ASSUME CallsInv, NEW p \in Procs,
         \/ AnnounceWrite(p, "lock", "write") \/ AnnounceWrite(p, "relock", "count")
  PROVE  CallsInv'
<1>1. /\ call[p].at \in {"lock", "relock"} /\ lock.writer = Nobody
      /\ lock' = Announce(lock, p) /\ status' = status
  BY DEF AnnounceWrite, At, CanAnnounce
<1>2. PICK at \in {"write", "count"} :
        /\ call' = [call EXCEPT ![p].at = at]
        /\ at = "write" => call[p].at = "lock"
  BY DEF AnnounceWrite, Goto, At
<1> DEFINE r == [call[p] EXCEPT !.at = at]
<1>3. call' = [call EXCEPT ![p] = r]
  BY <1>2
<1>4. /\ r \in CallRecord /\ r.at = at /\ r.of = call[p].of
  <2>1. call[p] \in CallRecord /\ at \in Steps
    BY CallFacts DEF Steps
  <2> QED BY <2>1, RecordWith
<1> HIDE DEF r
<1>5. LocalsFit(r)
  BY <1>2, <1>4, CallFacts DEF LocalsFit
<1>6. lock' \in Locks /\ LockFits(lock', p, r.at)
  <2>1. lock \in Locks /\ Claims(lock, p) = 0
    BY <1>1, CallFacts DEF Wants
  <2>2. lock' \in Locks /\ Claims(lock', p) = Claims(lock, p) /\ lock'.writer = p
    BY <1>1, <2>1, LockTypes, LockClaims
  <2> QED BY <1>4, <2>1, <2>2 DEF LockFits, Wants
<1>7. \A q \in Procs \ {p} : /\ Claims(lock', q) = Claims(lock, q)
                             /\ lock'.writer = q <=> lock.writer = q
  BY <1>1, CallFacts, LockClaims
<1>8. StatusType'
  BY <1>1 DEF CallsInv, StatusType
<1> QED BY <1>3, <1>4, <1>5, <1>6, <1>7, <1>8, CallStep

(* Giving the write lock back leaves everybody the claims he had.          *)
LEMMA UnlockStep ==
  ASSUME CallsInv, NEW p \in Procs, call[p].at \in {"write", "count"},
         NEW r \in CallRecord, LocalsFit(r), r.at \in {"idle", "rlock"},
         call' = [call EXCEPT ![p] = r], lock' = Unlock(lock), status' = status
  PROVE  CallsInv'
<1>1. lock' \in Locks /\ LockFits(lock', p, r.at)
  <2>1. lock \in Locks /\ Claims(lock, p) = 0
    BY CallFacts DEF Wants
  <2>2. lock' \in Locks /\ Claims(lock', p) = Claims(lock, p) /\ lock'.writer = Nobody
    BY <2>1, LockTypes, LockClaims
  <2> QED BY <2>1, <2>2 DEF LockFits, Wants
<1>2. \A q \in Procs \ {p} : /\ Claims(lock', q) = Claims(lock, q)
                             /\ lock'.writer = q <=> lock.writer = q
  BY CallFacts, LockClaims
<1>3. StatusType'
  BY DEF CallsInv, StatusType
<1> QED BY <1>1, <1>2, <1>3, CallStep

(* A call under the write lock.                                          *)
LEMMA WriteInv ==
  ASSUME IInv, NEW p \in Procs, Write(p)
  PROVE  IInv'
<1>1. /\ call[p].at = "write" /\ Update(call[p].of) /\ lock' = Unlock(lock)
      /\ call' = [call EXCEPT ![p] = Idle] /\ status' = status
  BY DEF Write, At
<1>2. CallsInv'
  BY <1>1, IdleRecord, UnlockStep DEF IInv
<1>3. RegistryInv'
  BY <1>1, CallFacts, UpdateInv DEF IInv, CallsInv
<1> QED BY <1>2, <1>3 DEF IInv

(* GetStats counts anew and goes back for its read lock.                 *)
LEMMA CountAnewInv ==
  ASSUME IInv, NEW p \in Procs, CountAnew(p)
  PROVE  IInv'
<1> DEFINE r == [call[p] EXCEPT !.at = "rlock", !.counted = TRUE]
<1>1. /\ call[p].at = "count" /\ UpdateStats(trackers, stats.total) /\ lock' = Unlock(lock)
      /\ call' = [call EXCEPT ![p] = r] /\ status' = status
      /\ UNCHANGED <<heard, trackers, groups, globals>>
  BY DEF CountAnew, At
<1>2. r \in CallRecord /\ r.at = "rlock"
  <2>1. call[p] \in CallRecord
    BY CallFacts DEF IInv
  <2> QED BY <2>1 DEF CallRecord, Steps
<1> HIDE DEF r
<1>3. LocalsFit(r)
  BY <1>2 DEF LocalsFit
<1>4. CallsInv'
  BY <1>1, <1>2, <1>3, UnlockStep DEF IInv
<1>5. /\ trackers \in [Ids -> Trackers \cup {NoTracker}] /\ stats.total \in Int
      /\ Cardinality(Registered(trackers)) <= stats.total /\ StatusType
  BY TotalType DEF IInv, RegistryInv, RegistryTypes, StatsFit, CallsInv
<1>6. stats' \in Stats /\ StatsFit'
  BY <1>1, <1>5, CountedAnew
<1>7. RegistryTypes'
  BY <1>1, <1>6 DEF IInv, RegistryInv, RegistryTypes
<1>8. RegistryConsistent'
  BY <1>1 DEF IInv, RegistryInv, RegistryConsistent, Members, Registered
<1> QED BY <1>4, <1>6, <1>7, <1>8 DEF IInv, RegistryInv

(* Asking for a read lock adds one claim.                                *)
LEMMA ReadLockInv ==
  ASSUME CallsInv, NEW p \in Procs,
         \/ ReadLock(p, "rlock", "read") \/ ReadLock(p, "outer", "inner")
         \/ ReadLock(p, "inner", "copy")
         \/ call[p].ids # <<>> /\ ReadLock(p, "each", "look")
  PROVE  CallsInv'
<1>1. Runs(lock, p) /\ lock' = RLock(lock, p) /\ status' = status
  BY DEF ReadLock, At
<1>2. PICK at \in {"read", "inner", "copy", "look"} :
        /\ call' = [call EXCEPT ![p].at = at]
        /\ at = "read" => call[p].at = "rlock"
        /\ at = "inner" => call[p].at = "outer"
        /\ at = "copy" => call[p].at = "inner"
        /\ at = "look" => call[p].at = "each" /\ call[p].ids # <<>>
  BY DEF ReadLock, Goto, At
<1> DEFINE r == [call[p] EXCEPT !.at = at]
<1>3. call' = [call EXCEPT ![p] = r]
  BY <1>2
<1>4. r \in CallRecord /\ r.at = at /\ r.of = call[p].of /\ r.ids = call[p].ids
  <2>1. call[p] \in CallRecord /\ at \in Steps
    BY CallFacts DEF Steps
  <2> QED BY <2>1, RecordWith
<1> HIDE DEF r
<1>5. LocalsFit(r)
  BY <1>2, <1>4, CallFacts DEF LocalsFit
<1>6. lock' \in Locks
  BY <1>1, CallFacts, LockTypes
<1>7. Claims(lock', p) = Claims(lock, p) + 1 /\ lock'.writer = lock.writer
  BY <1>1, CallFacts, LockClaims
<1>8. LockFits(lock', p, r.at)
  BY <1>2, <1>4, <1>7, CallFacts DEF LockFits, Wants
<1>9. \A q \in Procs \ {p} : /\ Claims(lock', q) = Claims(lock, q)
                             /\ lock'.writer = q <=> lock.writer = q
  <2>1. \A q \in Procs \ {p} : Claims(lock', q) = Claims(lock, q) + 0
    BY <1>1, CallFacts, LockClaims
  <2>2. \A q \in Procs : Claims(lock, q) \in Int
    BY CallFacts DEF Locks, Claims
  <2> QED BY <1>7, <2>1, <2>2
<1>10. StatusType'
  BY <1>1 DEF CallsInv, StatusType
<1> QED BY <1>3, <1>4, <1>5, <1>6, <1>8, <1>9, <1>10, CallStep

(* Giving read locks back: as many as the goroutine asked for at its step. *)
LEMMA RUnlockStep ==
  ASSUME CallsInv, NEW p \in Procs, Runs(lock, p), NEW n \in {1, 2},
         Wants(call[p].at) = n, call[p].at \in {"read", "copy", "look"},
         NEW r \in CallRecord, LocalsFit(r), r.at \in {"return", "relock", "each", "ask"},
         call' = [call EXCEPT ![p] = r], lock' = RUnlock(lock, p, n), status' = status
  PROVE  CallsInv'
<1>1. lock \in Locks /\ n \in Nat /\ n <= lock.reads[p]
  BY CallFacts, RunningHolds
<1>2. lock' \in Locks
  BY <1>1, LockTypes
<1>3. Claims(lock', p) = Claims(lock, p) - n /\ lock'.writer = lock.writer
  BY <1>1, LockClaims
<1>4. LockFits(lock', p, r.at)
  BY <1>3, CallFacts DEF LockFits, Wants
<1>5. \A q \in Procs \ {p} : /\ Claims(lock', q) = Claims(lock, q)
                             /\ lock'.writer = q <=> lock.writer = q
  <2>1. \A q \in Procs \ {p} : Claims(lock', q) = Claims(lock, q) - 0
    BY <1>1, LockClaims
  <2>2. \A q \in Procs : Claims(lock, q) \in Int
    BY <1>1 DEF Locks, Claims
  <2> QED BY <1>3, <2>1, <2>2
<1>6. StatusType'
  BY DEF CallsInv, StatusType
<1> QED BY <1>2, <1>4, <1>5, <1>6, CallStep

(* The answer of a getter adds up.                                         *)
LEMMA AnswerInv ==
  ASSUME IInv, NEW p \in Procs, GetStats(p) \/ GetGroupStats(p)
  PROVE  CallsInv'
<1>1. /\ call[p].at = "read" /\ Runs(lock, p)
      /\ call[p].of.op = "GetStats" \/ call[p].of.op = "GetGroupStats"
  BY DEF GetStats, GetGroupStats, At
<1>2. \E s \in Stats : /\ Answer(p, s) /\ Counted(s) <= s.total
                       /\ call[p].of.op = "GetGroupStats" => Counted(s) = s.total
  <2>1. CASE GetStats(p)
    <3>1. Answer(p, stats) /\ call[p].of.op # "GetGroupStats"
      BY <2>1 DEF GetStats
    <3>2. stats \in Stats /\ Counted(stats) <= stats.total
      BY DEF IInv, RegistryInv, RegistryTypes, StatsFit
    <3> QED BY <3>1, <3>2
  <2>2. CASE GetGroupStats(p)
    <3> DEFINE g == call[p].of.group
               ids == Members(g) \cap Registered(trackers)
    <3>1. Answer(p, GroupStats(g)) /\ call[p].of.op = "GetGroupStats"
      BY <2>2 DEF GetGroupStats
    <3>2. trackers \in [Ids -> Trackers \cup {NoTracker}] /\ StatusType
      BY DEF IInv, RegistryInv, RegistryTypes, CallsInv
    <3>3. ids \in SUBSET Ids /\ \A id \in ids : trackers[id] \in Trackers
      BY <3>2, RegisteredSets
    <3>4. IsFiniteSet(ids) /\ Cardinality(ids) \in Nat
      BY <3>3, FS_Subset, FS_CardinalityType
    <3>5. GroupStats(g) = Tally(ids, trackers, Cardinality(ids))
      BY DEF GroupStats
    <3> HIDE DEF ids
    <3>6. /\ GroupStats(g) \in Stats
          /\ GroupStats(g).total = Cardinality(ids)
          /\ Counted(GroupStats(g)) = Cardinality(ids)
      BY <3>2, <3>3, <3>4, <3>5, TallyCounts DEF StatusType
    <3> QED BY <3>1, <3>4, <3>6
  <2> QED BY <2>1, <2>2
<1>3. PICK s \in Stats : /\ Answer(p, s) /\ Counted(s) <= s.total
                         /\ call[p].of.op = "GetGroupStats" => Counted(s) = s.total
  BY <1>2
<1> DEFINE r == [call[p] EXCEPT !.at = "return", !.answer = s]
<1>4. lock' = RUnlock(lock, p, 1) /\ call' = [call EXCEPT ![p] = r] /\ status' = status
  BY <1>3 DEF Answer
<1>5. r \in CallRecord /\ r.at = "return" /\ r.of = call[p].of /\ r.answer = s
  <2>1. call[p] \in CallRecord
    BY CallFacts DEF IInv
  <2> QED BY <2>1 DEF CallRecord, Steps
<1> HIDE DEF r
<1>6. LocalsFit(r)
  BY <1>3, <1>5 DEF LocalsFit
<1>7. Wants(call[p].at) = 1
  BY <1>1 DEF Wants
<1> QED BY <1>1, <1>4, <1>5, <1>6, <1>7, RUnlockStep DEF IInv

(* GetStats gives its read lock back before it asks for the write lock.  *)
LEMMA OutdatedInv ==
  ASSUME CallsInv, NEW p \in Procs, Outdated(p)
  PROVE  CallsInv'
<1> DEFINE r == [call[p] EXCEPT !.at = "relock"]
<1>1. /\ call[p].at = "read" /\ Runs(lock, p) /\ lock' = RUnlock(lock, p, 1)
      /\ call' = [call EXCEPT ![p] = r] /\ status' = status
  BY DEF Outdated, At, Upgrading, Goto
<1>2. r \in CallRecord /\ r.at = "relock"
  BY CallFacts, RecordWith DEF Steps
<1> HIDE DEF r
<1>3. LocalsFit(r) /\ Wants(call[p].at) = 1
  BY <1>1, <1>2 DEF LocalsFit, Wants
<1> QED BY <1>1, <1>2, <1>3, RUnlockStep

(* A group operation gives both its read locks back.                     *)
LEMMA CopyMembersInv ==
  ASSUME IInv, NEW p \in Procs, CopyMembers(p)
  PROVE  CallsInv'
<1> DEFINE r == [call[p] EXCEPT !.at = "each", !.ids = groups[call[p].of.group]]
<1>1. /\ call[p].at = "copy" /\ Runs(lock, p) /\ lock' = RUnlock(lock, p, 2)
      /\ call' = [call EXCEPT ![p] = r] /\ status' = status
  BY DEF CopyMembers, At, Released
<1>2. groups[call[p].of.group] \in Seq(Ids)
  BY <1>1, CallFacts, CallArguments DEF IInv, LocalsFit, RegistryInv, RegistryTypes
<1>3. r \in CallRecord /\ r.at = "each"
  <2>1. call[p] \in CallRecord
    BY CallFacts DEF IInv
  <2> QED BY <1>2, <2>1 DEF CallRecord, Steps
<1> HIDE DEF r
<1>4. LocalsFit(r) /\ Wants(call[p].at) = 2
  BY <1>1, <1>3 DEF LocalsFit, Wants
<1> QED BY <1>1, <1>3, <1>4, RUnlockStep DEF IInv

(* It looks one member up under a lock of its own.                       *)
LEMMA LookUpInv ==
  ASSUME IInv, NEW p \in Procs, LookUp(p)
  PROVE  CallsInv'
<1>1. /\ call[p].at = "look" /\ Runs(lock, p) /\ lock' = RUnlock(lock, p, 1)
      /\ status' = status
  BY DEF LookUp, At
<1>2. /\ call[p].ids \in Seq(Ids) /\ call[p].ids # <<>> /\ call[p] \in CallRecord
      /\ trackers \in [Ids -> Trackers \cup {NoTracker}]
  BY <1>1, CallFacts DEF IInv, LocalsFit, RegistryInv, RegistryTypes
<1>3. Head(call[p].ids) \in Ids /\ Tail(call[p].ids) \in Seq(Ids)
  BY <1>2
<1>4. Wants(call[p].at) = 1
  BY <1>1 DEF Wants
<1>5. CASE Known(Head(call[p].ids))
  <2> DEFINE r == [call[p] EXCEPT !.at = "ask", !.tracker = trackers[Head(call[p].ids)]]
  <2>1. call' = [call EXCEPT ![p] = r]
    BY <1>5 DEF LookUp
  <2>2. trackers[Head(call[p].ids)] \in Trackers
    BY <1>2, <1>3, <1>5 DEF Known
  <2>3. r \in CallRecord /\ r.at = "ask" /\ r.ids = call[p].ids /\ r.tracker \in Trackers
    BY <1>2, <2>2 DEF CallRecord, Steps
  <2> HIDE DEF r
  <2>4. LocalsFit(r)
    BY <1>2, <2>3 DEF LocalsFit
  <2> QED BY <1>1, <1>4, <2>1, <2>3, <2>4, RUnlockStep DEF IInv
<1>6. CASE ~Known(Head(call[p].ids))
  <2> DEFINE r == [call[p] EXCEPT !.at = "each", !.ids = Tail(@)]
  <2>1. call' = [call EXCEPT ![p] = r]
    BY <1>6 DEF LookUp
  <2>2. r \in CallRecord /\ r.at = "each"
    BY <1>2, <1>3 DEF CallRecord, Steps
  <2> HIDE DEF r
  <2>3. LocalsFit(r)
    BY <2>2 DEF LocalsFit
  <2> QED BY <1>1, <1>4, <2>1, <2>2, <2>3, RUnlockStep DEF IInv
<1> QED BY <1>5, <1>6

(* A step without the lock: only the goroutine's locals change.            *)
LEMMA UnlockedStep ==
  ASSUME CallsInv, NEW p \in Procs, call[p].at \in {"idle", "return", "each", "ask"},
         NEW r \in CallRecord, LocalsFit(r),
         r.at \in {"idle", "lock", "outer", "rlock", "each"},
         call' = [call EXCEPT ![p] = r], lock' = lock, StatusType'
  PROVE  CallsInv'
<1>1. lock' \in Locks /\ LockFits(lock', p, r.at)
  BY CallFacts DEF LockFits, Wants
<1>2. \A q \in Procs \ {p} : /\ Claims(lock', q) = Claims(lock, q)
                             /\ lock'.writer = q <=> lock.writer = q
  OBVIOUS
<1> QED BY <1>1, <1>2, CallStep

(* A call ends outside the lock.                                         *)
LEMMA ReturnInv ==
  ASSUME CallsInv, NEW p \in Procs, Return(p) \/ GroupDone(p)
  PROVE  CallsInv'
<1>1. /\ call[p].at \in {"return", "each"} /\ lock' = lock /\ status' = status
      /\ call' = [call EXCEPT ![p] = Idle]
  BY DEF Return, GroupDone, At
<1>2. StatusType'
  BY <1>1 DEF CallsInv, StatusType
<1>3. Idle.at \in {"idle", "lock", "outer", "rlock", "each"}
  BY IdleRecord
<1> QED BY <1>1, <1>2, <1>3, IdleRecord, UnlockedStep

(* A call begins outside the lock, with arguments of its kind.           *)
LEMMA BeginInv ==
  ASSUME CallsInv, NEW p \in Procs, NEW c \in Jobs[p], Begin(p, c)
  PROVE  CallsInv'
<1> DEFINE at == IF c \in WriteCalls THEN "lock" ELSE IF c \in GroupCalls THEN "outer" ELSE "rlock"
           r == [Idle EXCEPT !.of = c, !.at = at]
<1>1. /\ call[p].at = "idle" /\ lock' = lock /\ status' = status
      /\ call' = [call EXCEPT ![p] = r]
  BY DEF Begin, At
<1>2. c \in Calls /\ at \in {"lock", "outer", "rlock"}
  OBVIOUS
<1>3. r \in CallRecord /\ r.at = at /\ r.of = c
  BY <1>2, IdleRecord DEF CallRecord, Steps
<1>4. LocalsFit(r)
  <2>1. r.at = "lock" => r.of \in WriteCalls
    BY <1>3
  <2>2. r.at = "outer" => r.of \in GroupCalls
    BY <1>3
  <2> HIDE DEF r, at
  <2> QED BY <1>2, <1>3, <2>1, <2>2 DEF LocalsFit
<1>5. StatusType'
  BY <1>1 DEF CallsInv, StatusType
<1> HIDE DEF r, at
<1> QED BY <1>1, <1>2, <1>3, <1>4, <1>5, UnlockedStep

(* PauseTracking, ResumeTracking and StopTracking leave a status.          *)
LEMMA AskedStatus ==
  ASSUME NEW op, NEW old \in Statuses
  PROVE  Asked(op, old) \in Statuses
BY DEF Asked, Statuses, TR!Statuses

(* A group operation asks the tracker it looked up.                      *)
LEMMA AskTrackerInv ==
  ASSUME CallsInv, NEW p \in Procs, AskTracker(p)
  PROVE  CallsInv'
<1> DEFINE r == [call[p] EXCEPT !.at = "each", !.ids = Tail(@), !.tracker = NoTracker]
           t == call[p].tracker
           id == Head(call[p].ids)
<1>1. /\ call[p].at = "ask" /\ lock' = lock /\ call' = [call EXCEPT ![p] = r]
      /\ status' = [status EXCEPT ![t][id] = Asked(call[p].of.op, @)]
  BY DEF AskTracker, At
<1>2. /\ call[p] \in CallRecord /\ call[p].ids \in Seq(Ids) /\ call[p].ids # <<>>
      /\ t \in Trackers
  BY <1>1, CallFacts DEF LocalsFit
<1>3. id \in Ids /\ Tail(call[p].ids) \in Seq(Ids)
  BY <1>2
<1>4. r \in CallRecord /\ r.at = "each"
  BY <1>2, <1>3 DEF CallRecord, Steps
<1> HIDE DEF r, t, id
<1>5. LocalsFit(r)
  BY <1>4 DEF LocalsFit
<1>6. StatusType'
  <2>1. status \in [Trackers -> [Ids -> Statuses]]
    BY DEF CallsInv, StatusType
  <2>2. Asked(call[p].of.op, status[t][id]) \in Statuses
    BY <1>2, <1>3, <2>1, AskedStatus
  <2> QED BY <1>1, <1>2, <1>3, <2>1, <2>2 DEF StatusType
<1> QED BY <1>1, <1>4, <1>5, <1>6, UnlockedStep

(* The application moves a transfer on.                                  *)
LEMMA MoveOnInv ==
  ASSUME CallsInv, NEW t \in Trackers, NEW id \in Ids, NEW new \in Statuses, MoveOn(t, id, new)
  PROVE  CallsInv'
<1>1. StatusType'
  BY DEF MoveOn, CallsInv, StatusType
<1>2. lock' = lock /\ call' = call
  BY DEF MoveOn
<1> QED BY <1>1, <1>2 DEF CallsInv

-----------------------------------------------------------------------------
(* The dashboard starts with the invariant and keeps it.                   *)

(* It holds when nothing is registered and nobody is in a call.            *)
LEMMA InitIInv == Init => IInv
<1> SUFFICES ASSUME Init PROVE IInv
  OBVIOUS
<1>1. CallsInv
  <2>1. StatusType
    BY DEF Init, StatusType
  <2>2. lock \in Locks /\ call \in [Procs -> CallRecord]
    BY UnlockedLock, IdleRecord DEF Init
  <2>3. ASSUME NEW p \in Procs PROVE LockFits(lock, p, call[p].at) /\ LocalsFit(call[p])
    <3>1. call[p] = Idle /\ lock = Unlocked
      BY DEF Init
    <3>2. Idle.at = "idle" /\ LocalsFit(Idle) /\ Wants("idle") = 0
      BY IdleRecord
    <3>3. Unlocked.writer # p /\ Claims(Unlocked, p) = 0
      BY UnlockedLock
    <3> QED BY <3>1, <3>2, <3>3 DEF LockFits
  <2> QED BY <2>1, <2>2, <2>3 DEF CallsInv
<1>2. RegistryInv
  <2>1. RegistryTypes
    BY IdleRecord DEF Init, RegistryTypes
  <2>2. Registered(trackers) = {}
    BY DEF Init, Registered
  <2>3. RegistryConsistent
    BY <2>2 DEF Init, RegistryConsistent, Members
  <2>4. StatsFit
    <3>1. Cardinality(Registered(trackers)) = 0
      BY <2>2, FS_EmptySet
    <3>2. stats = NoStats
      BY DEF Init
    <3> QED BY <3>1, <3>2, IdleRecord DEF StatsFit
  <2> QED BY <2>1, <2>3, <2>4 DEF RegistryInv
<1> QED BY <1>1, <1>2 DEF IInv

(* What a goroutine does of itself keeps the invariant.                    *)
LEMMA StepIInv ==
  ASSUME IInv, NEW p \in Procs, Step(p)
  PROVE  IInv'
<1>1. CallsInv /\ RegistryInv
  BY DEF IInv
<1>2. CASE AnnounceWrite(p, "lock", "write") \/ AnnounceWrite(p, "relock", "count")
  <2>1. UNCHANGED registry
    BY <1>2 DEF AnnounceWrite
  <2> QED BY <1>1, <1>2, <2>1, AnnounceWriteInv, RegistryKept DEF IInv
<1>3. CASE Write(p) \/ CountAnew(p)
  BY <1>3, WriteInv, CountAnewInv
<1>4. CASE \/ ReadLock(p, "rlock", "read") \/ ReadLock(p, "outer", "inner")
           \/ ReadLock(p, "inner", "copy")
           \/ call[p].ids # <<>> /\ ReadLock(p, "each", "look")
  <2>1. UNCHANGED registry
    BY <1>4 DEF ReadLock
  <2> QED BY <1>1, <1>4, <2>1, ReadLockInv, RegistryKept DEF IInv
<1>5. CASE GetStats(p) \/ GetGroupStats(p)
  <2>1. UNCHANGED registry
    BY <1>5 DEF GetStats, GetGroupStats, Answer
  <2> QED BY <1>1, <1>5, <2>1, AnswerInv, RegistryKept DEF IInv
<1>6. CASE Outdated(p)
  <2>1. UNCHANGED registry
    BY <1>6 DEF Outdated
  <2> QED BY <1>1, <1>6, <2>1, OutdatedInv, RegistryKept DEF IInv
<1>7. CASE CopyMembers(p)
  <2>1. UNCHANGED registry
    BY <1>7 DEF CopyMembers
  <2> QED BY <1>1, <1>7, <2>1, CopyMembersInv, RegistryKept DEF IInv
<1>8. CASE LookUp(p)
  <2>1. UNCHANGED registry
    BY <1>8 DEF LookUp
  <2> QED BY <1>1, <1>8, <2>1, LookUpInv, RegistryKept DEF IInv
<1>9. CASE Return(p) \/ GroupDone(p)
  <2>1. UNCHANGED registry
    BY <1>9 DEF Return, GroupDone
  <2> QED BY <1>1, <1>9, <2>1, ReturnInv, RegistryKept DEF IInv
<1>10. CASE AskTracker(p)
  <2>1. UNCHANGED registry
    BY <1>10 DEF AskTracker
  <2> QED BY <1>1, <1>10, <2>1, AskTrackerInv, RegistryKept DEF IInv
<1> QED BY <1>2, <1>3, <1>4, <1>5, <1>6, <1>7, <1>8, <1>9, <1>10 DEF Step

(* Every step keeps it.                                                    *)
LEMMA NextIInv == IInv /\ [Next]_vars => IInv'
<1> SUFFICES ASSUME IInv, [Next]_vars PROVE IInv'
  OBVIOUS
<1>1. CallsInv /\ RegistryInv
  BY DEF IInv
<1>2. ASSUME NEW p \in Procs, Step(p) PROVE IInv'
  BY <1>2, StepIInv
<1>3. ASSUME NEW p \in Procs, NEW c \in Jobs[p], Begin(p, c) PROVE IInv'
  <2>1. UNCHANGED registry
    BY <1>3 DEF Begin
  <2> QED BY <1>1, <1>3, <2>1, BeginInv, RegistryKept DEF IInv
<1>4. ASSUME NEW t \in Trackers, NEW id \in Ids, NEW new \in Statuses, MoveOn(t, id, new)
      PROVE  IInv'
  <2>1. UNCHANGED registry
    BY <1>4 DEF MoveOn
  <2> QED BY <1>1, <1>4, <2>1, MoveOnInv, RegistryKept DEF IInv
<1>5. CASE UNCHANGED vars
  <2>1. UNCHANGED registry /\ UNCHANGED <<status, lock, call>>
    BY <1>5 DEF vars
  <2>2. CallsInv'
    BY <1>1, <2>1 DEF CallsInv, StatusType
  <2> QED BY <1>1, <2>1, <2>2, RegistryKept DEF IInv
<1> QED BY <1>2, <1>3, <1>4, <1>5 DEF Next

(* A goroutine never has more than two read locks.                         *)
LEMMA AtMostTwoReads ==
  ASSUME CallsInv, NEW p \in Procs
  PROVE  lock.reads[p] <= 2
<1>1. lock \in Locks /\ Claims(lock, p) = Wants(call[p].at)
  BY CallFacts
<1>2. lock.reads[p] \in Nat
  BY <1>1 DEF Locks
<1>3. Wants(call[p].at) <= 2 /\ Wants(call[p].at) \in Nat
  BY DEF Wants
<1> QED BY <1>1, <1>2, <1>3 DEF Claims

(* The invariant always holds.                                             *)
LEMMA SpecIInv == Spec => []IInv
<1>1. IInv /\ [Next]_vars => IInv'
  BY NextIInv
<1> QED BY InitIInv, <1>1, PTL DEF Spec

(* Every variable holds a value of the kind the code gives it, whatever    *)
(* the goroutines and their calls; above all, a goroutine never has more   *)
(* than the two read locks of a group operation.                           *)
THEOREM TypeCorrect == Spec => []TypeOK
<1>1. IInv => TypeOK
  BY AtMostTwoReads DEF IInv, CallsInv, StatusType, RegistryInv, RegistryTypes, TypeOK
<1> QED BY SpecIInv, <1>1, PTL

(* The groups have only registered transfers, each once, and a registered  *)
(* tracker notifies every global callback, in whatever order trackers,     *)
(* groups and callbacks come and go.                                       *)
THEOREM RegistryIsConsistent == Spec => []RegistryConsistent
<1>1. IInv => RegistryConsistent
  BY DEF IInv, RegistryInv
<1> QED BY SpecIInv, <1>1, PTL

(* The statistics count every registered transfer exactly once, and every  *)
(* answer a getter returns adds up, for any number of transfers.           *)
THEOREM StatsAreConsistent == Spec => []StatsAddUp
<1>1. ASSUME IInv PROVE StatsAddUp
  <2>1. StatsFit /\ \A p \in Procs : LocalsFit(call[p])
    BY <1>1 DEF IInv, RegistryInv, CallsInv
  <2> QED BY <2>1 DEF StatsFit, LocalsFit, StatsAddUp
<1> QED BY SpecIInv, <1>1, PTL

=============================================================================
