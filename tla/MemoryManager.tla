---------------------------- MODULE MemoryManager ----------------------------
(***************************************************************************)
(* The memory manager (src/memory_manager.go): a ledger of the bytes that  *)
(* buffers report, a block of emergency memory, and a goroutine that       *)
(* watches the pressure and frees or takes back the block.                 *)
(*                                                                         *)
(* What the runtime says of the memory in use is a choice of the level.    *)
(* Every operation holds mu from its first to its last line, so that it is *)
(* one step, except a RecordAllocation beyond the limit: it asks for mu    *)
(* once more and keeps it for ever (locked).  The listeners, which are     *)
(* told in goroutines of their own, and the buffers that a cleanup resets  *)
(* are left out.                                                           *)
(***************************************************************************)
EXTENDS Integers

CONSTANTS
  Starters,          \* calls of Start; each may launch a monitor
  Stoppers,          \* calls of Stop
  Preallocated,      \* EnablePreallocation /\ PreallocationSize > 0
  MemoryUsageLimit,  \* 0 for none
  Sizes,             \* sizes reported by the buffers
  MaxReports         \* bound: calls of RecordAllocation and RecordRelease

ASSUME PreallocatedAssumption == Preallocated \in BOOLEAN
ASSUME SizesAssumption == Sizes \subseteq Nat /\ MemoryUsageLimit \in Nat
ASSUME ReportsAssumption == MaxReports \in Nat

VARIABLES
  running,     \* 0 or 1, changed by compare-and-swap
  stopClosed,  \* stopCh is closed
  crashed,     \* stopCh was closed twice
  start, stop, \* the step of each call
  monitor,     \* the goroutine each Start launched
  level,       \* stats.MemoryPressureLevel
  emergency,   \* emergencyMemory # nil
  interfered,  \* history: the application freed or took back the block
  allocated,   \* stats.AllocatedMemory
  peak,        \* stats.PeakMemoryUsage
  balance,     \* history: bytes reported allocated minus bytes reported released
  lowest,      \* history: the least balance so far, at most 0
  reports,     \* history: reports so far
  locked       \* a RecordAllocation waits for the mutex it holds

lifeVars   == <<running, stopClosed, crashed, start, stop>>
ledgerVars == <<allocated, peak, balance, lowest, reports, locked>>
blockVars  == <<emergency, interfered>>
memoryVars == <<lifeVars, monitor, level, blockVars, ledgerVars>>

Levels == 0..2
MonitorSteps == {"off", "wait",
                 "read",    \* ticked
                 "detect",  \* has read the old level
                 "write",   \* has a different new one
                 "handle",  \* has stored it
                 "refill",  \* has found no emergency memory
                 "ended"}
Off == [pc |-> "off", old |-> 0, new |-> 0]

MemoryInit ==
  /\ running = 0 /\ stopClosed = FALSE /\ crashed = FALSE
  /\ start = [g \in Starters |-> "idle"]
  /\ stop = [q \in Stoppers |-> "idle"]
  /\ monitor = [g \in Starters |-> Off]
  /\ level = 0
  /\ emergency = Preallocated /\ interfered = FALSE
  /\ allocated = 0 /\ peak = 0 /\ balance = 0 /\ lowest = 0 /\ reports = 0
  /\ locked = FALSE

-----------------------------------------------------------------------------
(* Faulty variants, one per property: TLC must reject them.                *)

(* A release may take the ledger below zero.                               *)
AfterRelease_Negative(n) == allocated - n

(* A release of more than is allocated is ignored.                         *)
AfterRelease_Ignored(n) == IF n > allocated THEN allocated ELSE allocated - n

(* The emergency memory goes only when the pressure jumps from low to high. *)
FreesBlock_OnJump(m) == m.old = 0 /\ m.new = 2

-----------------------------------------------------------------------------
(* Start and Stop.  A second close of stopCh, which is never made anew,    *)
(* panics.                                                                 *)

Start(g) ==
  /\ start[g] = "idle"
  /\ start' = [start EXCEPT ![g] = "done"]
  /\ running' = 1
  /\ monitor' = IF running = 0 THEN [monitor EXCEPT ![g].pc = "wait"] ELSE monitor
  /\ UNCHANGED <<stopClosed, crashed, stop, level, blockVars, ledgerVars>>

StopSwap(q) ==
  /\ stop[q] = "idle"
  /\ stop' = [stop EXCEPT ![q] = IF running = 1 THEN "close" ELSE "done"]
  /\ running' = 0
  /\ UNCHANGED <<stopClosed, crashed, start, monitor, level, blockVars, ledgerVars>>

StopClose(q) ==
  /\ stop[q] = "close"
  /\ stop' = [stop EXCEPT ![q] = "done"]
  /\ IF stopClosed THEN crashed' = TRUE /\ UNCHANGED stopClosed
                   ELSE stopClosed' = TRUE /\ UNCHANGED crashed
  /\ UNCHANGED <<running, start, monitor, level, blockVars, ledgerVars>>

-----------------------------------------------------------------------------
(* The ledger.                                                             *)

RecordAllocation(n) ==
  /\ ~locked /\ reports < MaxReports
  /\ allocated' = allocated + n
  /\ balance' = balance + n
  /\ peak' = IF allocated' > peak THEN allocated' ELSE peak
  /\ locked' = (MemoryUsageLimit > 0 /\ allocated' > MemoryUsageLimit)
  /\ reports' = reports + 1
  /\ UNCHANGED <<lifeVars, monitor, level, blockVars, lowest>>

AfterRelease(n) == IF n > allocated THEN 0 ELSE allocated - n

RecordRelease(n) ==
  /\ ~locked /\ reports < MaxReports
  /\ allocated' = AfterRelease(n)
  /\ balance' = balance - n
  /\ lowest' = IF balance' < lowest THEN balance' ELSE lowest
  /\ reports' = reports + 1
  /\ UNCHANGED <<lifeVars, monitor, level, blockVars, peak, locked>>

-----------------------------------------------------------------------------
(* The emergency memory, by the application or by a monitor.               *)

ReleaseEmergencyMemory == ~locked /\ emergency' = FALSE
ReallocateEmergencyMemory == ~locked /\ emergency' = (emergency \/ Preallocated)

AppEmergency ==
  /\ ReleaseEmergencyMemory \/ ReallocateEmergencyMemory
  /\ interfered' = TRUE
  /\ UNCHANGED <<lifeVars, monitor, level, ledgerVars>>

-----------------------------------------------------------------------------
(* The goroutine that watches the pressure.                                *)

Goto(g, step) == monitor' = [monitor EXCEPT ![g].pc = step]

(* The select: with a tick and a closed stopCh, either.                    *)
Tick(g) ==
  /\ monitor[g].pc = "wait"
  /\ Goto(g, "read")
  /\ UNCHANGED <<lifeVars, level, blockVars, ledgerVars>>

End(g) ==
  /\ monitor[g].pc = "wait" /\ stopClosed
  /\ Goto(g, "ended")
  /\ UNCHANGED <<lifeVars, level, blockVars, ledgerVars>>

ReadLevel(g) ==
  /\ monitor[g].pc = "read" /\ ~locked
  /\ monitor' = [monitor EXCEPT ![g] = [pc |-> "detect", old |-> level, new |-> level]]
  /\ UNCHANGED <<lifeVars, level, blockVars, ledgerVars>>

Detect(g) ==
  /\ monitor[g].pc = "detect"
  /\ \E new \in Levels :
       monitor' = [monitor EXCEPT ![g].new = new,
                                  ![g].pc = IF new = monitor[g].old THEN "wait" ELSE "write"]
  /\ UNCHANGED <<lifeVars, level, blockVars, ledgerVars>>

WriteLevel(g) ==
  /\ monitor[g].pc = "write" /\ ~locked
  /\ level' = monitor[g].new
  /\ Goto(g, "handle")
  /\ UNCHANGED <<lifeVars, blockVars, ledgerVars>>

FreesBlock(m) == m.new > m.old /\ m.new = 2
MayRefill(m)  == m.new < m.old /\ m.new = 0

HandleFree(g) ==
  /\ monitor[g].pc = "handle" /\ FreesBlock(monitor[g])
  /\ ReleaseEmergencyMemory
  /\ Goto(g, "wait")
  /\ UNCHANGED <<lifeVars, level, interfered, ledgerVars>>

(* emergencyMemory == nil is asked without the lock.                       *)
HandleOther(g) ==
  /\ monitor[g].pc = "handle" /\ ~FreesBlock(monitor[g])
  /\ Goto(g, IF MayRefill(monitor[g]) /\ ~emergency THEN "refill" ELSE "wait")
  /\ UNCHANGED <<lifeVars, level, blockVars, ledgerVars>>

Refill(g) ==
  /\ monitor[g].pc = "refill"
  /\ ReallocateEmergencyMemory
  /\ Goto(g, "wait")
  /\ UNCHANGED <<lifeVars, level, interfered, ledgerVars>>

MonitorStep(g) ==
  \/ Tick(g) \/ End(g) \/ ReadLevel(g) \/ Detect(g)
  \/ WriteLevel(g) \/ HandleFree(g) \/ HandleOther(g) \/ Refill(g)

MemoryNext ==
  /\ ~crashed
  /\ \/ \E g \in Starters : Start(g) \/ MonitorStep(g)
     \/ \E q \in Stoppers : StopSwap(q) \/ StopClose(q)
     \/ \E n \in Sizes : RecordAllocation(n) \/ RecordRelease(n)
     \/ AppEmergency

MemorySpec == MemoryInit /\ [][MemoryNext]_memoryVars

-----------------------------------------------------------------------------
(* Properties.                                                             *)

(* The variables stay within their types; the ledger is never negative.    *)
MemoryTypeOK ==
  /\ running \in {0, 1} /\ stopClosed \in BOOLEAN /\ crashed \in BOOLEAN
  /\ start \in [Starters -> {"idle", "done"}]
  /\ stop \in [Stoppers -> {"idle", "close", "done"}]
  /\ monitor \in [Starters -> [pc : MonitorSteps, old : Levels, new : Levels]]
  /\ level \in Levels
  /\ emergency \in BOOLEAN /\ interfered \in BOOLEAN
  /\ allocated \in Nat /\ peak \in Nat
  /\ balance \in Int /\ lowest \in Int /\ reports \in Nat
  /\ locked \in BOOLEAN

(* Reports of allocations and releases may come in any order, a release    *)
(* before its allocation, too.  The ledger is then ahead of the balance by *)
(* exactly the deepest deficit so far: it never shows less than is out,    *)
(* and is exact while no release has come early.  The peak covers it.      *)
LedgerExact ==
  /\ allocated = balance - lowest
  /\ allocated <= peak

(* While only one monitor was launched and the application leaves the      *)
(* block alone: between two checks of the pressure there is no emergency   *)
(* memory at the high level, and at the low level it is there again,       *)
(* whichever way the level has come.                                       *)
Alone == \A g, h \in Starters : monitor[g].pc # "off" /\ monitor[h].pc # "off" => g = h
Settled == \A g \in Starters : monitor[g].pc \notin {"handle", "refill"}
EmergencyFollowsLevel ==
  Alone /\ ~interfered /\ Settled =>
    /\ level = 2 => ~emergency
    /\ level = 0 => emergency = Preallocated

=============================================================================
