---------------------------- MODULE ErrorMonitor ----------------------------
(***************************************************************************)
(* The error monitor (src/error_monitor.go): RecordError offers errors to  *)
(* a bounded channel from any goroutine, each Start launches a goroutine   *)
(* that files them and one that draws the trend, Stop closes the channel.  *)
(* running is an atomic flag that is read and written in separate steps,   *)
(* everything filed is behind one RWMutex.  Listeners are left out: they   *)
(* are called in goroutines of their own and change nothing here.          *)
(***************************************************************************)
EXTENDS Naturals, Sequences, FiniteSets

CONSTANTS
  Errors,       \* calls of RecordError with monitoring enabled
  Critical,     \* those of severity critical or fatal
  Starters,     \* calls of Start; each names the goroutines it launches
  Stoppers,     \* calls of Stop
  BufferSize,   \* capacity of errorBuffer (100)
  HistorySize,  \* config.HistorySize
  CriticalErrorThreshold,
  ConsecutiveErrorThreshold,
  RateAlerts,   \* whether the error rate can exceed its threshold
  MaxResets,    \* bound: calls of ResetStatistics
  ResetFrom,    \* bound: errors counted before it is called
  None          \* no error

ASSUME SizesAssumption ==
  BufferSize \in Nat \ {0} /\ HistorySize \in Nat \ {0}
ASSUME ThresholdsAssumption ==
  /\ CriticalErrorThreshold \in Nat /\ ConsecutiveErrorThreshold \in Nat
  /\ RateAlerts \in BOOLEAN
ASSUME SetsAssumption ==
  IsFiniteSet(Errors) /\ Critical \subseteq Errors /\ None \notin Errors
ASSUME BoundAssumption == MaxResets \in Nat /\ ResetFrom \in Nat

VARIABLES
  running,     \* m.running
  open,        \* errorBuffer has not been closed
  errorBuffer,
  crashed,     \* a goroutine panicked: the program is gone
  start,       \* step of each Start
  stop,        \* step of each Stop
  report,      \* step of each RecordError
  processor,   \* processErrors of each Start and the record it holds
  analyzer,    \* analyzeErrorsRoutine of each Start
  errorHistory,
  total,       \* statistics.TotalErrors
  criticals,   \* statistics.SeverityCounts, critical and fatal
  errorCount,
  taken,       \* history: the errors the channel took, in order
  resets       \* history: calls of ResetStatistics

callVars  == <<start, stop>>
filedVars == <<errorHistory, total, criticals>>
vars == <<running, open, errorBuffer, crashed, start, stop, report, processor,
          analyzer, errorHistory, total, criticals, errorCount, taken, resets>>

StartSteps  == {"idle", "store", "done"}
StopSteps   == {"idle", "store", "close", "lock", "done"}
ReportSteps == {"idle", "send", "count", "done"}
ProcessorSteps == {"off", "take", "load", "append", "count", "check",
                   "alert",   \* in triggerAlert, waiting for m.mu
                   "ended"}
AnalyzerSteps == {"off", "loop", "tick", "ended"}
Idle(step) == [pc |-> step, record |-> None]

Init ==
  /\ running = FALSE /\ open = TRUE /\ errorBuffer = <<>> /\ crashed = FALSE
  /\ start = [g \in Starters |-> "idle"]
  /\ stop = [g \in Stoppers |-> "idle"]
  /\ report = [e \in Errors |-> "idle"]
  /\ processor = [g \in Starters |-> Idle("off")]
  /\ analyzer = [g \in Starters |-> "off"]
  /\ errorHistory = <<>>
  /\ total = 0 /\ criticals = 0 /\ errorCount = 0
  /\ taken = <<>> /\ resets = 0

-----------------------------------------------------------------------------
(* Faulty variants, one per property: TLC must reject them.                *)

(* The history grows by one record more than it should.                    *)
Recent_OneTooMany(h) ==
  IF Len(h) > HistorySize + 1 THEN Tail(h) ELSE h

(* The history drops the newest record instead of the oldest.              *)
Recent_DropsNewest(h) == IF Len(h) > HistorySize THEN SubSeq(h, 1, HistorySize) ELSE h

(* RecordError returns without counting the error.                         *)
ReportCount_Forgotten(e) ==
  /\ report[e] = "count"
  /\ report' = [report EXCEPT ![e] = "done"]
  /\ UNCHANGED <<running, open, errorBuffer, crashed, callVars, processor, analyzer,
                 filedVars, errorCount, taken, resets>>

(* The goroutine forgets that the range over a closed channel ends.        *)
ProcessEnd_Never(g) ==
  /\ processor[g].pc = "take" /\ ~open /\ errorBuffer = <<>>
  /\ UNCHANGED vars

-----------------------------------------------------------------------------
(* checkAlerts keeps its read lock while triggerAlert asks for the write   *)
(* lock of the same mutex, which therefore never comes; a waiting writer   *)
(* also keeps new readers out.                                             *)
MutexFree == \A g \in Starters : processor[g].pc # "alert"

(* Start: the load and the store of running are two steps.                 *)
StartLoad(g) ==
  /\ start[g] = "idle"
  /\ start' = [start EXCEPT ![g] = IF running THEN "done" ELSE "store"]
  /\ UNCHANGED <<running, open, errorBuffer, crashed, stop, report, processor,
                 analyzer, filedVars, errorCount, taken, resets>>

StartStore(g) ==
  /\ start[g] = "store"
  /\ start' = [start EXCEPT ![g] = "done"]
  /\ running' = TRUE
  /\ processor' = [processor EXCEPT ![g] = Idle("take")]
  /\ analyzer' = [analyzer EXCEPT ![g] = "loop"]
  /\ UNCHANGED <<open, errorBuffer, crashed, stop, report, filedVars, errorCount,
                 taken, resets>>

-----------------------------------------------------------------------------
(* Stop.                                                                   *)

StopLoad(g) ==
  /\ stop[g] = "idle"
  /\ stop' = [stop EXCEPT ![g] = IF running THEN "store" ELSE "done"]
  /\ UNCHANGED <<running, open, errorBuffer, crashed, start, report, processor,
                 analyzer, filedVars, errorCount, taken, resets>>

StopStore(g) ==
  /\ stop[g] = "store"
  /\ stop' = [stop EXCEPT ![g] = "close"]
  /\ running' = FALSE
  /\ UNCHANGED <<open, errorBuffer, crashed, start, report, processor, analyzer,
                 filedVars, errorCount, taken, resets>>

(* Closing a closed channel panics.                                        *)
StopClose(g) ==
  /\ stop[g] = "close"
  /\ stop' = [stop EXCEPT ![g] = "lock"]
  /\ open' = FALSE
  /\ crashed' = ~open
  /\ UNCHANGED <<running, errorBuffer, start, report, processor, analyzer,
                 filedVars, errorCount, taken, resets>>

StopLock(g) ==
  /\ stop[g] = "lock"
  /\ MutexFree
  /\ stop' = [stop EXCEPT ![g] = "done"]
  /\ UNCHANGED <<running, open, errorBuffer, crashed, start, report, processor,
                 analyzer, filedVars, errorCount, taken, resets>>

-----------------------------------------------------------------------------
(* RecordError.                                                            *)

ReportLoad(e) ==
  /\ report[e] = "idle"
  /\ report' = [report EXCEPT ![e] = IF running THEN "send" ELSE "done"]
  /\ UNCHANGED <<running, open, errorBuffer, crashed, callVars, processor, analyzer,
                 filedVars, errorCount, taken, resets>>

(* A full buffer drops the error.                                          *)
Drops == Len(errorBuffer) >= BufferSize

(* The select sends, drops, or panics on a closed channel.                 *)
ReportSend(e) ==
  /\ report[e] = "send"
  /\ report' = [report EXCEPT ![e] = "count"]
  /\ crashed' = ~open
  /\ \/ /\ open /\ Len(errorBuffer) < BufferSize
        /\ errorBuffer' = Append(errorBuffer, e)
        /\ taken' = Append(taken, e)
     \/ /\ ~open \/ Drops
        /\ UNCHANGED <<errorBuffer, taken>>
  /\ UNCHANGED <<running, open, callVars, processor, analyzer, filedVars,
                 errorCount, resets>>

(* Dropped errors count as well.                                           *)
ReportCount(e) ==
  /\ report[e] = "count"
  /\ report' = [report EXCEPT ![e] = "done"]
  /\ errorCount' = errorCount + 1
  /\ UNCHANGED <<running, open, errorBuffer, crashed, callVars, processor, analyzer,
                 filedVars, taken, resets>>

ReportStep(e) == ReportSend(e) \/ ReportCount(e)

-----------------------------------------------------------------------------
(* processErrors, one goroutine per Start that got through.                *)

Goto(g, step) == processor' = [processor EXCEPT ![g].pc = step]

(* for record := range errorBuffer                                         *)
ProcessTake(g) ==
  /\ processor[g].pc = "take"
  /\ errorBuffer # <<>>
  /\ errorBuffer' = Tail(errorBuffer)
  /\ processor' = [processor EXCEPT ![g] = [pc |-> "load", record |-> Head(errorBuffer)]]
  /\ UNCHANGED <<running, open, crashed, callVars, report, analyzer, filedVars,
                 errorCount, taken, resets>>

(* A record received while the monitor is not running, or from before a    *)
(* Stop that comes in between, is thrown away and ends the goroutine.      *)
ProcessLoad(g) ==
  /\ processor[g].pc = "load"
  /\ IF running THEN Goto(g, "append")
                ELSE processor' = [processor EXCEPT ![g] = Idle("ended")]
  /\ UNCHANGED <<running, open, errorBuffer, crashed, callVars, report, analyzer,
                 filedVars, errorCount, taken, resets>>

ProcessEnd(g) ==
  /\ processor[g].pc = "take" /\ ~open /\ errorBuffer = <<>>
  /\ Goto(g, "ended")
  /\ UNCHANGED <<running, open, errorBuffer, crashed, callVars, report, analyzer,
                 filedVars, errorCount, taken, resets>>

Recent(h) == IF Len(h) > HistorySize THEN Tail(h) ELSE h

ProcessAppend(g) ==
  /\ processor[g].pc = "append"
  /\ MutexFree
  /\ errorHistory' = Recent(Append(errorHistory, processor[g].record))
  /\ Goto(g, "count")
  /\ UNCHANGED <<running, open, errorBuffer, crashed, callVars, report, analyzer,
                 total, criticals, errorCount, taken, resets>>

(* updateStatistics, in a critical section of its own.                     *)
ProcessCount(g) ==
  /\ processor[g].pc = "count"
  /\ MutexFree
  /\ total' = total + 1
  /\ criticals' = criticals + (IF processor[g].record \in Critical THEN 1 ELSE 0)
  /\ processor' = [processor EXCEPT ![g] = Idle("check")]
  /\ UNCHANGED <<running, open, errorBuffer, crashed, callVars, report, analyzer,
                 errorHistory, errorCount, taken, resets>>

(* checkAlerts: each of the three thresholds may be exceeded, the rate and *)
(* the closeness of the last errors as time has it.  No alert has ever     *)
(* been recorded, so no quiet period applies.                              *)
AlertMayBeDue ==
  \/ RateAlerts
  \/ criticals > CriticalErrorThreshold
  \/ Len(errorHistory) >= ConsecutiveErrorThreshold
AlertMustBeDue ==
  \/ criticals > CriticalErrorThreshold
  \/ ConsecutiveErrorThreshold <= 1 /\ Len(errorHistory) >= ConsecutiveErrorThreshold

ProcessCheck(g) ==
  /\ processor[g].pc = "check"
  /\ MutexFree
  /\ \/ AlertMayBeDue /\ Goto(g, "alert")
     \/ ~AlertMustBeDue /\ Goto(g, "take")
  /\ UNCHANGED <<running, open, errorBuffer, crashed, callVars, report, analyzer,
                 filedVars, errorCount, taken, resets>>

ProcessStep(g) == \/ ProcessTake(g) \/ ProcessLoad(g) \/ ProcessEnd(g)
                  \/ ProcessAppend(g) \/ ProcessCount(g) \/ ProcessCheck(g)

-----------------------------------------------------------------------------
(* analyzeErrorsRoutine: looks at running once per tick and draws a trend  *)
(* point under the mutex; the points themselves are left out.              *)

AnalyzeLoop(g) ==
  /\ analyzer[g] = "loop"
  /\ analyzer' = [analyzer EXCEPT ![g] = IF running THEN "tick" ELSE "ended"]
  /\ UNCHANGED <<running, open, errorBuffer, crashed, callVars, report, processor,
                 filedVars, errorCount, taken, resets>>

AnalyzeTick(g) ==
  /\ analyzer[g] = "tick"
  /\ MutexFree
  /\ analyzer' = [analyzer EXCEPT ![g] = "loop"]
  /\ UNCHANGED <<running, open, errorBuffer, crashed, callVars, report, processor,
                 filedVars, errorCount, taken, resets>>

AnalyzeStep(g) == AnalyzeLoop(g) \/ AnalyzeTick(g)

(* ResetStatistics keeps the history of errors.                            *)
ResetStatistics ==
  /\ resets < MaxResets /\ errorCount >= ResetFrom
  /\ MutexFree
  /\ resets' = resets + 1
  /\ total' = 0 /\ criticals' = 0 /\ errorCount' = 0
  /\ UNCHANGED <<running, open, errorBuffer, crashed, callVars, report, processor,
                 analyzer, errorHistory, taken>>

-----------------------------------------------------------------------------

StartStep(g) == StartLoad(g) \/ StartStore(g)
StopStep(g)  == StopStore(g) \/ StopClose(g) \/ StopLock(g)

(* Nothing happens after a panic.                                          *)
Next ==
  /\ ~crashed
  /\ \/ \E g \in Starters : StartStep(g) \/ ProcessStep(g) \/ AnalyzeStep(g)
     \/ \E g \in Stoppers : StopLoad(g) \/ StopStep(g)
     \/ \E e \in Errors : ReportLoad(e) \/ ReportStep(e)
     \/ ResetStatistics

Spec == Init /\ [][Next]_vars

(* The scheduler runs a processing goroutine that can run; nobody has to   *)
(* call anything.                                                          *)
Fairness == \A g \in Starters : WF_vars(~crashed /\ ProcessStep(g))

FairSpec == Spec /\ Fairness

-----------------------------------------------------------------------------
(* Properties.                                                             *)

ProcessorRecord == [pc : ProcessorSteps, record : Errors \cup {None}]

(* The variables stay within their types; the buffer within its capacity   *)
(* and the history within its size.                                        *)
TypeOK ==
  /\ running \in BOOLEAN /\ open \in BOOLEAN /\ crashed \in BOOLEAN
  /\ errorBuffer \in Seq(Errors) /\ Len(errorBuffer) <= BufferSize
  /\ start \in [Starters -> StartSteps]
  /\ stop \in [Stoppers -> StopSteps]
  /\ report \in [Errors -> ReportSteps]
  /\ processor \in [Starters -> ProcessorRecord]
  /\ \A g \in Starters : processor[g].pc \in {"load", "append", "count"} =>
                           processor[g].record \in Errors
  /\ analyzer \in [Starters -> AnalyzerSteps]
  /\ errorHistory \in Seq(Errors) /\ Len(errorHistory) <= HistorySize
  /\ total \in Nat /\ criticals \in Nat /\ errorCount \in Nat
  /\ taken \in Seq(Errors)
  /\ resets \in 0..MaxResets

Started == {g \in Starters : processor[g].pc # "off"}

(* What the channel took, less what is still in it or not yet filed; the   *)
(* record that an ended goroutine threw away was not filed either.         *)
Filing == {g \in Starters : processor[g].pc \in {"load", "append"}}
Discarded == IF \E g \in Starters : processor[g].pc = "ended" THEN {0, 1} ELSE {0}
FiledCounts ==
  {Len(taken) - Len(errorBuffer) - Cardinality(Filing) - d : d \in Discarded}

(* A monitor that was started once, stopped or not, has filed the errors   *)
(* in the order the channel took them and left none out: its history holds *)
(* the last HistorySize of them, or all.                                   *)
HistoryIsRecent ==
  Cardinality(Started) <= 1 =>
    \E n \in FiledCounts :
      errorHistory = SubSeq(taken, IF n > HistorySize THEN n - HistorySize + 1 ELSE 1, n)

Counting == {e \in Errors : report[e] = "count"}

(* Until the statistics are reset, however often the monitor is started    *)
(* and stopped, they never count an error that nobody reported, nor one    *)
(* twice: the total is at most the error count, which trails behind the    *)
(* channel by the calls between their send and their count.                *)
StatisticsCovered ==
  resets = 0 => total <= errorCount + Cardinality(Counting)

(* Once the channel is closed, the goroutines that read it end, those of a *)
(* Start that gets through later included, unless an alert hangs.          *)
ProcessorsEnd ==
  ~open ~> \/ \A g \in Starters : processor[g].pc \in {"off", "ended"}
           \/ ~MutexFree \/ crashed

=============================================================================
