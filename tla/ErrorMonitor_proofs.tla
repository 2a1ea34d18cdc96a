------------------------- MODULE ErrorMonitor_proofs -------------------------
(***************************************************************************)
(* Proofs about ErrorMonitor, for any errors, any calls of Start and Stop  *)
(* and any sizes of the channel and the history.                           *)
(***************************************************************************)
EXTENDS ErrorMonitor, FiniteSetTheorems, TLAPS

-----------------------------------------------------------------------------
(* The inductive invariant.                                                *)

(* Each record is counted once: it waits in the channel, is held by a      *)
(* goroutine or was filed; and each RecordError offers one.                *)
HoldingSteps == {"load", "append", "count"}
Holding == {g \in Starters : processor[g].pc \in HoldingSteps}
CountsInv ==
  /\ IsFiniteSet(Holding)
  /\ total + Cardinality(Holding) + Len(errorBuffer) <= Len(taken)
  /\ resets = 0 => Len(taken) <= errorCount + Cardinality(Counting)

(* What waits in the channel is the end of what it took.                   *)
QueueInv ==
  /\ Len(errorBuffer) <= Len(taken)
  /\ \A i \in 1..Len(errorBuffer) :
       errorBuffer[i] = taken[Len(taken) - Len(errorBuffer) + i]

(* A Start launches its goroutines when it is done, and they stay.         *)
LaunchInv ==
  /\ \A g \in Starters : start[g] # "done" => processor[g].pc = "off"
  /\ IsFiniteSet(Started)

(* h has the last HistorySize of the first n elements of s, or all.        *)
LastOf(h, s, n) ==
  /\ n \in 0..Len(s) /\ Len(h) = IF n > HistorySize THEN HistorySize ELSE n
  /\ \A i \in 1..Len(h) : h[i] = s[n - Len(h) + i]

(* While one goroutine at most files, it holds the record behind those     *)
(* that are filed, and the history has the last of these.                  *)
Alone == \A g, h \in Started : g = h
HistoryInv ==
  Alone => /\ \E n \in FiledCounts : LastOf(errorHistory, taken, n)
           /\ \A g \in Filing : processor[g].record = taken[Len(taken) - Len(errorBuffer)]

IInv == TypeOK /\ CountsInv /\ QueueInv /\ LaunchInv /\ HistoryInv

-----------------------------------------------------------------------------
(* Types.                                                                  *)

(* The goroutine of g goes on with another step or record.                 *)
LEMMA Turns ==
  ASSUME processor \in [Starters -> ProcessorRecord], NEW g \in Starters, NEW r \in ProcessorRecord,
         processor' = [processor EXCEPT ![g] = r]
  PROVE  /\ processor' \in [Starters -> ProcessorRecord]
         /\ \A h \in Starters : processor'[h] = IF h = g THEN r ELSE processor[h]
OBVIOUS

(* It goes on with the record it holds.                                    *)
LEMMA Moves ==
  ASSUME processor \in [Starters -> ProcessorRecord], NEW g \in Starters, NEW s \in ProcessorSteps,
         Goto(g, s)
  PROVE  /\ processor' \in [Starters -> ProcessorRecord]
         /\ \A h \in Starters : /\ processor'[h].pc = IF h = g THEN s ELSE processor[h].pc
                                /\ processor'[h].record = processor[h].record
<1> DEFINE r == [processor[g] EXCEPT !.pc = s]
<1>1. r \in ProcessorRecord /\ r.pc = s /\ r.record = processor[g].record
  BY DEF ProcessorRecord
<1>2. processor' = [processor EXCEPT ![g] = r]
  BY DEF Goto
<1> HIDE DEF r
<1>3. /\ processor' \in [Starters -> ProcessorRecord]
      /\ \A h \in Starters : processor'[h] = IF h = g THEN r ELSE processor[h]
  BY <1>1, <1>2, Turns
<1> QED BY <1>1, <1>3

(* A goroutine without a record.                                           *)
LEMMA IdleType ==
  ASSUME NEW s \in ProcessorSteps
  PROVE  Idle(s) \in ProcessorRecord /\ Idle(s).pc = s
BY DEF Idle, ProcessorRecord

(* The first element of a sequence, and the others.                        *)
LEMMA Split ==
  ASSUME NEW S, NEW s \in Seq(S), s # <<>>
  PROVE  /\ Head(s) \in S /\ Head(s) = s[1] /\ Tail(s) \in Seq(S) /\ Len(Tail(s)) = Len(s) - 1
         /\ Len(s) \in Nat /\ Len(s) > 0 /\ \A i \in 1..Len(Tail(s)) : Tail(s)[i] = s[i + 1]
OBVIOUS

(* Every step keeps the types, and the sizes of buffer and history.        *)
LEMMA NextTypes == TypeOK /\ [Next]_vars => TypeOK'
<1> SUFFICES ASSUME TypeOK, [Next]_vars PROVE TypeOK'
  OBVIOUS
<1>1. processor \in [Starters -> ProcessorRecord]
  BY DEF TypeOK
<1>2. ASSUME NEW g \in Starters, StartLoad(g) PROVE TypeOK'
  BY <1>2 DEF StartLoad, filedVars, TypeOK, StartSteps
<1>3. ASSUME NEW g \in Starters, StartStore(g) PROVE TypeOK'
  <2>1. "take" \in ProcessorSteps
    BY DEF ProcessorSteps
  <2>2. processor' = [processor EXCEPT ![g] = Idle("take")]
    BY <1>3 DEF StartStore
  <2>3. /\ processor' \in [Starters -> ProcessorRecord]
        /\ \A h \in Starters : processor'[h] = IF h = g THEN Idle("take") ELSE processor[h]
    BY <1>1, <2>1, <2>2, IdleType, Turns
  <2>4. \A h \in Starters : processor'[h].pc \in {"load", "append", "count"} =>
                              processor'[h].record \in Errors
    BY <2>1, <2>3, IdleType DEF TypeOK
  <2>5. start' \in [Starters -> StartSteps] /\ analyzer' \in [Starters -> AnalyzerSteps]
    BY <1>3 DEF StartStore, TypeOK, StartSteps, AnalyzerSteps
  <2> QED BY <1>3, <2>3, <2>4, <2>5 DEF StartStore, filedVars, TypeOK
<1>4. ASSUME NEW g \in Stoppers, StopLoad(g) \/ StopStep(g) PROVE TypeOK'
  BY <1>4 DEF StopLoad, StopStep, StopStore, StopClose, StopLock, filedVars, TypeOK, StopSteps
<1>5. ASSUME NEW e \in Errors, ReportLoad(e) PROVE TypeOK'
  BY <1>5 DEF ReportLoad, callVars, filedVars, TypeOK, ReportSteps
<1>6. ASSUME NEW e \in Errors, ReportSend(e) PROVE TypeOK'
  <2>1. report' \in [Errors -> ReportSteps] /\ crashed' \in BOOLEAN
    BY <1>6 DEF ReportSend, TypeOK, ReportSteps
  <2>2. errorBuffer \in Seq(Errors) /\ Len(errorBuffer) <= BufferSize /\ taken \in Seq(Errors)
    BY DEF TypeOK
  <2>3. /\ errorBuffer' \in Seq(Errors) /\ Len(errorBuffer') <= BufferSize
        /\ taken' \in Seq(Errors)
    <3>1. CASE Len(errorBuffer) < BufferSize /\ errorBuffer' = Append(errorBuffer, e)
               /\ taken' = Append(taken, e)
      <4>1. Len(errorBuffer') = Len(errorBuffer) + 1
        BY <2>2, <3>1
      <4>2. errorBuffer' \in Seq(Errors) /\ taken' \in Seq(Errors)
        BY <2>2, <3>1
      <4> QED BY <2>2, <3>1, <4>1, <4>2, SizesAssumption
    <3>2. CASE UNCHANGED <<errorBuffer, taken>>
      BY <2>2, <3>2
    <3> QED BY <1>6, <3>1, <3>2 DEF ReportSend
  <2> QED BY <1>6, <2>1, <2>3 DEF ReportSend, callVars, filedVars, TypeOK
<1>7. ASSUME NEW e \in Errors, ReportCount(e) PROVE TypeOK'
  BY <1>7 DEF ReportCount, callVars, filedVars, TypeOK, ReportSteps
<1>8. ASSUME NEW g \in Starters, ProcessTake(g) PROVE TypeOK'
  <2> DEFINE r == [pc |-> "load", record |-> Head(errorBuffer)]
  <2>1. errorBuffer \in Seq(Errors) /\ errorBuffer # <<>> /\ errorBuffer' = Tail(errorBuffer)
    BY <1>8 DEF ProcessTake, TypeOK
  <2>2. /\ Head(errorBuffer) \in Errors /\ errorBuffer' \in Seq(Errors)
        /\ Len(errorBuffer') = Len(errorBuffer) - 1 /\ Len(errorBuffer) \in Nat
    BY <2>1, Split
  <2>3. "load" \in ProcessorSteps
    BY DEF ProcessorSteps
  <2>4. r \in ProcessorRecord /\ (r.pc \in {"load", "append", "count"} => r.record \in Errors)
    BY <2>2, <2>3 DEF ProcessorRecord
  <2>5. processor' = [processor EXCEPT ![g] = r]
    BY <1>8 DEF ProcessTake
  <2> HIDE DEF r
  <2>6. /\ processor' \in [Starters -> ProcessorRecord]
        /\ \A h \in Starters : processor'[h] = IF h = g THEN r ELSE processor[h]
    BY <1>1, <2>4, <2>5, Turns
  <2>7. \A h \in Starters : processor'[h].pc \in {"load", "append", "count"} =>
                              processor'[h].record \in Errors
    BY <2>4, <2>6 DEF TypeOK
  <2>8. Len(errorBuffer') <= BufferSize
    BY <2>2, SizesAssumption DEF TypeOK
  <2> QED BY <1>8, <2>2, <2>6, <2>7, <2>8 DEF ProcessTake, callVars, filedVars, TypeOK
<1>9. ASSUME NEW g \in Starters, ProcessEnd(g) \/ ProcessCheck(g) PROVE TypeOK'
  <2>1. PICK s \in {"ended", "alert", "take"} : Goto(g, s)
    BY <1>9 DEF ProcessEnd, ProcessCheck
  <2>2. s \in ProcessorSteps
    BY DEF ProcessorSteps
  <2>3. processor' \in [Starters -> ProcessorRecord]
    BY <1>1, <2>1, <2>2, Moves
  <2>4. \A h \in Starters : /\ processor'[h].pc = IF h = g THEN s ELSE processor[h].pc
                            /\ processor'[h].record = processor[h].record
    BY <1>1, <2>1, <2>2, Moves
  <2>5. \A h \in Starters : processor'[h].pc \in {"load", "append", "count"} =>
                              processor'[h].record \in Errors
    BY <2>4 DEF TypeOK
  <2> QED BY <1>9, <2>3, <2>5 DEF ProcessEnd, ProcessCheck, callVars, filedVars, TypeOK
<1>10. ASSUME NEW g \in Starters, ProcessLoad(g) PROVE TypeOK'
  <2>1. "append" \in ProcessorSteps /\ "ended" \in ProcessorSteps
    BY DEF ProcessorSteps
  <2>2. /\ processor' \in [Starters -> ProcessorRecord]
        /\ \A h \in Starters : processor'[h].pc \in {"load", "append", "count"} =>
                                processor'[h].record \in Errors
    <3>1. CASE running
      <4>1. Goto(g, "append") /\ processor[g].record \in Errors
        BY <1>10, <3>1 DEF ProcessLoad, TypeOK
      <4>2. processor' \in [Starters -> ProcessorRecord]
        BY <1>1, <2>1, <4>1, Moves
      <4>3. \A h \in Starters : /\ processor'[h].pc = IF h = g THEN "append" ELSE processor[h].pc
                                /\ processor'[h].record = processor[h].record
        BY <1>1, <2>1, <4>1, Moves
      <4> QED BY <4>1, <4>2, <4>3 DEF TypeOK
    <3>2. CASE ~running
      <4>1. processor' = [processor EXCEPT ![g] = Idle("ended")]
        BY <1>10, <3>2 DEF ProcessLoad
      <4>2. /\ processor' \in [Starters -> ProcessorRecord]
            /\ \A h \in Starters : processor'[h] = IF h = g THEN Idle("ended") ELSE processor[h]
        BY <1>1, <2>1, <4>1, IdleType, Turns
      <4> QED BY <2>1, <4>2, IdleType DEF TypeOK
    <3> QED BY <3>1, <3>2
  <2> QED BY <1>10, <2>2 DEF ProcessLoad, callVars, filedVars, TypeOK
<1>11. ASSUME NEW g \in Starters, ProcessAppend(g) PROVE TypeOK'
  <2>1. "count" \in ProcessorSteps /\ Goto(g, "count") /\ processor[g].record \in Errors
    BY <1>11 DEF ProcessorSteps, ProcessAppend, TypeOK
  <2>2. processor' \in [Starters -> ProcessorRecord]
    BY <1>1, <2>1, Moves
  <2>3. \A h \in Starters : /\ processor'[h].pc = IF h = g THEN "count" ELSE processor[h].pc
                            /\ processor'[h].record = processor[h].record
    BY <1>1, <2>1, Moves
  <2>4. \A h \in Starters : processor'[h].pc \in {"load", "append", "count"} =>
                              processor'[h].record \in Errors
    BY <2>1, <2>3 DEF TypeOK
  <2>5. errorHistory' \in Seq(Errors) /\ Len(errorHistory') <= HistorySize
    <3>1. PICK e \in Errors : e = processor[g].record
      BY <2>1
    <3>2. PICK h : h = Append(errorHistory, e)
      OBVIOUS
    <3>3. errorHistory' = Recent(h)
      BY <1>11, <3>1, <3>2 DEF ProcessAppend
    <3>4. errorHistory \in Seq(Errors) /\ Len(errorHistory) <= HistorySize
      BY DEF TypeOK
    <3>5. /\ h \in Seq(Errors) /\ h # <<>>
          /\ Len(h) = Len(errorHistory) + 1 /\ Len(errorHistory) \in Nat
      BY <3>2, <3>4
    <3>6. Tail(h) \in Seq(Errors) /\ Len(Tail(h)) = Len(h) - 1
      BY <3>5, Split
    <3> QED BY <3>3, <3>4, <3>5, <3>6, SizesAssumption DEF Recent
  <2> QED BY <1>11, <2>2, <2>4, <2>5 DEF ProcessAppend, callVars, filedVars, TypeOK
<1>12. ASSUME NEW g \in Starters, ProcessCount(g) PROVE TypeOK'
  <2>1. "check" \in ProcessorSteps /\ processor' = [processor EXCEPT ![g] = Idle("check")]
    BY <1>12 DEF ProcessorSteps, ProcessCount
  <2>2. /\ processor' \in [Starters -> ProcessorRecord]
        /\ \A h \in Starters : processor'[h] = IF h = g THEN Idle("check") ELSE processor[h]
    BY <1>1, <2>1, IdleType, Turns
  <2>3. \A h \in Starters : processor'[h].pc \in {"load", "append", "count"} =>
                              processor'[h].record \in Errors
    BY <2>1, <2>2, IdleType DEF TypeOK
  <2>4. total' \in Nat /\ criticals' \in Nat
    BY <1>12 DEF ProcessCount, TypeOK
  <2> QED BY <1>12, <2>2, <2>3, <2>4 DEF ProcessCount, callVars, TypeOK
<1>13. ASSUME NEW g \in Starters, AnalyzeStep(g) PROVE TypeOK'
  BY <1>13 DEF AnalyzeStep, AnalyzeLoop, AnalyzeTick, callVars, filedVars, TypeOK, AnalyzerSteps
<1>14. CASE ResetStatistics
  <2>1. resets' \in 0..MaxResets
    BY <1>14, BoundAssumption DEF ResetStatistics, TypeOK
  <2> QED BY <1>14, <2>1 DEF ResetStatistics, callVars, TypeOK
<1>15. CASE UNCHANGED vars
  BY <1>15 DEF vars, TypeOK
<1> QED BY <1>2, <1>3, <1>4, <1>5, <1>6, <1>7, <1>8, <1>9, <1>11, <1>12, <1>13, <1>14, <1>15,
           <1>10
        DEF Next, StartStep, ProcessStep, ReportStep

(* A processor's goroutine moves alone.                                    *)
LEMMA Others ==
  ASSUME TypeOK, NEW g \in Starters, StartStore(g) \/ ProcessStep(g)
  PROVE  \A h \in Starters : h # g => processor'[h] = processor[h]
<1>1. processor \in [Starters -> ProcessorRecord]
  BY DEF TypeOK
<1>2. \E r : processor' = [processor EXCEPT ![g] = r]
  <2>1. StartStore(g) => processor' = [processor EXCEPT ![g] = Idle("take")]
    BY DEF StartStore
  <2>2. ASSUME NEW s, Goto(g, s) PROVE \E r : processor' = [processor EXCEPT ![g] = r]
    BY <2>2 DEF Goto
  <2>3. ProcessTake(g) => \E r : processor' = [processor EXCEPT ![g] = r]
    BY DEF ProcessTake
  <2>4. ProcessCount(g) => \E r : processor' = [processor EXCEPT ![g] = r]
    BY DEF ProcessCount
  <2>5. ProcessLoad(g) => \/ Goto(g, "append")
                          \/ processor' = [processor EXCEPT ![g] = Idle("ended")]
    BY DEF ProcessLoad
  <2>6. ProcessEnd(g) \/ ProcessAppend(g) \/ ProcessCheck(g) => \E s : Goto(g, s)
    BY DEF ProcessEnd, ProcessAppend, ProcessCheck
  <2> QED BY <2>1, <2>2, <2>3, <2>4, <2>6, <2>5 DEF ProcessStep
<1> QED BY <1>1, <1>2

(* The steps of a goroutine, as another one sees them.                     *)
LEMMA Launches ==
  ASSUME TypeOK, LaunchInv, NEW g \in Starters, StartStore(g)
  PROVE  processor[g].pc = "off" /\ processor'[g].pc = "take"
<1>1. processor[g].pc = "off"
  BY DEF StartStore, LaunchInv
<1>2. "take" \in ProcessorSteps /\ processor' = [processor EXCEPT ![g] = Idle("take")]
  BY DEF StartStore, ProcessorSteps
<1> QED BY <1>1, <1>2, IdleType DEF TypeOK

LEMMA Takes ==
  ASSUME TypeOK, NEW g \in Starters, ProcessTake(g)
  PROVE  /\ processor[g].pc = "take"
         /\ processor'[g].pc = "load" /\ processor'[g].record = Head(errorBuffer)
<1>1. processor \in [Starters -> ProcessorRecord]
  BY DEF TypeOK
<1> QED BY <1>1 DEF ProcessTake

LEMMA Loads ==
  ASSUME TypeOK, NEW g \in Starters, ProcessLoad(g)
  PROVE  /\ processor[g].pc = "load"
         /\ \/ processor'[g].pc = "append" /\ processor'[g].record = processor[g].record
            \/ processor'[g].pc = "ended"
<1>1. processor \in [Starters -> ProcessorRecord] /\ "append" \in ProcessorSteps
      /\ "ended" \in ProcessorSteps
  BY DEF TypeOK, ProcessorSteps
<1>2. CASE running
  <2>1. Goto(g, "append")
    BY <1>2 DEF ProcessLoad
  <2> QED BY <1>1, <2>1, Moves DEF ProcessLoad
<1>3. CASE ~running
  <2>1. processor' = [processor EXCEPT ![g] = Idle("ended")]
    BY <1>3 DEF ProcessLoad
  <2> QED BY <1>1, <2>1, IdleType DEF ProcessLoad
<1> QED BY <1>2, <1>3

LEMMA Ends ==
  ASSUME TypeOK, NEW g \in Starters, ProcessEnd(g)
  PROVE  processor[g].pc = "take" /\ processor'[g].pc = "ended"
BY DEF ProcessEnd, Goto, TypeOK, ProcessorRecord

LEMMA Appends ==
  ASSUME TypeOK, NEW g \in Starters, ProcessAppend(g)
  PROVE  processor[g].pc = "append" /\ processor'[g].pc = "count"
BY DEF ProcessAppend, Goto, TypeOK, ProcessorRecord

LEMMA Counts ==
  ASSUME TypeOK, NEW g \in Starters, ProcessCount(g)
  PROVE  processor[g].pc = "count" /\ processor'[g].pc = "check"
<1>1. "check" \in ProcessorSteps /\ processor' = [processor EXCEPT ![g] = Idle("check")]
  BY DEF ProcessCount, ProcessorSteps
<1> QED BY <1>1, IdleType DEF ProcessCount, TypeOK

LEMMA Checks ==
  ASSUME TypeOK, NEW g \in Starters, ProcessCheck(g)
  PROVE  processor[g].pc = "check" /\ processor'[g].pc \in {"alert", "take"}
BY DEF ProcessCheck, Goto, TypeOK, ProcessorRecord

-----------------------------------------------------------------------------
(* The counts.                                                             *)

(* A goroutine that takes a record begins to hold one, and one that has    *)
(* counted it holds none.                                                  *)
LEMMA HoldingMoves ==
  ASSUME TypeOK, IsFiniteSet(Holding), NEW g \in Starters,
         \A h \in Starters : h # g => processor'[h] = processor[h]
  PROVE  /\ processor[g].pc \notin HoldingSteps /\ processor'[g].pc \in HoldingSteps
              => IsFiniteSet(Holding') /\ Cardinality(Holding') = Cardinality(Holding) + 1
         /\ processor[g].pc \in HoldingSteps /\ processor'[g].pc \notin HoldingSteps
              => IsFiniteSet(Holding') /\ Cardinality(Holding') = Cardinality(Holding) - 1
         /\ (processor[g].pc \in HoldingSteps <=> processor'[g].pc \in HoldingSteps)
              => Holding' = Holding
<1>1. CASE processor[g].pc \notin HoldingSteps /\ processor'[g].pc \in HoldingSteps
  <2>1. Holding' = Holding \cup {g} /\ g \notin Holding
    BY <1>1 DEF Holding
  <2> QED BY <1>1, <2>1, FS_AddElement
<1>2. CASE processor[g].pc \in HoldingSteps /\ processor'[g].pc \notin HoldingSteps
  <2>1. Holding' = Holding \ {g} /\ g \in Holding
    BY <1>2 DEF Holding
  <2> QED BY <1>2, <2>1, FS_RemoveElement
<1>3. CASE processor[g].pc \in HoldingSteps <=> processor'[g].pc \in HoldingSteps
  <2>1. Holding' = Holding
    BY <1>3 DEF Holding
  <2> QED BY <1>3, <2>1
<1> QED BY <1>1, <1>2, <1>3

(* A call that has offered its error counts it next.                       *)
LEMMA CountingMoves ==
  ASSUME TypeOK, NEW e \in Errors, NEW s \in ReportSteps, report' = [report EXCEPT ![e] = s]
  PROVE  /\ Cardinality(Counting) \in Nat
         /\ report[e] # "count" /\ s = "count" => Cardinality(Counting') = Cardinality(Counting) + 1
         /\ report[e] = "count" /\ s # "count" => Cardinality(Counting') = Cardinality(Counting) - 1
         /\ report[e] # "count" /\ s # "count" => Counting' = Counting
<1>1. IsFiniteSet(Counting)
  BY FS_Subset, SetsAssumption DEF Counting
<1>2. \A f \in Errors : report'[f] = IF f = e THEN s ELSE report[f]
  BY DEF TypeOK
<1>3. CASE report[e] # "count" /\ s = "count"
  <2>1. Counting' = Counting \cup {e} /\ e \notin Counting
    BY <1>2, <1>3 DEF Counting
  <2> QED BY <1>1, <1>3, <2>1, FS_AddElement, FS_CardinalityType
<1>4. CASE report[e] = "count" /\ s # "count"
  <2>1. Counting' = Counting \ {e} /\ e \in Counting
    BY <1>2, <1>4 DEF Counting
  <2> QED BY <1>1, <1>4, <2>1, FS_RemoveElement, FS_CardinalityType
<1>5. CASE report[e] = s \/ (report[e] # "count" /\ s # "count")
  <2>1. Counting' = Counting
    BY <1>2, <1>5 DEF Counting
  <2> QED BY <1>1, <1>5, <2>1, FS_CardinalityType
<1> QED BY <1>3, <1>4, <1>5

(* The three amounts of the invariant are numbers.                         *)
LEMMA Amounts ==
  ASSUME TypeOK, IsFiniteSet(Holding)
  PROVE  /\ total \in Nat /\ errorCount \in Nat /\ resets \in Nat
         /\ Len(taken) \in Nat /\ Len(errorBuffer) \in Nat
         /\ Cardinality(Holding) \in Nat /\ Cardinality(Counting) \in Nat
<1>1. IsFiniteSet(Counting)
  BY FS_Subset, SetsAssumption DEF Counting
<1> QED BY <1>1, FS_CardinalityType, BoundAssumption DEF TypeOK

(* Every step keeps the counts.                                            *)
LEMMA NextCounts == TypeOK /\ LaunchInv /\ CountsInv /\ [Next]_vars => CountsInv'
<1> SUFFICES ASSUME TypeOK, LaunchInv, CountsInv, [Next]_vars PROVE CountsInv'
  OBVIOUS
<1>1. /\ total \in Nat /\ errorCount \in Nat /\ resets \in Nat
      /\ Len(taken) \in Nat /\ Len(errorBuffer) \in Nat
      /\ Cardinality(Holding) \in Nat /\ Cardinality(Counting) \in Nat
  BY Amounts DEF CountsInv
<1>2. ASSUME Holding' = Holding, Counting' = Counting,
             UNCHANGED <<total, errorBuffer, taken, errorCount, resets>>
      PROVE  CountsInv'
  BY <1>2 DEF CountsInv
<1>3. ASSUME NEW g \in Starters, StartLoad(g) \/ AnalyzeStep(g) PROVE CountsInv'
  <2>1. Holding' = Holding /\ Counting' = Counting
    BY <1>3 DEF Holding, Counting, StartLoad, AnalyzeStep, AnalyzeLoop, AnalyzeTick
  <2>2. UNCHANGED <<total, errorBuffer, taken, errorCount, resets>>
    BY <1>3 DEF StartLoad, AnalyzeStep, AnalyzeLoop, AnalyzeTick, filedVars
  <2> QED BY <1>2, <2>1, <2>2
<1>4. ASSUME NEW g \in Stoppers, StopLoad(g) \/ StopStep(g) PROVE CountsInv'
  <2>1. Holding' = Holding /\ Counting' = Counting
    BY <1>4 DEF Holding, Counting, StopLoad, StopStep, StopStore, StopClose, StopLock
  <2>2. UNCHANGED <<total, errorBuffer, taken, errorCount, resets>>
    BY <1>4 DEF StopLoad, StopStep, StopStore, StopClose, StopLock, filedVars
  <2> QED BY <1>2, <2>1, <2>2
<1>5. ASSUME NEW g \in Starters,
             StartStore(g) \/ ProcessEnd(g) \/ ProcessAppend(g) \/ ProcessCheck(g)
      PROVE  CountsInv'
  <2>1. \A h \in Starters : h # g => processor'[h] = processor[h]
    BY <1>5, Others DEF ProcessStep
  <2>2. processor[g].pc \in HoldingSteps <=> processor'[g].pc \in HoldingSteps
    BY <1>5, Launches, Ends, Appends, Checks DEF HoldingSteps
  <2>3. Holding' = Holding
    BY <2>1, <2>2, HoldingMoves DEF CountsInv, HoldingSteps
  <2>4. Counting' = Counting
    BY <1>5 DEF Counting, StartStore, ProcessEnd, ProcessAppend, ProcessCheck
  <2>5. UNCHANGED <<total, errorBuffer, taken, errorCount, resets>>
    BY <1>5 DEF StartStore, ProcessEnd, ProcessAppend, ProcessCheck, filedVars
  <2> QED BY <1>2, <2>3, <2>4, <2>5
<1>6. ASSUME NEW e \in Errors, ReportLoad(e) PROVE CountsInv'
  <2>1. PICK s \in {"send", "done"} : report' = [report EXCEPT ![e] = s]
    BY <1>6 DEF ReportLoad
  <2>2. s \in ReportSteps /\ report[e] # "count"
    BY <1>6 DEF ReportLoad, ReportSteps
  <2>3. Counting' = Counting
    BY <2>1, <2>2, CountingMoves
  <2>4. Holding' = Holding /\ UNCHANGED <<total, errorBuffer, taken, errorCount, resets>>
    BY <1>6 DEF Holding, ReportLoad, filedVars
  <2> QED BY <1>2, <2>3, <2>4
<1>7. ASSUME NEW e \in Errors, ReportSend(e) PROVE CountsInv'
  <2>1. "count" \in ReportSteps /\ report' = [report EXCEPT ![e] = "count"] /\ report[e] # "count"
    BY <1>7 DEF ReportSend, ReportSteps
  <2>2. Cardinality(Counting') = Cardinality(Counting) + 1
    BY <2>1, CountingMoves
  <2>3. Holding' = Holding /\ UNCHANGED <<total, errorCount, resets>>
    BY <1>7 DEF Holding, ReportSend, filedVars
  <2>4. errorBuffer \in Seq(Errors) /\ taken \in Seq(Errors)
    BY DEF TypeOK
  <2>5. CASE errorBuffer' = Append(errorBuffer, e) /\ taken' = Append(taken, e)
    <3>1. Len(errorBuffer') = Len(errorBuffer) + 1 /\ Len(taken') = Len(taken) + 1
      BY <2>4, <2>5
    <3> QED BY <1>1, <2>2, <2>3, <3>1 DEF CountsInv
  <2>6. CASE UNCHANGED <<errorBuffer, taken>>
    BY <1>1, <2>2, <2>3, <2>6 DEF CountsInv
  <2> QED BY <1>7, <2>5, <2>6 DEF ReportSend
<1>8. ASSUME NEW e \in Errors, ReportCount(e) PROVE CountsInv'
  <2>1. "done" \in ReportSteps /\ report' = [report EXCEPT ![e] = "done"] /\ report[e] = "count"
    BY <1>8 DEF ReportCount, ReportSteps
  <2>2. Cardinality(Counting') = Cardinality(Counting) - 1
    BY <2>1, CountingMoves
  <2>3. /\ Holding' = Holding /\ errorCount' = errorCount + 1
        /\ UNCHANGED <<total, errorBuffer, taken, resets>>
    BY <1>8 DEF Holding, ReportCount, filedVars
  <2> QED BY <1>1, <2>2, <2>3 DEF CountsInv
<1>9. ASSUME NEW g \in Starters, ProcessTake(g) PROVE CountsInv'
  <2>1. \A h \in Starters : h # g => processor'[h] = processor[h]
    BY <1>9, Others DEF ProcessStep
  <2>2. /\ Counting' = Counting /\ errorBuffer' = Tail(errorBuffer) /\ errorBuffer # <<>>
        /\ UNCHANGED <<total, taken, errorCount, resets>>
    BY <1>9 DEF Counting, ProcessTake, filedVars
  <2>3. Len(errorBuffer') = Len(errorBuffer) - 1
    BY <2>2, Split DEF TypeOK
  <2>4. processor[g].pc = "take" /\ processor'[g].pc = "load"
    BY <1>9, Takes
  <2>5. IsFiniteSet(Holding') /\ Cardinality(Holding') = Cardinality(Holding) + 1
    BY <2>1, <2>4, HoldingMoves DEF CountsInv, HoldingSteps
  <2> QED BY <1>1, <2>2, <2>3, <2>5 DEF CountsInv
<1>10. ASSUME NEW g \in Starters, ProcessCount(g) PROVE CountsInv'
  <2>1. \A h \in Starters : h # g => processor'[h] = processor[h]
    BY <1>10, Others DEF ProcessStep
  <2>2. processor[g].pc = "count" /\ processor'[g].pc = "check"
    BY <1>10, Counts
  <2>3. IsFiniteSet(Holding') /\ Cardinality(Holding') = Cardinality(Holding) - 1
    BY <2>1, <2>2, HoldingMoves DEF CountsInv, HoldingSteps
  <2>4. /\ Counting' = Counting /\ total' = total + 1
        /\ UNCHANGED <<errorBuffer, taken, errorCount, resets>>
    BY <1>10 DEF Counting, ProcessCount
  <2> QED BY <1>1, <2>3, <2>4 DEF CountsInv
<1>11. ASSUME NEW g \in Starters, ProcessLoad(g) PROVE CountsInv'
  <2>1. \A h \in Starters : h # g => processor'[h] = processor[h]
    BY <1>11, Others DEF ProcessStep
  <2>2. processor[g].pc = "load" /\ processor'[g].pc \in {"append", "ended"}
    BY <1>11, Loads
  <2>3. /\ IsFiniteSet(Holding')
        /\ Cardinality(Holding') \in {Cardinality(Holding), Cardinality(Holding) - 1}
    BY <2>1, <2>2, HoldingMoves DEF CountsInv, HoldingSteps
  <2>4. Counting' = Counting
    BY <1>11 DEF Counting, ProcessLoad
  <2>5. UNCHANGED <<total, errorBuffer, taken, errorCount, resets>>
    BY <1>11 DEF ProcessLoad, filedVars
  <2> QED BY <1>1, <2>3, <2>4, <2>5 DEF CountsInv
<1>12. CASE ResetStatistics
  <2>1. Holding' = Holding /\ total' = 0 /\ resets' = resets + 1 /\ UNCHANGED <<errorBuffer, taken>>
    BY <1>12 DEF Holding, ResetStatistics
  <2> QED BY <1>1, <2>1 DEF CountsInv
<1>13. CASE UNCHANGED vars
  BY <1>2, <1>13 DEF vars, Holding, Counting
<1> QED BY <1>3, <1>4, <1>5, <1>6, <1>7, <1>8, <1>9, <1>10, <1>12, <1>13, <1>11
        DEF Next, StartStep, ProcessStep, ReportStep

-----------------------------------------------------------------------------
(* The channel and the goroutines.                                         *)

(* An element put at the end.                                              *)
LEMMA Added ==
  ASSUME NEW S, NEW s \in Seq(S), NEW x \in S, NEW t, t = Append(s, x)
  PROVE  /\ t \in Seq(S) /\ Len(t) = Len(s) + 1 /\ Len(s) \in Nat /\ t[Len(s) + 1] = x
         /\ \A i \in 1..Len(s) : t[i] = s[i]
OBVIOUS

(* Steps that leave the channel alone, and the record of what it took.     *)
LEMMA ChannelSteps ==
  ASSUME [Next]_vars
  PROVE  \/ \E e \in Errors : ReportSend(e)
         \/ \E g \in Starters : ProcessTake(g)
         \/ UNCHANGED <<errorBuffer, taken>>
BY DEF Next, StartStep, StopStep, ProcessStep, AnalyzeStep, ReportStep, StartLoad, StartStore,
       StopLoad, StopStore, StopClose, StopLock, ReportLoad, ReportCount, ProcessLoad, ProcessEnd,
       ProcessAppend, ProcessCount, ProcessCheck, AnalyzeLoop, AnalyzeTick, ResetStatistics, vars

(* The channel gives out what it took, first in first out.                 *)
LEMMA NextQueue == TypeOK /\ QueueInv /\ [Next]_vars => QueueInv'
<1> SUFFICES ASSUME TypeOK, QueueInv, [Next]_vars PROVE QueueInv'
  OBVIOUS
<1> DEFINE b == Len(errorBuffer)
           t == Len(taken)
<1>1. errorBuffer \in Seq(Errors) /\ taken \in Seq(Errors) /\ b \in Nat /\ t \in Nat
  BY DEF TypeOK
<1>2. b <= t /\ \A i \in 1..b : errorBuffer[i] = taken[t - b + i]
  BY DEF QueueInv
<1>3. ASSUME NEW e \in Errors, ReportSend(e) PROVE QueueInv'
  <2>1. CASE errorBuffer' = Append(errorBuffer, e) /\ taken' = Append(taken, e)
    <3>1. Len(errorBuffer') = b + 1 /\ Len(taken') = t + 1
      BY <1>1, <2>1, Added
    <3>2. /\ errorBuffer'[b + 1] = e /\ taken'[t + 1] = e
          /\ \A i \in 1..b : errorBuffer'[i] = errorBuffer[i]
      BY <1>1, <2>1, Added
    <3>3. \A i \in 1..t : taken'[i] = taken[i]
      BY <1>1, <2>1, Added
    <3>4. ASSUME NEW i \in 1..(b + 1) PROVE errorBuffer'[i] = taken'[t - b + i]
      <4> HIDE DEF b, t
      <4>1. CASE i = b + 1
        BY <1>1, <3>2, <4>1
      <4>2. CASE i # b + 1
        <5>1. i \in 1..b /\ t - b + i \in 1..t
          BY <1>1, <1>2, <4>2
        <5> QED BY <1>2, <3>2, <3>3, <5>1
      <4> QED BY <4>1, <4>2
    <3>5. Len(taken') - Len(errorBuffer') = t - b /\ Len(errorBuffer') <= Len(taken')
      BY <1>1, <1>2, <3>1
    <3> QED BY <3>1, <3>4, <3>5 DEF QueueInv
  <2>2. CASE UNCHANGED <<errorBuffer, taken>>
    BY <2>2 DEF QueueInv
  <2> QED BY <1>3, <2>1, <2>2 DEF ReportSend
<1>4. ASSUME NEW g \in Starters, ProcessTake(g) PROVE QueueInv'
  <2>1. errorBuffer' = Tail(errorBuffer) /\ errorBuffer # <<>> /\ taken' = taken
    BY <1>4 DEF ProcessTake
  <2>2. Len(errorBuffer') = b - 1 /\ b > 0
    BY <1>1, <2>1, Split
  <2>3. \A i \in 1..(b - 1) : errorBuffer'[i] = errorBuffer[i + 1]
    BY <1>1, <2>1, <2>2, Split
  <2>4. ASSUME NEW i \in 1..(b - 1) PROVE errorBuffer'[i] = taken[t - (b - 1) + i]
    <3> HIDE DEF b, t
    <3>1. i + 1 \in 1..b /\ t - b + (i + 1) = t - (b - 1) + i
      BY <1>1, <2>2
    <3> QED BY <1>2, <2>3, <3>1
  <2>5. Len(errorBuffer') <= t
    BY <1>1, <1>2, <2>2
  <2> QED BY <2>1, <2>2, <2>4, <2>5 DEF QueueInv
<1>5. CASE UNCHANGED <<errorBuffer, taken>>
  BY <1>5 DEF QueueInv
<1> QED BY <1>3, <1>4, <1>5, ChannelSteps

(* A step of a goroutine is one of a launched goroutine.                   *)
LEMMA GoesOn ==
  ASSUME TypeOK, NEW g \in Starters, ProcessStep(g)
  PROVE  processor[g].pc # "off" /\ processor'[g].pc # "off"
BY Takes, Loads, Ends, Appends, Counts, Checks DEF ProcessStep

(* Steps that leave the goroutines that file alone.                        *)
LEMMA FilingSteps ==
  ASSUME [Next]_vars
  PROVE  \/ \E g \in Starters : StartStore(g) \/ ProcessStep(g)
         \/ UNCHANGED <<processor, errorHistory>>
BY DEF Next, StartStep, StopStep, AnalyzeStep, ReportStep, StartLoad, StopLoad, StopStore,
       StopClose, StopLock, ReportLoad, ReportSend, ReportCount, AnalyzeLoop, AnalyzeTick,
       ResetStatistics, filedVars, vars

(* The goroutines that were launched stay so.                              *)
LEMMA NextLaunch ==
  TypeOK /\ LaunchInv /\ [Next]_vars => LaunchInv' /\ Started \subseteq Started'
<1> SUFFICES ASSUME TypeOK, LaunchInv, [Next]_vars
             PROVE  LaunchInv' /\ Started \subseteq Started'
  OBVIOUS
<1>1. ASSUME NEW g \in Starters, StartStore(g) PROVE LaunchInv' /\ Started \subseteq Started'
  <2>1. \A h \in Starters : h # g => processor'[h] = processor[h]
    BY <1>1, Others
  <2>2. processor[g].pc = "off" /\ processor'[g].pc = "take"
    BY <1>1, Launches
  <2>3. Started' = Started \cup {g}
    BY <2>1, <2>2 DEF Started
  <2>4. IsFiniteSet(Started')
    BY <2>3, FS_AddElement DEF LaunchInv
  <2>5. \A h \in Starters : start'[h] = IF h = g THEN "done" ELSE start[h]
    BY <1>1 DEF StartStore, TypeOK
  <2> QED BY <2>1, <2>3, <2>4, <2>5 DEF LaunchInv
<1>2. ASSUME NEW g \in Starters, ProcessStep(g) PROVE LaunchInv' /\ Started \subseteq Started'
  <2>1. \A h \in Starters : h # g => processor'[h] = processor[h]
    BY <1>2, Others
  <2>2. processor[g].pc # "off" /\ processor'[g].pc # "off"
    BY <1>2, GoesOn
  <2>3. Started' = Started
    BY <2>1, <2>2 DEF Started
  <2>4. UNCHANGED start
    BY <1>2 DEF ProcessStep, ProcessTake, ProcessLoad, ProcessEnd, ProcessAppend, ProcessCount,
                ProcessCheck, callVars
  <2> QED BY <2>1, <2>2, <2>3, <2>4 DEF LaunchInv
<1>3. ASSUME UNCHANGED processor,
             \A g \in Starters : start'[g] # "done" => start[g] # "done"
      PROVE  LaunchInv' /\ Started \subseteq Started'
  <2>1. Started' = Started
    BY <1>3 DEF Started
  <2> QED BY <1>3, <2>1 DEF LaunchInv
<1>4. ASSUME NEW g \in Starters, StartLoad(g)
      PROVE  UNCHANGED processor /\ \A h \in Starters : start'[h] # "done" => start[h] # "done"
  BY <1>4 DEF StartLoad, TypeOK
<1>5. \/ \E g \in Starters : StartStore(g) \/ ProcessStep(g) \/ StartLoad(g)
      \/ UNCHANGED <<processor, start>>
  BY DEF Next, StartStep, StopStep, AnalyzeStep, ReportStep, StopLoad, StopStore,
         StopClose, StopLock, ReportLoad, ReportSend, ReportCount, AnalyzeLoop, AnalyzeTick,
         ResetStatistics, callVars, vars
<1> QED BY <1>1, <1>2, <1>3, <1>4, <1>5

-----------------------------------------------------------------------------
(* The history.                                                            *)

(* What the history has stays where it is when the channel takes more.     *)
LEMMA LastOfLonger ==
  ASSUME NEW S, NEW h \in Seq(S), NEW s \in Seq(S), NEW t \in Seq(S), NEW n, LastOf(h, s, n),
         Len(s) <= Len(t), \A i \in 1..Len(s) : t[i] = s[i]
  PROVE  LastOf(h, t, n)
<1>1. n \in 0..Len(s) /\ Len(h) = IF n > HistorySize THEN HistorySize ELSE n
  BY DEF LastOf
<1>2. Len(s) \in Nat /\ Len(t) \in Nat /\ Len(h) \in Nat /\ n \in Nat /\ Len(h) <= n
  BY <1>1, SizesAssumption
<1>3. n \in 0..Len(t)
  BY <1>1, <1>2
<1>4. ASSUME NEW i \in 1..Len(h) PROVE h[i] = t[n - Len(h) + i]
  <2>1. n - Len(h) + i \in 1..Len(s)
    BY <1>1, <1>2
  <2> QED BY <1>4, <2>1 DEF LastOf
<1> QED BY <1>1, <1>3, <1>4 DEF LastOf

(* The next element filed, the history still has the last ones.            *)
LEMMA LastOfNext ==
  ASSUME NEW S, NEW h \in Seq(S), NEW s \in Seq(S), NEW n, LastOf(h, s, n), n + 1 <= Len(s),
         NEW x \in S, x = s[n + 1], NEW k, k = Recent(Append(h, x))
  PROVE  LastOf(k, s, n + 1)
<1>1. n \in 0..Len(s) /\ Len(h) = IF n > HistorySize THEN HistorySize ELSE n
  BY DEF LastOf
<1>2. Len(s) \in Nat /\ Len(h) \in Nat /\ n \in Nat /\ HistorySize \in Nat /\ HistorySize > 0
  BY <1>1, SizesAssumption
<1>3. \A i \in 1..Len(h) : h[i] = s[n - Len(h) + i]
  BY DEF LastOf
<1>4. n + 1 \in 0..Len(s)
  BY <1>2
<1>5. PICK a : a = Append(h, x)
  OBVIOUS
<1>6. a \in Seq(S) /\ Len(a) = Len(h) + 1 /\ a[Len(h) + 1] = x
  BY <1>5, Added
<1>7. \A i \in 1..Len(h) : a[i] = h[i]
  BY <1>5, Added
<1>8. ASSUME NEW i \in 1..Len(a) PROVE a[i] = s[n + 1 - Len(a) + i]
  <2>1. CASE i = Len(h) + 1
    <3>1. n + 1 - Len(a) + i = n + 1
      BY <1>2, <1>6, <2>1
    <3> QED BY <1>6, <2>1, <3>1
  <2>2. CASE i # Len(h) + 1
    <3>1. i \in 1..Len(h) /\ n + 1 - Len(a) + i = n - Len(h) + i
      BY <1>2, <1>6, <2>2
    <3> QED BY <1>3, <1>7, <3>1
  <2> QED BY <2>1, <2>2
<1>9. CASE Len(a) > HistorySize
  <2>1. k = Tail(a) /\ a # <<>>
    BY <1>5, <1>6, <1>9, <1>2 DEF Recent
  <2>2. Len(k) = Len(a) - 1
    BY <1>6, <2>1, Split
  <2>3. \A i \in 1..Len(k) : k[i] = a[i + 1]
    BY <1>6, <2>1, Split
  <2>4. ASSUME NEW i \in 1..Len(k) PROVE k[i] = s[n + 1 - Len(k) + i]
    <3>1. i + 1 \in 1..Len(a) /\ n + 1 - Len(a) + (i + 1) = n + 1 - Len(k) + i
      BY <1>2, <1>6, <2>2
    <3> QED BY <1>8, <2>3, <3>1
  <2>5. Len(k) = IF n + 1 > HistorySize THEN HistorySize ELSE n + 1
    BY <1>1, <1>2, <1>6, <1>9, <2>2
  <2> QED BY <1>4, <2>4, <2>5 DEF LastOf
<1>10. CASE ~(Len(a) > HistorySize)
  <2>1. k = a
    BY <1>5, <1>10 DEF Recent
  <2>2. Len(a) = IF n + 1 > HistorySize THEN HistorySize ELSE n + 1
    BY <1>1, <1>2, <1>6, <1>10
  <2> QED BY <1>4, <1>8, <2>1, <2>2 DEF LastOf
<1> QED BY <1>9, <1>10

(* A step that leaves alone how many goroutines file leaves the number of  *)
(* filed records among the possible ones.                                  *)
LEMMA SameFiled ==
  ASSUME Filing' = Filing,
         \A g \in Starters : processor[g].pc = "ended" => processor'[g].pc = "ended",
         Len(taken') - Len(errorBuffer') = Len(taken) - Len(errorBuffer)
  PROVE  FiledCounts \subseteq FiledCounts'
<1>1. Discarded \subseteq Discarded'
  BY DEF Discarded
<1> QED BY <1>1 DEF FiledCounts

(* The numbers of a lone goroutine that has nothing to file, and of one    *)
(* that has.                                                               *)
LEMMA LoneFiled ==
  ASSUME TypeOK, Alone, NEW g \in Starters, processor[g].pc \notin {"off", "ended"}
  PROVE  /\ processor[g].pc \notin {"load", "append"} =>
              Filing = {} /\ FiledCounts = {Len(taken) - Len(errorBuffer)}
         /\ processor[g].pc \in {"load", "append"} =>
              Filing = {g} /\ FiledCounts = {Len(taken) - Len(errorBuffer) - 1}
<1>1. \A h \in Starters : h # g => processor[h].pc = "off"
  BY DEF Alone, Started
<1>2. Discarded = {0}
  BY <1>1 DEF Discarded
<1>3. Len(taken) \in Nat /\ Len(errorBuffer) \in Nat
  BY DEF TypeOK
<1>4. PICK c : c = Cardinality(Filing)
  OBVIOUS
<1>5. FiledCounts = {Len(taken) - Len(errorBuffer) - c - 0}
  BY <1>2, <1>4 DEF FiledCounts
<1>6. CASE processor[g].pc \notin {"load", "append"}
  <2>1. Filing = {}
    BY <1>1, <1>6 DEF Filing
  <2>2. c = 0
    BY <1>4, <2>1, FS_EmptySet
  <2>3. Len(taken) - Len(errorBuffer) - c - 0 = Len(taken) - Len(errorBuffer)
    BY <1>3, <2>2
  <2> QED BY <1>5, <1>6, <2>1, <2>3
<1>7. CASE processor[g].pc \in {"load", "append"}
  <2>1. Filing = {g}
    BY <1>1, <1>7 DEF Filing
  <2>2. c = 1
    BY <1>4, <2>1, FS_Singleton
  <2>3. Len(taken) - Len(errorBuffer) - c - 0 = Len(taken) - Len(errorBuffer) - 1
    BY <1>3, <2>2
  <2> QED BY <1>5, <1>7, <2>1, <2>3
<1> QED BY <1>6, <1>7

(* A record that is held was taken.                                        *)
LEMMA HeldWasTaken ==
  ASSUME TypeOK, CountsInv, NEW g \in Filing
  PROVE  Len(taken) - Len(errorBuffer) \in 1..Len(taken)
<1>1. Holding # {}
  BY DEF Filing, Holding, HoldingSteps
<1>2. Cardinality(Holding) # 0
  BY <1>1, FS_EmptySet DEF CountsInv
<1>3. /\ total \in Nat /\ Len(taken) \in Nat /\ Len(errorBuffer) \in Nat
      /\ Cardinality(Holding) \in Nat
  BY Amounts DEF CountsInv
<1> QED BY <1>2, <1>3 DEF CountsInv

(* The last elements of the first n of a sequence are a part of it.        *)
LEMMA LastOfIsSubSeq ==
  ASSUME NEW S, NEW h \in Seq(S), NEW s \in Seq(S), NEW n, LastOf(h, s, n)
  PROVE  h = SubSeq(s, IF n > HistorySize THEN n - HistorySize + 1 ELSE 1, n)
<1>1. n \in 0..Len(s) /\ Len(h) = IF n > HistorySize THEN HistorySize ELSE n
  BY DEF LastOf
<1>2. Len(s) \in Nat /\ Len(h) \in Nat /\ n \in Nat /\ HistorySize \in Nat /\ HistorySize > 0
  BY <1>1, SizesAssumption
<1>3. \A i \in 1..Len(h) : h[i] = s[n - Len(h) + i]
  BY DEF LastOf
<1>4. PICK m : m = n - Len(h) + 1
  OBVIOUS
<1>5. m = IF n > HistorySize THEN n - HistorySize + 1 ELSE 1
  BY <1>1, <1>2, <1>4
<1>6. m \in 1..(Len(s) + 1) /\ m <= n + 1
  BY <1>1, <1>2, <1>4
<1>7. PICK k : k = SubSeq(s, m, n)
  OBVIOUS
<1>8. k \in Seq(S) /\ Len(k) = n - m + 1 /\ \A i \in 1..Len(k) : k[i] = s[m + i - 1]
  BY <1>1, <1>2, <1>6, <1>7
<1>9. Len(k) = Len(h)
  BY <1>2, <1>4, <1>8
<1>10. ASSUME NEW i \in 1..Len(h) PROVE h[i] = k[i]
  <2>1. n - Len(h) + i = m + i - 1
    BY <1>2, <1>4
  <2> QED BY <1>3, <1>8, <1>9, <2>1
<1>11. h = k
  BY <1>8, <1>9, <1>10
<1> QED BY <1>5, <1>7, <1>11

(* Every step keeps the history.                                           *)
LEMMA NextHistory ==
  TypeOK /\ CountsInv /\ QueueInv /\ LaunchInv /\ HistoryInv /\ [Next]_vars => HistoryInv'
<1> SUFFICES ASSUME TypeOK, CountsInv, QueueInv, LaunchInv, HistoryInv, [Next]_vars, Alone'
             PROVE  /\ \E n \in FiledCounts' : LastOf(errorHistory, taken, n)'
                    /\ \A g \in Filing' : processor'[g].record
                                            = taken'[Len(taken') - Len(errorBuffer')]
  BY DEF HistoryInv
<1> DEFINE Filed == \E n \in FiledCounts' : LastOf(errorHistory, taken, n)'
           Held  == \A g \in Filing' : processor'[g].record
                                         = taken'[Len(taken') - Len(errorBuffer')]
<1>1. Started \subseteq Started' /\ Alone
  <2>1. Started \subseteq Started'
    BY NextLaunch
  <2> QED BY <2>1 DEF Alone
<1>2. PICK n \in FiledCounts : LastOf(errorHistory, taken, n)
  BY <1>1 DEF HistoryInv
<1>3. \A g \in Filing : processor[g].record = taken[Len(taken) - Len(errorBuffer)]
  BY <1>1 DEF HistoryInv
<1>4. /\ errorHistory \in Seq(Errors) /\ errorBuffer \in Seq(Errors) /\ taken \in Seq(Errors)
      /\ Len(taken) \in Nat /\ Len(errorBuffer) \in Nat
  BY DEF TypeOK
<1>5. ASSUME Filing' = Filing, \A g \in Filing : processor'[g] = processor[g],
             \A g \in Starters : processor[g].pc = "ended" => processor'[g].pc = "ended",
             UNCHANGED <<errorHistory, errorBuffer, taken>>
      PROVE  Filed /\ Held
  <2>1. n \in FiledCounts'
    BY <1>2, <1>5, SameFiled
  <2>2. LastOf(errorHistory, taken, n)'
    BY <1>2, <1>5
  <2>3. Held
    BY <1>3, <1>5
  <2> QED BY <2>1, <2>2, <2>3
<1>6. ASSUME NEW e \in Errors, ReportSend(e) PROVE Filed /\ Held
  <2>1. Filing' = Filing /\ UNCHANGED <<processor, errorHistory>>
    BY <1>6 DEF Filing, ReportSend, filedVars
  <2>2. CASE errorBuffer' = Append(errorBuffer, e) /\ taken' = Append(taken, e)
    <3>1. Len(errorBuffer') = Len(errorBuffer) + 1 /\ Len(taken') = Len(taken) + 1
      BY <1>4, <2>2, Added
    <3>2. taken' \in Seq(Errors) /\ \A i \in 1..Len(taken) : taken'[i] = taken[i]
      BY <1>4, <2>2, Added
    <3>3. Len(taken') - Len(errorBuffer') = Len(taken) - Len(errorBuffer)
      BY <1>4, <3>1
    <3>4. n \in FiledCounts'
      BY <1>2, <2>1, <3>3, SameFiled
    <3>5. Len(taken) <= Len(taken')
      BY <1>4, <3>1
    <3>6. LastOf(errorHistory, taken', n)
      BY <1>2, <1>4, <3>2, <3>5, LastOfLonger
    <3>7. LastOf(errorHistory, taken, n)'
      BY <2>1, <3>6 DEF LastOf
    <3>8. ASSUME NEW g \in Filing
          PROVE  processor'[g].record = taken'[Len(taken') - Len(errorBuffer')]
      <4>1. Len(taken) - Len(errorBuffer) \in 1..Len(taken)
        BY <3>8, HeldWasTaken
      <4> QED BY <1>3, <2>1, <3>2, <3>3, <4>1
    <3> QED BY <2>1, <3>4, <3>7, <3>8
  <2>3. CASE UNCHANGED <<errorBuffer, taken>>
    BY <1>5, <2>1, <2>3
  <2> QED BY <1>6, <2>2, <2>3 DEF ReportSend
<1>7. ASSUME NEW g \in Starters, ProcessTake(g) PROVE Filed /\ Held
  <2>1. /\ errorBuffer # <<>> /\ errorBuffer' = Tail(errorBuffer)
        /\ UNCHANGED <<errorHistory, taken>>
    BY <1>7 DEF ProcessTake, filedVars
  <2>2. Len(errorBuffer') = Len(errorBuffer) - 1 /\ Head(errorBuffer) = errorBuffer[1]
    BY <1>4, <2>1, Split
  <2>3. processor[g].pc = "take"
    BY <1>7, Takes
  <2>4. FiledCounts = {Len(taken) - Len(errorBuffer)}
    BY <1>1, <2>3, LoneFiled
  <2>5. n = Len(taken) - Len(errorBuffer)
    BY <1>2, <2>4
  <2>6. \A h \in Starters : h # g => processor'[h] = processor[h]
    BY <1>7, Others DEF ProcessStep
  <2>7. \A h \in Starters : h # g => processor[h].pc = "off"
    BY <1>1, <2>3 DEF Alone, Started
  <2>8. LastOf(errorHistory, taken, n)'
    BY <1>2, <2>1 DEF LastOf
  <2>9. processor'[g].pc = "load" /\ processor'[g].record = errorBuffer[1]
    BY <1>7, <2>2, Takes
  <2>10. Filing' = {g} /\ Discarded' = {0}
    BY <2>6, <2>7, <2>9 DEF Filing, Discarded
  <2>11. Cardinality(Filing') = 1
    BY <2>10, FS_Singleton
  <2>12. FiledCounts' = {Len(taken') - Len(errorBuffer') - 1 - 0}
    BY <2>10, <2>11 DEF FiledCounts
  <2>13. Len(taken') - Len(errorBuffer') - 1 - 0 = n
    BY <1>4, <2>1, <2>2, <2>5
  <2>14. Len(errorBuffer) > 0
    BY <1>4, <2>1, Split
  <2>15. errorBuffer[1] = taken[Len(taken) - Len(errorBuffer) + 1]
    BY <1>4, <2>14 DEF QueueInv
  <2>16. Len(taken') - Len(errorBuffer') = Len(taken) - Len(errorBuffer) + 1
    BY <1>4, <2>1, <2>2
  <2>17. Held
    BY <2>1, <2>9, <2>10, <2>15, <2>16
  <2> QED BY <2>8, <2>12, <2>13, <2>17
<1>8. ASSUME NEW g \in Starters, ProcessLoad(g) PROVE Filed /\ Held
  <2>1. \A h \in Starters : h # g => processor'[h] = processor[h]
    BY <1>8, Others DEF ProcessStep
  <2>2. processor[g].pc = "load"
    BY <1>8, Loads
  <2>3. UNCHANGED <<errorHistory, errorBuffer, taken>>
    BY <1>8 DEF ProcessLoad, filedVars
  <2>4. Filing = {g} /\ FiledCounts = {Len(taken) - Len(errorBuffer) - 1}
    BY <1>1, <2>2, LoneFiled
  <2>5. CASE processor'[g].pc = "append" /\ processor'[g].record = processor[g].record
    <3>1. Filing' = Filing
      BY <2>1, <2>2, <2>5 DEF Filing
    <3>2. \A h \in Starters : processor[h].pc = "ended" => processor'[h].pc = "ended"
      BY <2>1, <2>2
    <3>3. n \in FiledCounts'
      BY <1>2, <2>3, <3>1, <3>2, SameFiled
    <3>4. LastOf(errorHistory, taken, n)'
      BY <1>2, <2>3
    <3>5. Held
      BY <1>3, <2>3, <2>4, <2>5, <3>1
    <3> QED BY <3>3, <3>4, <3>5
  <2>6. CASE processor'[g].pc = "ended"
    <3>1. \A h \in Starters : h # g => processor[h].pc = "off"
      BY <1>1, <2>2 DEF Alone, Started
    <3>2. Filing' = {}
      BY <2>1, <2>6, <3>1 DEF Filing
    <3>3. 1 \in Discarded'
      BY <2>6 DEF Discarded
    <3>4. Cardinality(Filing') = 0
      BY <3>2, FS_EmptySet
    <3>5. Len(taken') - Len(errorBuffer') - 0 - 1 \in FiledCounts'
      BY <3>3, <3>4 DEF FiledCounts
    <3>6. Len(taken') - Len(errorBuffer') - 0 - 1 = n
      BY <1>2, <1>4, <2>3, <2>4
    <3>7. LastOf(errorHistory, taken, n)'
      BY <1>2, <2>3
    <3> QED BY <3>2, <3>5, <3>6, <3>7
  <2> QED BY <1>8, <2>5, <2>6, Loads
<1>9. ASSUME NEW g \in Starters, ProcessAppend(g) PROVE Filed /\ Held
  <2>1. processor[g].pc = "append" /\ processor'[g].pc = "count"
    BY <1>9, Appends
  <2>2. UNCHANGED <<errorBuffer, taken>>
    BY <1>9 DEF ProcessAppend
  <2>3. PICK x \in Errors : x = processor[g].record
    BY <2>1 DEF TypeOK
  <2>4. errorHistory' = Recent(Append(errorHistory, x))
    BY <1>9, <2>3 DEF ProcessAppend
  <2>5. Filing = {g} /\ FiledCounts = {Len(taken) - Len(errorBuffer) - 1}
    BY <1>1, <2>1, LoneFiled
  <2>6. Len(taken) - Len(errorBuffer) \in 1..Len(taken)
    BY <2>5, HeldWasTaken
  <2>7. n + 1 = Len(taken) - Len(errorBuffer) /\ n + 1 <= Len(taken)
    BY <1>2, <1>4, <2>5, <2>6
  <2>8. x = taken[n + 1]
    BY <1>3, <2>3, <2>5, <2>7
  <2>9. LastOf(errorHistory', taken, n + 1)
    BY <1>2, <1>4, <2>4, <2>7, <2>8, LastOfNext
  <2>10. \A h \in Starters : h # g => processor'[h].pc = "off"
    <3>1. \A h \in Starters : h # g => processor'[h] = processor[h]
      BY <1>9, Others DEF ProcessStep
    <3> QED BY <1>1, <2>1, <3>1 DEF Alone, Started
  <2>11. Filing' = {} /\ Discarded' = {0} /\ Cardinality(Filing') = 0
    <3>1. Filing' = {} /\ Discarded' = {0}
      BY <2>1, <2>10 DEF Filing, Discarded
    <3> QED BY <3>1, FS_EmptySet
  <2>12. FiledCounts' = {Len(taken') - Len(errorBuffer') - 0 - 0}
    BY <2>11 DEF FiledCounts
  <2>13. LastOf(errorHistory, taken, n + 1)'
    BY <2>2, <2>9 DEF LastOf
  <2>14. n + 1 \in FiledCounts'
    <3>1. Len(taken') - Len(errorBuffer') - 0 - 0 = n + 1
      BY <1>4, <2>2, <2>7
    <3> QED BY <2>12, <3>1
  <2> QED BY <2>11, <2>13, <2>14
<1>10. ASSUME NEW g \in Starters,
              StartStore(g) \/ ProcessEnd(g) \/ ProcessCount(g) \/ ProcessCheck(g)
       PROVE  Filed /\ Held
  <2>1. \A h \in Starters : h # g => processor'[h] = processor[h]
    BY <1>10, Others DEF ProcessStep
  <2>2. /\ processor[g].pc \notin {"load", "append", "ended"}
        /\ processor'[g].pc \notin {"load", "append"}
    BY <1>10, Launches, Ends, Counts, Checks
  <2>3. Filing' = Filing /\ g \notin Filing
    BY <2>1, <2>2 DEF Filing
  <2>4. UNCHANGED <<errorHistory, errorBuffer, taken>>
    BY <1>10 DEF StartStore, ProcessEnd, ProcessCount, ProcessCheck, filedVars
  <2>5. \A h \in Filing : processor'[h] = processor[h]
    BY <2>1, <2>3 DEF Filing
  <2>6. \A h \in Starters : processor[h].pc = "ended" => processor'[h].pc = "ended"
    BY <2>1, <2>2
  <2> QED BY <1>5, <2>3, <2>4, <2>5, <2>6
<1>11. CASE UNCHANGED <<processor, errorHistory, errorBuffer, taken>>
  <2>1. Filing' = Filing
    BY <1>11 DEF Filing
  <2> QED BY <1>5, <1>11, <2>1
<1>12. \/ \E e \in Errors : ReportSend(e)
       \/ \E g \in Starters : StartStore(g) \/ ProcessStep(g)
       \/ UNCHANGED <<processor, errorHistory, errorBuffer, taken>>
  BY ChannelSteps, FilingSteps DEF ProcessStep
<1> QED BY <1>6, <1>7, <1>9, <1>10, <1>11, <1>12, <1>8 DEF ProcessStep

-----------------------------------------------------------------------------
(* Results.                                                                *)

(* The invariant holds in every reachable state.                           *)
THEOREM Invariant == Spec => []IInv
<1>1. Init => IInv
  <2> SUFFICES ASSUME Init PROVE IInv
    OBVIOUS
  <2>1. "off" \in ProcessorSteps
    BY DEF ProcessorSteps
  <2>2. /\ processor \in [Starters -> ProcessorRecord]
        /\ \A g \in Starters : processor[g].pc = "off"
    BY <2>1, IdleType DEF Init
  <2>3. TypeOK
    <3>1. start \in [Starters -> StartSteps] /\ stop \in [Stoppers -> StopSteps]
      BY DEF Init, StartSteps, StopSteps
    <3>2. report \in [Errors -> ReportSteps] /\ analyzer \in [Starters -> AnalyzerSteps]
      BY DEF Init, ReportSteps, AnalyzerSteps
    <3>3. resets \in 0..MaxResets
      BY BoundAssumption DEF Init
    <3>4. /\ errorBuffer \in Seq(Errors) /\ Len(errorBuffer) <= BufferSize
          /\ errorHistory \in Seq(Errors) /\ Len(errorHistory) <= HistorySize
          /\ taken \in Seq(Errors)
      BY SizesAssumption DEF Init
    <3> QED BY <2>2, <3>1, <3>2, <3>3, <3>4 DEF Init, TypeOK
  <2>4. Holding = {} /\ Started = {} /\ Filing = {} /\ Counting = {}
    BY <2>2 DEF Init, HoldingSteps, Holding, Started, Filing, Counting
  <2>5. /\ total = 0 /\ errorCount = 0
        /\ Len(errorBuffer) = 0 /\ Len(taken) = 0 /\ Len(errorHistory) = 0
    BY DEF Init
  <2>6. CountsInv
    BY <2>4, <2>5, FS_EmptySet DEF CountsInv
  <2>7. QueueInv
    BY <2>5 DEF QueueInv
  <2>8. LaunchInv
    BY <2>2, <2>4, FS_EmptySet DEF LaunchInv
  <2>9. HistoryInv
    <3>1. 0 \in FiledCounts
      BY <2>4, <2>5, FS_EmptySet DEF FiledCounts, Discarded
    <3>2. LastOf(errorHistory, taken, 0)
      BY <2>5, SizesAssumption DEF LastOf
    <3> QED BY <2>4, <3>1, <3>2 DEF HistoryInv
  <2> QED BY <2>3, <2>6, <2>7, <2>8, <2>9 DEF IInv
<1>2. IInv /\ [Next]_vars => IInv'
  BY NextTypes, NextCounts, NextQueue, NextLaunch, NextHistory DEF IInv
<1> QED BY <1>1, <1>2, PTL DEF Spec

(* The monitor's state keeps to its types: the channel never has more than *)
(* its capacity, the history never more than HistorySize                   *)
(* (error_monitor.go:429-431), a goroutine that files holds an error.      *)
THEOREM TypeCorrect == Spec => []TypeOK
<1>1. IInv => TypeOK
  BY DEF IInv
<1> QED BY Invariant, <1>1, PTL

(* However calls of RecordError, Start and Stop interleave, the statistics *)
(* count no error that was not reported, and none twice.                   *)
THEOREM StatisticsAreCovered == Spec => []StatisticsCovered
<1>1. IInv => StatisticsCovered
  <2> SUFFICES ASSUME IInv, resets = 0 PROVE total <= errorCount + Cardinality(Counting)
    BY DEF StatisticsCovered
  <2>1. /\ total \in Nat /\ errorCount \in Nat /\ Len(taken) \in Nat /\ Len(errorBuffer) \in Nat
        /\ Cardinality(Holding) \in Nat /\ Cardinality(Counting) \in Nat
    BY Amounts DEF IInv, CountsInv
  <2> QED BY <2>1 DEF IInv, CountsInv
<1> QED BY Invariant, <1>1, PTL

(* A monitor that was started once has the last HistorySize of the errors  *)
(* that processErrors took from the channel, in their order.               *)
THEOREM HistoryStaysRecent == Spec => []HistoryIsRecent
<1>1. IInv => HistoryIsRecent
  <2> SUFFICES ASSUME IInv, Cardinality(Started) <= 1
               PROVE  \E n \in FiledCounts :
                        errorHistory = SubSeq(taken, IF n > HistorySize
                                                     THEN n - HistorySize + 1 ELSE 1, n)
    BY DEF HistoryIsRecent
  <2>1. Alone
    <3>1. IsFiniteSet(Started) /\ Cardinality(Started) \in Nat
      BY FS_CardinalityType DEF IInv, LaunchInv
    <3>2. CASE Cardinality(Started) = 0
      BY <3>1, <3>2, FS_EmptySet DEF Alone
    <3>3. CASE Cardinality(Started) = 1
      <4>1. \E x : Started = {x}
        BY <3>1, <3>3, FS_Singleton
      <4> QED BY <4>1 DEF Alone
    <3> QED BY <3>1, <3>2, <3>3
  <2>2. PICK n \in FiledCounts : LastOf(errorHistory, taken, n)
    BY <2>1 DEF IInv, HistoryInv
  <2>3. errorHistory \in Seq(Errors) /\ taken \in Seq(Errors)
    BY DEF IInv, TypeOK
  <2>4. errorHistory = SubSeq(taken, IF n > HistorySize THEN n - HistorySize + 1 ELSE 1, n)
    BY <2>2, <2>3, LastOfIsSubSeq
  <2> QED BY <2>4
<1> QED BY Invariant, <1>1, PTL

=============================================================================
