--------------------------- MODULE Listener_proofs ---------------------------
(***************************************************************************)
(* Theorems about Listener, for any number of listeners, streams and       *)
(* callers and any buffer size and idle timeout.                           *)
(***************************************************************************)
EXTENDS Listener, FiniteSetTheorems, TLAPS

USE CapacityAssumption, IdleTicksAssumption, NoneAssumption

(* The channel is a buffered one of the configured capacity.               *)
QueueBound == \A l \in Listeners : Len(queue[l]) <= Capacity

(* Where a Close stands decides what of it is visible.                     *)
CloseInv ==
  \A l \in Listeners :
    /\ closing[l] # "free" => l \in closed
    /\ closing[l] = "cancel" => l \notin done
    /\ closing[l] = "remove" => l \in done
    /\ l \in closed /\ closing[l] = "free" => l \in done /\ handler # l

(* A stream that a handler received belongs to a listener; an Accept in    *)
(* progress is on one.                                                     *)
OwnerInv ==
  /\ \A s \in Streams : stream[s] \notin {"incoming", "refused"} =>
                          owner[s] \in opened
  /\ \A s \in Streams : stream[s] = "incoming" => owner[s] = None
  /\ \A c \in Callers : call[c].pc # "idle" => call[c].on \in opened

IInv == /\ TypeOK /\ CloseInv /\ OwnerInv
        /\ QueuePlacement /\ QueueBound /\ HandOffExclusive

(* The initial state satisfies the inductive invariant.                    *)
LEMMA InitIInv == Init => IInv
  BY DEF Init, IInv, QueuePlacement, QueueBound, HandOffExclusive, TypeOK, CloseInv, OwnerInv, CloseSteps, StreamStates,
         CallStates, IdleStates, CallRecord, IdleRecord,
         NotCalling

(* Every action of Listener keeps its variables within their types.        *)
LEMMA TypeStep == IInv /\ [Next]_vars => TypeOK'
<1> SUFFICES ASSUME IInv, [Next]_vars PROVE TypeOK'
  OBVIOUS
<1> USE DEF IInv, TypeOK, CloseInv, OwnerInv, hostVars, closeVars, statsVars
<1>1. ASSUME NEW l \in Listeners, Listen(l) PROVE TypeOK'
  <2>1. idle[l] \in IdleRecord
    OBVIOUS
  <2>2. [idle[l] EXCEPT !.pc = IF IdleTicks > 0 THEN "watch" ELSE "off"] \in IdleRecord
    BY <2>1 DEF IdleRecord, IdleStates
  <2>3. idle' \in [Listeners -> IdleRecord]
    BY <1>1, <2>2 DEF Listen
  <2> QED
    BY <1>1, <2>3 DEF Listen
<1>2. ASSUME NEW l \in Listeners, AppClose(l) PROVE TypeOK'
  BY <1>2 DEF AppClose, CloseBegin, CloseSteps
<1>3. ASSUME NEW l \in Listeners, CloseCancel(l) PROVE TypeOK'
  BY <1>3 DEF CloseCancel, CloseSteps
<1>4. ASSUME NEW l \in Listeners, CloseRemove(l) PROVE TypeOK'
  <2>1. idle[l] \in IdleRecord
    OBVIOUS
  <2>2. [idle[l] EXCEPT !.pc = IF @ = "inClose" THEN "off" ELSE @] \in IdleRecord
    BY <2>1 DEF IdleRecord, IdleStates
  <2>3. idle' \in [Listeners -> IdleRecord]
    BY <1>4, <2>2 DEF CloseRemove
  <2> QED
    BY <1>4, <2>3 DEF CloseRemove, CloseSteps
<1>5. ASSUME NEW l \in Listeners, IdleActive(l) PROVE TypeOK'
  <2>1. [pc |-> "watch", accepted |-> accepted[l], dropped |-> dropped[l], age |-> 0]
          \in IdleRecord
    BY DEF IdleRecord, IdleStates
  <2> QED
    BY <1>5, <2>1 DEF IdleActive
<1>6. ASSUME NEW l \in Listeners, IdleWait(l) PROVE TypeOK'
  <2>1. idle[l] \in IdleRecord
    OBVIOUS
  <2>2. idle[l].age + 1 \in 0..IdleTicks
    BY <1>6, <2>1 DEF IdleWait, IdleRecord
  <2>3. [idle[l] EXCEPT !.age = @ + 1] \in IdleRecord
    BY <2>1, <2>2 DEF IdleRecord
  <2> QED
    BY <1>6, <2>3 DEF IdleWait
<1>7. ASSUME NEW l \in Listeners, IdleExpire(l) PROVE TypeOK'
  BY <1>7 DEF IdleExpire, IdleRecord, IdleStates
<1>8. ASSUME NEW l \in Listeners, IdleClose(l) PROVE TypeOK'
  <2>1. idle[l] \in IdleRecord
    OBVIOUS
  <2>2. [idle[l] EXCEPT !.pc = "inClose"] \in IdleRecord
    BY <2>1 DEF IdleRecord, IdleStates
  <2> QED
    BY <1>8, <2>2 DEF IdleClose, CloseBegin, CloseSteps
<1>9. ASSUME NEW l \in Listeners, IdleExit(l) PROVE TypeOK'
  BY <1>9 DEF IdleExit, IdleRecord, IdleStates
<1>10. ASSUME NEW s \in Streams, Arrive(s) PROVE TypeOK'
  BY <1>10 DEF Arrive, StreamStates
<1>11. ASSUME NEW s \in Streams, HandlerQueue(s) PROVE TypeOK'
  <2>1. owner[s] \in Listeners
    BY <1>11 DEF HandlerQueue
  <2>2. Append(queue[owner[s]], s) \in Seq(Streams)
    BY <2>1
  <2> QED
    BY <1>11, <2>2 DEF HandlerQueue, StreamStates
<1>12. ASSUME NEW s \in Streams, NEW c \in Callers, HandlerHandOff(s, c) PROVE TypeOK'
  <2>1. call[c] \in CallRecord
    OBVIOUS
  <2>2. [call[c] EXCEPT !.pc = "count", !.got = s] \in CallRecord
    BY <2>1 DEF CallRecord, CallStates
  <2>3. call' = [call EXCEPT ![c] = [call[c] EXCEPT !.pc = "count", !.got = s]]
    BY <1>12 DEF HandlerHandOff
  <2> QED
    BY <1>12, <2>2, <2>3 DEF HandlerHandOff, StreamStates
<1>13. ASSUME NEW s \in Streams, HandlerReject(s) PROVE TypeOK'
  BY <1>13 DEF HandlerReject, StreamStates
<1>14. ASSUME NEW s \in Streams, HandlerCountReject(s) PROVE TypeOK'
  <2>1. stream[s] = "resetting"
    BY <1>14 DEF HandlerCountReject
  <2>2. owner[s] \in Listeners
    BY <2>1
  <2>3. dropped[owner[s]] + 1 \in Nat
    BY <2>2
  <2>4. dropped' \in [Listeners -> Nat]
    BY <1>14, <2>2, <2>3 DEF HandlerCountReject
  <2> QED
    BY <1>14, <2>4 DEF HandlerCountReject, StreamStates
<1>15. ASSUME NEW s \in Streams, HandlerOverflow(s) PROVE TypeOK'
  <2>1. stream[s] = "handling"
    BY <1>15 DEF HandlerOverflow
  <2>2. owner[s] \in Listeners
    BY <2>1
  <2>3. dropped[owner[s]] + 1 \in Nat
    BY <2>2
  <2>4. dropped' \in [Listeners -> Nat]
    BY <1>15, <2>2, <2>3 DEF HandlerOverflow
  <2> QED
    BY <1>15, <2>4 DEF HandlerOverflow, StreamStates
<1>16. ASSUME NEW s \in Streams, HandlerReset(s) PROVE TypeOK'
  BY <1>16 DEF HandlerReset, StreamStates
<1>17. ASSUME NEW c \in Callers, NEW l \in Listeners, AcceptCheck(c, l) PROVE TypeOK'
  <2>1. call[c] \in CallRecord
    OBVIOUS
  <2>2. [call[c] EXCEPT !.pc = "select", !.on = l] \in CallRecord
    BY <2>1 DEF CallRecord, CallStates
  <2>3. call' = [call EXCEPT ![c] = [call[c] EXCEPT !.pc = "select", !.on = l]]
    BY <1>17 DEF AcceptCheck
  <2> QED
    BY <1>17, <2>2, <2>3 DEF AcceptCheck
<1>18. ASSUME NEW c \in Callers, AcceptTake(c) PROVE TypeOK'
  <2> DEFINE l == call[c].on
  <2>1. call[c] \in CallRecord /\ l \in Listeners /\ queue[l] \in Seq(Streams)
    BY <1>18 DEF AcceptTake
  <2>2. Head(queue[l]) \in Streams /\ Tail(queue[l]) \in Seq(Streams)
    BY <1>18, <2>1 DEF AcceptTake
  <2>3. [call[c] EXCEPT !.pc = "count", !.got = Head(queue[l])] \in CallRecord
    BY <2>1, <2>2 DEF CallRecord, CallStates
  <2>4. call' = [call EXCEPT ![c] = [call[c] EXCEPT !.pc = "count", !.got = Head(queue[l])]]
    BY <1>18 DEF AcceptTake
  <2> QED
    BY <1>18, <2>1, <2>2, <2>3, <2>4 DEF AcceptTake, StreamStates
<1>19. ASSUME NEW c \in Callers, AcceptCount(c) PROVE TypeOK'
  <2>1. accepted' \in [Listeners -> Nat]
    BY <1>19 DEF AcceptCount
  <2>2. NotCalling \in CallRecord
    BY DEF NotCalling, CallRecord, CallStates
  <2> QED
    BY <1>19, <2>1, <2>2 DEF AcceptCount, StreamStates
<1>20. ASSUME NEW c \in Callers, AcceptCancel(c) PROVE TypeOK'
  BY <1>20 DEF AcceptCancel, NotCalling, CallRecord, CallStates
<1>21. CASE UNCHANGED vars
  BY <1>21 DEF vars
<1> QED
  BY <1>1, <1>2, <1>3, <1>4, <1>5, <1>6, <1>7, <1>8, <1>9, <1>10, <1>11, <1>12, <1>13, <1>14, <1>15, <1>16, <1>17, <1>18, <1>19, <1>20, <1>21
  DEF Next, CloseStep, IdleStep, HandlerStep, AcceptStep

(* Every action keeps the order of the steps of Close.                     *)
LEMMA CloseInvStep == IInv /\ [Next]_vars => CloseInv'
<1> SUFFICES ASSUME IInv, [Next]_vars PROVE CloseInv'
  OBVIOUS
<1> USE DEF IInv, TypeOK, CloseInv, CloseSteps, hostVars, closeVars, statsVars
<1>1. ASSUME NEW l \in Listeners, Listen(l) PROVE CloseInv'
  BY <1>1 DEF Listen
<1>2. ASSUME NEW l \in Listeners, AppClose(l) PROVE CloseInv'
  BY <1>2 DEF AppClose, CloseBegin
<1>3. ASSUME NEW l \in Listeners, CloseCancel(l) PROVE CloseInv'
  BY <1>3 DEF CloseCancel
<1>4. ASSUME NEW l \in Listeners, CloseRemove(l) PROVE CloseInv'
  BY <1>4 DEF CloseRemove
<1>5. ASSUME NEW l \in Listeners, IdleActive(l) PROVE CloseInv'
  BY <1>5 DEF IdleActive
<1>6. ASSUME NEW l \in Listeners, IdleWait(l) PROVE CloseInv'
  BY <1>6 DEF IdleWait
<1>7. ASSUME NEW l \in Listeners, IdleExpire(l) PROVE CloseInv'
  BY <1>7 DEF IdleExpire
<1>8. ASSUME NEW l \in Listeners, IdleClose(l) PROVE CloseInv'
  BY <1>8 DEF IdleClose, CloseBegin
<1>9. ASSUME NEW l \in Listeners, IdleExit(l) PROVE CloseInv'
  BY <1>9 DEF IdleExit
<1>10. ASSUME NEW s \in Streams, Arrive(s) PROVE CloseInv'
  BY <1>10 DEF Arrive
<1>11. ASSUME NEW s \in Streams, HandlerQueue(s) PROVE CloseInv'
  BY <1>11 DEF HandlerQueue
<1>12. ASSUME NEW s \in Streams, NEW c \in Callers, HandlerHandOff(s, c) PROVE CloseInv'
  BY <1>12 DEF HandlerHandOff
<1>13. ASSUME NEW s \in Streams, HandlerReject(s) PROVE CloseInv'
  BY <1>13 DEF HandlerReject
<1>14. ASSUME NEW s \in Streams, HandlerCountReject(s) PROVE CloseInv'
  BY <1>14 DEF HandlerCountReject
<1>15. ASSUME NEW s \in Streams, HandlerOverflow(s) PROVE CloseInv'
  BY <1>15 DEF HandlerOverflow
<1>16. ASSUME NEW s \in Streams, HandlerReset(s) PROVE CloseInv'
  BY <1>16 DEF HandlerReset
<1>17. ASSUME NEW c \in Callers, NEW l \in Listeners, AcceptCheck(c, l) PROVE CloseInv'
  BY <1>17 DEF AcceptCheck
<1>18. ASSUME NEW c \in Callers, AcceptTake(c) PROVE CloseInv'
  BY <1>18 DEF AcceptTake
<1>19. ASSUME NEW c \in Callers, AcceptCount(c) PROVE CloseInv'
  BY <1>19 DEF AcceptCount
<1>20. ASSUME NEW c \in Callers, AcceptCancel(c) PROVE CloseInv'
  BY <1>20 DEF AcceptCancel
<1>21. CASE UNCHANGED vars
  BY <1>21 DEF vars
<1> QED
  BY <1>1, <1>2, <1>3, <1>4, <1>5, <1>6, <1>7, <1>8, <1>9, <1>10, <1>11, <1>12, <1>13, <1>14, <1>15, <1>16, <1>17, <1>18, <1>19, <1>20, <1>21
  DEF Next, CloseStep, IdleStep, HandlerStep, AcceptStep

(* Every action keeps streams and calls on listeners that exist.           *)
LEMMA OwnerInvStep == IInv /\ [Next]_vars => OwnerInv'
<1> SUFFICES ASSUME IInv, [Next]_vars PROVE OwnerInv'
  OBVIOUS
<1> USE DEF IInv, TypeOK, OwnerInv, StreamStates, CallStates, CallRecord, NotCalling, hostVars,
            closeVars, statsVars
<1>1. ASSUME NEW l \in Listeners, Listen(l) PROVE OwnerInv'
  BY <1>1 DEF Listen
<1>2. ASSUME NEW l \in Listeners, AppClose(l) PROVE OwnerInv'
  BY <1>2 DEF AppClose, CloseBegin
<1>3. ASSUME NEW l \in Listeners, CloseCancel(l) PROVE OwnerInv'
  BY <1>3 DEF CloseCancel
<1>4. ASSUME NEW l \in Listeners, CloseRemove(l) PROVE OwnerInv'
  BY <1>4 DEF CloseRemove
<1>5. ASSUME NEW l \in Listeners, IdleActive(l) PROVE OwnerInv'
  BY <1>5 DEF IdleActive
<1>6. ASSUME NEW l \in Listeners, IdleWait(l) PROVE OwnerInv'
  BY <1>6 DEF IdleWait
<1>7. ASSUME NEW l \in Listeners, IdleExpire(l) PROVE OwnerInv'
  BY <1>7 DEF IdleExpire
<1>8. ASSUME NEW l \in Listeners, IdleClose(l) PROVE OwnerInv'
  BY <1>8 DEF IdleClose, CloseBegin
<1>9. ASSUME NEW l \in Listeners, IdleExit(l) PROVE OwnerInv'
  BY <1>9 DEF IdleExit
<1>10. ASSUME NEW s \in Streams, Arrive(s) PROVE OwnerInv'
  BY <1>10 DEF Arrive
<1>11. ASSUME NEW s \in Streams, HandlerQueue(s) PROVE OwnerInv'
  BY <1>11 DEF HandlerQueue
<1>12. ASSUME NEW s \in Streams, NEW c \in Callers, HandlerHandOff(s, c) PROVE OwnerInv'
  BY <1>12 DEF HandlerHandOff
<1>13. ASSUME NEW s \in Streams, HandlerReject(s) PROVE OwnerInv'
  BY <1>13 DEF HandlerReject
<1>14. ASSUME NEW s \in Streams, HandlerCountReject(s) PROVE OwnerInv'
  BY <1>14 DEF HandlerCountReject
<1>15. ASSUME NEW s \in Streams, HandlerOverflow(s) PROVE OwnerInv'
  BY <1>15 DEF HandlerOverflow
<1>16. ASSUME NEW s \in Streams, HandlerReset(s) PROVE OwnerInv'
  BY <1>16 DEF HandlerReset
<1>17. ASSUME NEW c \in Callers, NEW l \in Listeners, AcceptCheck(c, l) PROVE OwnerInv'
  BY <1>17 DEF AcceptCheck
<1>18. ASSUME NEW c \in Callers, AcceptTake(c) PROVE OwnerInv'
  <2> DEFINE l == call[c].on
  <2>1. l \in Listeners /\ queue[l] \in Seq(Streams) /\ queue[l] # <<>>
    BY <1>18 DEF AcceptTake
  <2>2. 1 \in 1..Len(queue[l]) /\ Head(queue[l]) = queue[l][1]
    BY <2>1
  <2>3. Head(queue[l]) \in Streams /\ stream[Head(queue[l])] = "queued"
    BY <2>1, <2>2 DEF QueuePlacement
  <2> QED
    BY <1>18, <2>3 DEF AcceptTake
<1>19. ASSUME NEW c \in Callers, AcceptCount(c) PROVE OwnerInv'
  BY <1>19 DEF AcceptCount, HandOffExclusive
<1>20. ASSUME NEW c \in Callers, AcceptCancel(c) PROVE OwnerInv'
  BY <1>20 DEF AcceptCancel
<1>21. CASE UNCHANGED vars
  BY <1>21 DEF vars
<1> QED
  BY <1>1, <1>2, <1>3, <1>4, <1>5, <1>6, <1>7, <1>8, <1>9, <1>10, <1>11, <1>12, <1>13, <1>14, <1>15, <1>16, <1>17, <1>18, <1>19, <1>20, <1>21
  DEF Next, CloseStep, IdleStep, HandlerStep, AcceptStep

(* What a step has to leave alone for the channels to stay right.          *)
LEMMA PlacementFrame ==
  ASSUME QueuePlacement, TypeOK, queue' = queue,
         \A s \in Streams : /\ stream'[s] = "queued" <=> stream[s] = "queued"
                            /\ stream[s] = "queued" => owner'[s] = owner[s]
  PROVE  QueuePlacement'
<1>1. ASSUME NEW l \in Listeners, NEW i \in 1..Len(queue[l]) PROVE queue[l][i] \in Streams
  BY <1>1 DEF TypeOK
<1> QED
  BY <1>1 DEF QueuePlacement

(* HandlerQueue, AcceptTake and the rest keep the channels right.          *)
LEMMA PlacementStep == IInv /\ [Next]_vars => QueuePlacement' /\ QueueBound'
<1> SUFFICES ASSUME IInv, [Next]_vars PROVE QueuePlacement' /\ QueueBound'
  OBVIOUS
<1> USE DEF IInv, hostVars, closeVars, statsVars
<1>1. ASSUME NEW s \in Streams, HandlerQueue(s) PROVE QueuePlacement' /\ QueueBound'
  <2> DEFINE l == owner[s]
             q == queue[l]
  <2>1. l \in Listeners /\ q \in Seq(Streams)
    BY <1>1 DEF HandlerQueue, OwnerInv, TypeOK
  <2>2. /\ queue' = [queue EXCEPT ![l] = Append(q, s)]
        /\ stream' = [stream EXCEPT ![s] = "queued"]
        /\ owner' = owner /\ stream[s] = "handling" /\ Len(q) < Capacity
    BY <1>1 DEF HandlerQueue, HasRoom
  <2>3. /\ Len(Append(q, s)) = Len(q) + 1 /\ Append(q, s)[Len(q) + 1] = s
        /\ \A i \in 1..Len(q) : Append(q, s)[i] = q[i]
    BY <2>1
  <2>4. /\ queue'[l] = Append(q, s)
        /\ \A m \in Listeners \ {l} : queue'[m] = queue[m]
        /\ stream'[s] = "queued"
        /\ \A t \in Streams \ {s} : stream'[t] = stream[t]
    BY <2>1, <2>2 DEF TypeOK
  <2>5. ASSUME NEW t \in Streams, stream'[t] = "queued"
        PROVE  \E i \in 1..Len(queue'[owner[t]]) : queue'[owner[t]][i] = t
    <3>1. CASE t = s
      BY <3>1, <2>1, <2>3, <2>4
    <3>2. CASE t # s
      <4>1. owner[t] \in Listeners
        BY <2>5, <2>4, <3>2 DEF OwnerInv, TypeOK
      <4>2. PICK i \in 1..Len(queue[owner[t]]) : queue[owner[t]][i] = t
        BY <2>5, <2>4, <3>2 DEF QueuePlacement
      <4>3. CASE owner[t] = l
        <5>1. i \in 1..Len(queue'[l]) /\ queue'[l][i] = t
          BY <4>2, <4>3, <2>1, <2>3, <2>4
        <5> QED
          BY <5>1, <4>3
      <4>4. CASE owner[t] # l
        BY <4>1, <4>2, <4>4, <2>4
      <4> QED
        BY <4>3, <4>4
    <3> QED
      BY <3>1, <3>2
  <2>6. ASSUME NEW m \in Listeners, NEW i \in 1..Len(queue'[m])
        PROVE  \/ queue'[m][i] = s /\ m = l /\ i = Len(q) + 1
               \/ i \in 1..Len(queue[m]) /\ queue'[m][i] = queue[m][i] /\ queue[m][i] # s
    <3>1. CASE i \in 1..Len(queue[m])
      <4>1. stream[queue[m][i]] = "queued"
        BY <3>1 DEF QueuePlacement
      <4> QED
        BY <3>1, <4>1, <2>2, <2>3, <2>4
    <3>2. CASE i \notin 1..Len(queue[m])
      BY <2>6, <3>2, <2>1, <2>3, <2>4
    <3> QED
      BY <3>1, <3>2
  <2>7. ASSUME NEW m \in Listeners, NEW i \in 1..Len(queue'[m]), NEW j \in 1..Len(queue'[m])
        PROVE  /\ stream'[queue'[m][i]] = "queued" /\ owner[queue'[m][i]] = m
               /\ queue'[m][i] = queue'[m][j] => i = j
    <3>1. \A k \in 1..Len(queue[m]) : queue[m][k] \in Streams
      BY DEF TypeOK
    <3>2. /\ \/ queue'[m][i] = s /\ m = l /\ i = Len(q) + 1
             \/ i \in 1..Len(queue[m]) /\ queue'[m][i] = queue[m][i] /\ queue[m][i] # s
          /\ \/ queue'[m][j] = s /\ m = l /\ j = Len(q) + 1
             \/ j \in 1..Len(queue[m]) /\ queue'[m][j] = queue[m][j] /\ queue[m][j] # s
      BY <2>6
    <3> QED
      BY <3>1, <3>2, <2>4 DEF QueuePlacement
  <2>8. QueuePlacement'
    BY <2>2, <2>5, <2>7 DEF QueuePlacement
  <2>9. QueueBound'
    BY <2>1, <2>2, <2>3, <2>4 DEF QueueBound, TypeOK
  <2> QED
    BY <2>8, <2>9
<1>2. ASSUME NEW c \in Callers, AcceptTake(c) PROVE QueuePlacement' /\ QueueBound'
  <2> DEFINE l == call[c].on
             q == queue[l]
             h == Head(q)
  <2>1. l \in Listeners /\ q \in Seq(Streams) /\ q # <<>>
    BY <1>2 DEF AcceptTake, OwnerInv, TypeOK
  <2>2. /\ queue' = [queue EXCEPT ![l] = Tail(q)]
        /\ stream' = [stream EXCEPT ![h] = "taken"]
        /\ owner' = owner
    BY <1>2 DEF AcceptTake
  <2>3. /\ h \in Streams /\ h = q[1] /\ Len(Tail(q)) = Len(q) - 1 /\ Len(q) \in Nat \ {0}
        /\ \A i \in 1..Len(Tail(q)) : i + 1 \in 1..Len(q) /\ Tail(q)[i] = q[i + 1]
    BY <2>1
  <2>4. /\ queue'[l] = Tail(q)
        /\ \A m \in Listeners \ {l} : queue'[m] = queue[m]
        /\ stream'[h] = "taken"
        /\ \A t \in Streams \ {h} : stream'[t] = stream[t]
    BY <2>1, <2>2, <2>3 DEF TypeOK
  <2>5. ASSUME NEW t \in Streams, stream'[t] = "queued"
        PROVE  \E i \in 1..Len(queue'[owner[t]]) : queue'[owner[t]][i] = t
    <3>1. t # h /\ stream[t] = "queued"
      BY <2>4, <2>5
    <3>2. owner[t] \in Listeners
      BY <3>1 DEF OwnerInv, TypeOK
    <3>3. PICK i \in 1..Len(queue[owner[t]]) : queue[owner[t]][i] = t
      BY <3>1 DEF QueuePlacement
    <3>4. CASE owner[t] = l
      <4>1. i - 1 \in 1..Len(Tail(q)) /\ Tail(q)[i - 1] = t
        BY <3>1, <3>3, <3>4, <2>3
      <4> QED
        BY <4>1, <3>4, <2>4
    <3>5. CASE owner[t] # l
      BY <3>2, <3>3, <3>5, <2>4
    <3> QED
      BY <3>4, <3>5
  <2>6. ASSUME NEW m \in Listeners, NEW i \in 1..Len(queue'[m]), NEW j \in 1..Len(queue'[m])
        PROVE  /\ stream'[queue'[m][i]] = "queued" /\ owner[queue'[m][i]] = m
               /\ queue'[m][i] = queue'[m][j] => i = j
    <3>1. CASE m = l
      <4>1. /\ i + 1 \in 1..Len(q) /\ queue'[m][i] = q[i + 1]
            /\ j + 1 \in 1..Len(q) /\ queue'[m][j] = q[j + 1]
        BY <3>1, <2>3, <2>4
      <4>2. /\ stream[q[i + 1]] = "queued" /\ owner[q[i + 1]] = l
            /\ q[i + 1] = q[j + 1] => i + 1 = j + 1
            /\ q[i + 1] = q[1] => i + 1 = 1
        BY <4>1, <2>1, <2>3 DEF QueuePlacement
      <4>3. q[i + 1] \in Streams /\ q[i + 1] # h
        BY <4>1, <4>2, <2>1, <2>3
      <4> QED
        BY <3>1, <4>1, <4>2, <4>3, <2>4
    <3>2. CASE m # l
      <4>1. /\ queue'[m] = queue[m] /\ queue[m][i] \in Streams
            /\ stream[queue[m][i]] = "queued" /\ owner[queue[m][i]] = m
            /\ queue[m][i] = queue[m][j] => i = j
        BY <3>2, <2>4 DEF QueuePlacement, TypeOK
      <4>2. owner[h] = l
        BY <2>1, <2>3 DEF QueuePlacement
      <4> QED
        BY <3>2, <4>1, <4>2, <2>4
    <3> QED
      BY <3>1, <3>2
  <2>7. QueuePlacement'
    BY <2>2, <2>5, <2>6 DEF QueuePlacement
  <2>8. ASSUME NEW m \in Listeners PROVE Len(queue'[m]) <= Capacity
    <3>1. Len(queue[m]) <= Capacity
      BY DEF QueueBound
    <3>2. CASE m = l
      BY <3>1, <3>2, <2>3, <2>4
    <3>3. CASE m # l
      BY <3>1, <3>3, <2>4
    <3> QED
      BY <3>2, <3>3
  <2>9. QueueBound'
    BY <2>8 DEF QueueBound
  <2> QED
    BY <2>7, <2>9
<1>3. ASSUME queue' = queue,
             \A s \in Streams : /\ stream'[s] = "queued" <=> stream[s] = "queued"
                                /\ stream[s] = "queued" => owner'[s] = owner[s]
      PROVE  QueuePlacement' /\ QueueBound'
  BY <1>3, PlacementFrame DEF QueueBound
<1>4. ASSUME queue' = queue, stream' = stream, owner' = owner
      PROVE  QueuePlacement' /\ QueueBound'
  BY <1>4, <1>3
<1>5. ASSUME NEW l \in Listeners, Listen(l) \/ AppClose(l) \/ CloseStep(l) \/ IdleStep(l)
      PROVE  QueuePlacement' /\ QueueBound'
  BY <1>5, <1>4 DEF Listen, AppClose, CloseStep, CloseCancel, CloseRemove, IdleStep,
     IdleActive, IdleWait, IdleExpire, IdleClose, IdleExit, CloseBegin
<1>6. ASSUME NEW s \in Streams, Arrive(s) PROVE QueuePlacement' /\ QueueBound'
  BY <1>6, <1>3 DEF Arrive, TypeOK
<1>7. ASSUME NEW s \in Streams, NEW c \in Callers, HandlerHandOff(s, c)
      PROVE  QueuePlacement' /\ QueueBound'
  BY <1>7, <1>3 DEF HandlerHandOff, TypeOK
<1>8. ASSUME NEW s \in Streams,
             HandlerReject(s) \/ HandlerCountReject(s) \/ HandlerOverflow(s) \/ HandlerReset(s)
      PROVE  QueuePlacement' /\ QueueBound'
  BY <1>8, <1>3 DEF HandlerReject, HandlerCountReject, HandlerOverflow, HandlerReset, TypeOK
<1>9. ASSUME NEW c \in Callers, NEW l \in Listeners, AcceptCheck(c, l)
      PROVE  QueuePlacement' /\ QueueBound'
  BY <1>9, <1>4 DEF AcceptCheck
<1>10. ASSUME NEW c \in Callers, AcceptCount(c) PROVE QueuePlacement' /\ QueueBound'
  <2>1. call[c].got \in Streams /\ stream[call[c].got] = "taken"
    BY <1>10 DEF AcceptCount, HandOffExclusive
  <2> QED
    BY <1>10, <2>1, <1>3 DEF AcceptCount, TypeOK
<1>11. ASSUME NEW c \in Callers, AcceptCancel(c) PROVE QueuePlacement' /\ QueueBound'
  BY <1>11, <1>4 DEF AcceptCancel
<1>12. CASE UNCHANGED vars
  BY <1>12, <1>4 DEF vars
<1> QED
  BY <1>1, <1>2, <1>5, <1>6, <1>7, <1>8, <1>9, <1>10, <1>11, <1>12
  DEF Next, HandlerStep, AcceptStep

(* Every action keeps a taken stream with exactly one Accept.              *)
LEMMA ExclusiveStep == IInv /\ [Next]_vars => HandOffExclusive'
<1> SUFFICES ASSUME IInv, [Next]_vars PROVE HandOffExclusive'
  OBVIOUS
<1> USE DEF IInv, hostVars, closeVars, statsVars
<1>1. ASSUME NEW s \in Streams, NEW c \in Callers, stream[s] \in {"handling", "queued"},
             owner[s] = call[c].on, call[c].pc = "select", owner' = owner,
             stream' = [stream EXCEPT ![s] = "taken"],
             call' = [call EXCEPT ![c].pc = "count", ![c].got = s]
      PROVE  HandOffExclusive'
  <2>1. /\ call'[c].pc = "count" /\ call'[c].got = s /\ call'[c].on = call[c].on
        /\ \A d \in Callers \ {c} : call'[d] = call[d]
        /\ stream'[s] = "taken"
        /\ \A t \in Streams \ {s} : stream'[t] = stream[t]
    BY <1>1 DEF TypeOK, CallRecord
  <2>2. \A d \in Callers : call[d].pc = "count" => call[d].got # s /\ d # c
    BY <1>1 DEF HandOffExclusive
  <2>3. ASSUME NEW d \in Callers, call'[d].pc = "count"
        PROVE  /\ call'[d].got \in Streams
               /\ stream'[call'[d].got] = "taken" /\ owner'[call'[d].got] = call'[d].on
    <3>1. CASE d = c
      BY <3>1, <1>1, <2>1
    <3>2. CASE d # c
      <4>1. call'[d] = call[d] /\ call[d].pc = "count" /\ call[d].got # s
        BY <3>2, <2>1, <2>2, <2>3
      <4>2. /\ call[d].got \in Streams
            /\ stream[call[d].got] = "taken" /\ owner[call[d].got] = call[d].on
        BY <4>1 DEF HandOffExclusive
      <4> QED
        BY <4>1, <4>2, <2>1, <1>1
    <3> QED
      BY <3>1, <3>2
  <2>4. ASSUME NEW d \in Callers, NEW e \in Callers, call'[d].pc = "count",
               call'[e].pc = "count", call'[d].got = call'[e].got
        PROVE  d = e
    BY <2>1, <2>2, <2>4 DEF HandOffExclusive
  <2>5. ASSUME NEW t \in Streams, stream'[t] = "taken"
        PROVE  \E d \in Callers : call'[d].pc = "count" /\ call'[d].got = t
    BY <2>1, <2>2, <2>5 DEF HandOffExclusive
  <2> QED
    BY <2>3, <2>4, <2>5 DEF HandOffExclusive
<1>2. ASSUME NEW s \in Streams, NEW c \in Callers, HandlerHandOff(s, c)
      PROVE  HandOffExclusive'
  BY <1>2, <1>1 DEF HandlerHandOff
<1>3. ASSUME NEW c \in Callers, AcceptTake(c) PROVE HandOffExclusive'
  <2> DEFINE l == call[c].on
  <2>1. l \in Listeners /\ queue[l] \in Seq(Streams) /\ queue[l] # <<>>
    BY <1>3 DEF AcceptTake, OwnerInv, TypeOK
  <2>2. 1 \in 1..Len(queue[l]) /\ Head(queue[l]) = queue[l][1]
    BY <2>1
  <2>3. /\ Head(queue[l]) \in Streams /\ stream[Head(queue[l])] = "queued"
        /\ owner[Head(queue[l])] = l
    BY <2>1, <2>2 DEF QueuePlacement
  <2> QED
    BY <1>3, <2>3, <1>1 DEF AcceptTake
<1>4. ASSUME NEW c \in Callers, AcceptCount(c) PROVE HandOffExclusive'
  <2> DEFINE s == call[c].got
  <2>1. call[c].pc = "count" /\ s \in Streams
    BY <1>4 DEF AcceptCount, HandOffExclusive
  <2>2. /\ call'[c].pc = "idle" /\ stream'[s] = "accepted" /\ owner' = owner
        /\ \A d \in Callers \ {c} : call'[d] = call[d]
        /\ \A t \in Streams \ {s} : stream'[t] = stream[t]
    BY <1>4, <2>1 DEF AcceptCount, TypeOK, NotCalling
  <2>3. \A d \in Callers \ {c} : call[d].pc = "count" => call[d].got # s
    BY <2>1 DEF HandOffExclusive
  <2> QED
    BY <2>1, <2>2, <2>3 DEF HandOffExclusive
<1>5. ASSUME \A d \in Callers : /\ call'[d].pc = "count" <=> call[d].pc = "count"
                                /\ call[d].pc = "count" => call'[d] = call[d],
             \A s \in Streams : /\ stream'[s] = "taken" <=> stream[s] = "taken"
                                /\ stream[s] = "taken" => owner'[s] = owner[s]
      PROVE  HandOffExclusive'
  BY <1>5 DEF HandOffExclusive
<1>6. ASSUME NEW l \in Listeners, Listen(l) \/ AppClose(l) \/ CloseStep(l) \/ IdleStep(l)
      PROVE  HandOffExclusive'
  <2>1. stream' = stream /\ owner' = owner /\ call' = call
    BY <1>6 DEF Listen, AppClose, CloseStep, CloseCancel, CloseRemove, IdleStep,
       IdleActive, IdleWait, IdleExpire, IdleClose, IdleExit, CloseBegin
  <2> QED
    BY <2>1, <1>5
<1>7. ASSUME NEW s \in Streams, Arrive(s) PROVE HandOffExclusive'
  BY <1>7, <1>5 DEF Arrive, TypeOK
<1>8. ASSUME NEW s \in Streams,
             HandlerQueue(s) \/ HandlerReject(s) \/ HandlerCountReject(s)
               \/ HandlerOverflow(s) \/ HandlerReset(s)
      PROVE  HandOffExclusive'
  BY <1>8, <1>5 DEF HandlerQueue, HandlerReject, HandlerCountReject, HandlerOverflow,
     HandlerReset, TypeOK
<1>9. ASSUME NEW c \in Callers, NEW l \in Listeners, AcceptCheck(c, l)
      PROVE  HandOffExclusive'
  BY <1>9, <1>5 DEF AcceptCheck, TypeOK, CallRecord
<1>10. ASSUME NEW c \in Callers, AcceptCancel(c) PROVE HandOffExclusive'
  BY <1>10, <1>5 DEF AcceptCancel, TypeOK, NotCalling
<1>11. CASE UNCHANGED vars
  BY <1>11, <1>5 DEF vars
<1> QED
  BY <1>2, <1>3, <1>4, <1>6, <1>7, <1>8, <1>9, <1>10, <1>11
  DEF Next, HandlerStep, AcceptStep

(* The invariant the theorems below rest on: types, the steps of Close,    *)
(* where streams are and who holds them.                                   *)
THEOREM Invariance == Spec => []IInv
<1>1. IInv /\ [Next]_vars => IInv'
  BY TypeStep, CloseInvStep, OwnerInvStep, PlacementStep, ExclusiveStep DEF IInv
<1> QED
  BY <1>1, InitIInv, PTL DEF Spec

(* Every reachable state is well typed.                                    *)
THEOREM TypeCorrect == Spec => []TypeOK
<1>1. IInv => TypeOK
  BY DEF IInv
<1> QED
  BY <1>1, Invariance, PTL

(* No interleaving of handlers, Accepts and Closes loses or doubles a      *)
(* stream, overfills a channel or gives one stream to two Accepts.         *)
THEOREM StreamsConserved == Spec => [](QueuePlacement /\ QueueBound /\ HandOffExclusive)
<1>1. IInv => QueuePlacement /\ QueueBound /\ HandOffExclusive
  BY DEF IInv
<1> QED
  BY <1>1, Invariance, PTL

(* When a Close has returned, its listener is cancelled and no longer      *)
(* registered with the host.                                               *)
THEOREM ClosesCompletely == Spec => []CloseComplete
<1>1. IInv => CloseComplete
  BY DEF IInv, CloseInv, CloseComplete, TypeOK
<1> QED
  BY <1>1, Invariance, PTL

-----------------------------------------------------------------------------
(* The counters.                                                           *)

(* The sets whose sizes Stats() reports are finite.                        *)
LEMMA CountedFinite ==
  ASSUME NEW l \in Listeners
  PROVE  IsFiniteSet(AcceptedStreams(l)) /\ IsFiniteSet(DroppedStreams(l))
  BY StreamsAssumption, FS_Subset DEF AcceptedStreams, DroppedStreams

(* Every action keeps the counters equal to the streams they count.        *)
LEMMA StatsStep == IInv /\ StatsExact /\ [Next]_vars => StatsExact'
<1> SUFFICES ASSUME IInv, StatsExact, [Next]_vars PROVE StatsExact'
  OBVIOUS
<1> USE DEF IInv, hostVars, closeVars, statsVars
<1>1. ASSUME NEW c \in Callers, NEW s, NEW l, AcceptCount(c),
             s = call[c].got, l = call[c].on
      PROVE  StatsExact'
  <2>1. /\ s \in Streams /\ stream[s] = "taken" /\ owner[s] = l /\ l \in Listeners
        /\ accepted' = [accepted EXCEPT ![l] = @ + 1] /\ dropped' = dropped
        /\ stream' = [stream EXCEPT ![s] = "accepted"] /\ owner' = owner
    BY <1>1 DEF AcceptCount, HandOffExclusive, OwnerInv, TypeOK
  <2>2. /\ AcceptedStreams(l)' = AcceptedStreams(l) \cup {s} /\ s \notin AcceptedStreams(l)
        /\ \A m \in Listeners \ {l} : AcceptedStreams(m)' = AcceptedStreams(m)
        /\ \A m \in Listeners : DroppedStreams(m)' = DroppedStreams(m)
    <3>1. /\ stream'[s] = "accepted"
          /\ \A t \in Streams \ {s} : stream'[t] = stream[t]
      BY <2>1 DEF TypeOK
    <3> QED
      BY <2>1, <3>1 DEF AcceptedStreams, DroppedStreams
  <2>3. Cardinality(AcceptedStreams(l)') = Cardinality(AcceptedStreams(l)) + 1
    BY <2>1, <2>2, CountedFinite, FS_AddElement
  <2>4. /\ accepted'[l] = accepted[l] + 1
        /\ \A m \in Listeners \ {l} : accepted'[m] = accepted[m]
    BY <2>1 DEF TypeOK
  <2>5. ASSUME NEW m \in Listeners
        PROVE  /\ accepted'[m] = Cardinality(AcceptedStreams(m)')
               /\ dropped'[m] = Cardinality(DroppedStreams(m)')
    BY <2>1, <2>2, <2>3, <2>4 DEF StatsExact
  <2> QED
    BY <2>5 DEF StatsExact
<1>2. ASSUME NEW s \in Streams, stream[s] \in {"handling", "resetting"},
             dropped' = [dropped EXCEPT ![owner[s]] = @ + 1], accepted' = accepted,
             owner' = owner, stream'[s] \in {"overflow", "dropped"},
             \A t \in Streams \ {s} : stream'[t] = stream[t]
      PROVE  StatsExact'
  <2> DEFINE l == owner[s]
  <2>1. l \in Listeners
    BY <1>2 DEF OwnerInv, TypeOK
  <2>2. /\ DroppedStreams(l)' = DroppedStreams(l) \cup {s} /\ s \notin DroppedStreams(l)
        /\ \A m \in Listeners \ {l} : DroppedStreams(m)' = DroppedStreams(m)
        /\ \A m \in Listeners : AcceptedStreams(m)' = AcceptedStreams(m)
    BY <1>2 DEF AcceptedStreams, DroppedStreams, TypeOK
  <2>3. Cardinality(DroppedStreams(l)') = Cardinality(DroppedStreams(l)) + 1
    BY <2>1, <2>2, CountedFinite, FS_AddElement
  <2> QED
    BY <1>2, <2>1, <2>2, <2>3 DEF StatsExact, TypeOK
<1>3. ASSUME NEW s \in Streams, HandlerCountReject(s) \/ HandlerOverflow(s)
      PROVE  StatsExact'
  BY <1>3, <1>2 DEF HandlerCountReject, HandlerOverflow, TypeOK
<1>4. ASSUME accepted' = accepted, dropped' = dropped,
             \A s \in Streams :
               /\ stream[s] \in {"accepted", "overflow", "dropped"} =>
                    owner'[s] = owner[s]
               /\ stream'[s] = "accepted" <=> stream[s] = "accepted"
               /\ stream'[s] \in {"overflow", "dropped"} <=>
                    stream[s] \in {"overflow", "dropped"}
      PROVE  StatsExact'
  <2>1. ASSUME NEW l \in Listeners
        PROVE  /\ AcceptedStreams(l)' = AcceptedStreams(l)
               /\ DroppedStreams(l)' = DroppedStreams(l)
    BY <1>4 DEF AcceptedStreams, DroppedStreams
  <2> QED
    BY <1>4, <2>1 DEF StatsExact
<1>5. ASSUME NEW l \in Listeners, Listen(l) \/ AppClose(l) \/ CloseStep(l) \/ IdleStep(l)
      PROVE  StatsExact'
  <2>1. UNCHANGED <<accepted, dropped, stream, owner>>
    BY <1>5 DEF Listen, AppClose, CloseStep, CloseCancel, CloseRemove, IdleStep,
       IdleActive, IdleWait, IdleExpire, IdleClose, IdleExit, CloseBegin
  <2> QED
    BY <2>1, <1>4
<1>6. ASSUME NEW s \in Streams, Arrive(s) PROVE StatsExact'
  BY <1>6, <1>4 DEF Arrive, TypeOK
<1>7. ASSUME NEW s \in Streams, HandlerQueue(s) \/ HandlerReject(s) \/ HandlerReset(s)
      PROVE  StatsExact'
  BY <1>7, <1>4 DEF HandlerQueue, HandlerReject, HandlerReset, TypeOK
<1>8. ASSUME NEW s \in Streams, NEW c \in Callers, HandlerHandOff(s, c)
      PROVE  StatsExact'
  BY <1>8, <1>4 DEF HandlerHandOff, TypeOK
<1>9. ASSUME NEW c \in Callers, AcceptTake(c) PROVE StatsExact'
  <2> DEFINE l == call[c].on
  <2>1. l \in Listeners /\ queue[l] \in Seq(Streams) /\ queue[l] # <<>>
    BY <1>9 DEF AcceptTake, OwnerInv, TypeOK
  <2>2. 1 \in 1..Len(queue[l]) /\ Head(queue[l]) = queue[l][1]
    BY <2>1
  <2>3. stream[Head(queue[l])] = "queued"
    BY <2>1, <2>2 DEF QueuePlacement
  <2> QED
    BY <1>9, <2>3, <1>4 DEF AcceptTake, TypeOK
<1>10. ASSUME NEW c \in Callers, AcceptCancel(c) \/ \E l \in Listeners : AcceptCheck(c, l)
       PROVE  StatsExact'
  BY <1>10, <1>4 DEF AcceptCancel, AcceptCheck
<1>11. CASE UNCHANGED vars
  BY <1>11, <1>4 DEF vars
<1> QED
  BY <1>1, <1>3, <1>5, <1>6, <1>7, <1>8, <1>9, <1>10, <1>11
  DEF Next, HandlerStep, AcceptStep

(* Stats() counts every stream exactly once, on the listener it came to.   *)
THEOREM StatsAreExact == Spec => []StatsExact
<1>1. Init => StatsExact
  BY FS_EmptySet DEF Init, StatsExact, AcceptedStreams, DroppedStreams
<1> QED
  BY <1>1, StatsStep, Invariance, PTL DEF Spec

-----------------------------------------------------------------------------
(* The bounded hand-off.                                                   *)

(* Moving one stream changes the fate of that stream only.                 *)
LEMMA FateUpdate ==
  ASSUME TypeOK, NEW s \in Streams, NEW x, stream' = [stream EXCEPT ![s] = x]
  PROVE  fates' = [fates EXCEPT ![s] = FateOf(x)]
  BY DEF TypeOK, fates

(* The fates the states of a stream stand for.                             *)
LEMMA FateNames ==
  /\ FateOf("incoming") = "none"
  /\ FateOf("handling") = "offered"
  /\ FateOf("queued") = "waiting"
  /\ FateOf("taken") = "delivered" /\ FateOf("accepted") = "delivered"
  /\ FateOf("refused") = "refused" /\ FateOf("resetting") = "refused"
  /\ FateOf("overflow") = "refused" /\ FateOf("dropped") = "refused"
  BY DEF FateOf

(* Every step of the listener is a step of the hand-off or a stutter.      *)
LEMMA HandoffStep == IInv /\ [Next]_vars => [Handoff!Next]_(Handoff!vars)
<1> SUFFICES ASSUME IInv, [Next]_vars PROVE [Handoff!Next]_(Handoff!vars)
  OBVIOUS
<1> USE DEF IInv, hostVars, closeVars, statsVars
<1>1. ASSUME NEW l \in Listeners,
             Listen(l) \/ AppClose(l) \/ CloseRemove(l) \/ IdleStep(l)
      PROVE  UNCHANGED Handoff!vars
  <2>1. UNCHANGED <<stream, owner, call, queue, done>>
    BY <1>1 DEF Listen, AppClose, CloseRemove, IdleStep, IdleActive, IdleWait,
       IdleExpire, IdleClose, IdleExit, CloseBegin
  <2> QED
    BY <2>1 DEF Handoff!vars, fates, waiters
<1>2. ASSUME NEW l \in Listeners, CloseCancel(l) PROVE Handoff!Shut(l)
  BY <1>2 DEF CloseCancel, Handoff!Shut, fates, waiters
<1>3. ASSUME NEW s \in Streams, Arrive(s) PROVE Handoff!Offer(s)
  <2>1. fates[s] = "none" /\ waiters' = waiters
    BY <1>3, FateNames DEF Arrive, fates, waiters
  <2>2. CASE handler = None
    <3>1. stream' = [stream EXCEPT ![s] = "refused"]
      BY <1>3, <2>2 DEF Arrive
    <3>2. fates' = [fates EXCEPT ![s] = "refused"]
      <4>1. fates' = [fates EXCEPT ![s] = FateOf("refused")]
        BY <3>1, FateUpdate
      <4> QED
        BY <4>1, FateNames
    <3>3. owner[s] = None
      BY <1>3 DEF Arrive, OwnerInv
    <3> QED
      BY <1>3, <2>1, <2>2, <3>2, <3>3 DEF Arrive, Handoff!Offer, Handoff!Become, TypeOK
  <2>3. CASE handler # None
    <3>1. stream' = [stream EXCEPT ![s] = "handling"]
      BY <1>3, <2>3 DEF Arrive
    <3>2. fates' = [fates EXCEPT ![s] = "offered"]
      <4>1. fates' = [fates EXCEPT ![s] = FateOf("handling")]
        BY <3>1, FateUpdate
      <4> QED
        BY <4>1, FateNames
    <3>3. handler \in Listeners
      BY <2>3 DEF TypeOK
    <3> QED
      BY <1>3, <2>1, <3>2, <3>3 DEF Arrive, Handoff!Offer, Handoff!Become
  <2> QED
    BY <2>2, <2>3
<1>4. ASSUME NEW s \in Streams, HandlerQueue(s) PROVE Handoff!Enqueue(s)
  <2>1. fates[s] = "offered" /\ waiters' = waiters
    BY <1>4, FateNames DEF HandlerQueue, fates, waiters
  <2>2. fates' = [fates EXCEPT ![s] = "waiting"]
    <3>1. stream' = [stream EXCEPT ![s] = "queued"]
      BY <1>4 DEF HandlerQueue
    <3>2. fates' = [fates EXCEPT ![s] = FateOf("queued")]
      BY <3>1, FateUpdate
    <3> QED
      BY <3>2, FateNames
  <2> QED
    BY <1>4, <2>1, <2>2 DEF HandlerQueue, HasRoom, Handoff!Enqueue, Handoff!Become
<1>5. ASSUME NEW s \in Streams, NEW c \in Callers, HandlerHandOff(s, c)
      PROVE  Handoff!HandOver(s, c)
  <2>1. fates[s] = "offered" /\ waiters[c] = owner[s]
    BY <1>5, FateNames DEF HandlerHandOff, fates, waiters
  <2>2. fates' = [fates EXCEPT ![s] = "delivered"]
    <3>1. stream' = [stream EXCEPT ![s] = "taken"]
      BY <1>5 DEF HandlerHandOff
    <3>2. fates' = [fates EXCEPT ![s] = FateOf("taken")]
      BY <3>1, FateUpdate
    <3> QED
      BY <3>2, FateNames
  <2>3. waiters' = [waiters EXCEPT ![c] = None]
    BY <1>5 DEF HandlerHandOff, waiters, TypeOK, CallRecord
  <2> QED
    BY <1>5, <2>1, <2>3, <2>2 DEF HandlerHandOff, Handoff!HandOver, Handoff!Become
<1>6. ASSUME NEW s \in Streams, HandlerReject(s) \/ HandlerOverflow(s)
      PROVE  Handoff!Refuse(s)
  <2>1. /\ fates[s] = "offered" /\ waiters' = waiters
        /\ fates' = [fates EXCEPT ![s] = "refused"]
    <3>1. /\ stream[s] = "handling" /\ call' = call
          /\ \/ stream' = [stream EXCEPT ![s] = "overflow"]
             \/ stream' = [stream EXCEPT ![s] = "resetting"]
      BY <1>6 DEF HandlerReject, HandlerOverflow
    <3>2. fates[s] = "offered" /\ waiters' = waiters
      BY <3>1, FateNames DEF fates, waiters
    <3>3. \E f \in {"overflow", "resetting"} :
            fates' = [fates EXCEPT ![s] = FateOf(f)]
      BY <3>1, FateUpdate
    <3> QED
      BY <3>2, <3>3, FateNames
  <2>2. owner[s] \in done \/ Len(queue[owner[s]]) >= Capacity
    <3>1. CASE HandlerReject(s)
      BY <3>1 DEF HandlerReject
    <3>2. CASE HandlerOverflow(s)
      <4>1. queue[owner[s]] \in Seq(Streams) /\ ~(Len(queue[owner[s]]) < Capacity)
        BY <3>2 DEF HandlerOverflow, HasRoom, OwnerInv, TypeOK
      <4> QED
        BY <4>1
    <3> QED
      BY <1>6, <3>1, <3>2
  <2> QED
    BY <1>6, <2>1, <2>2 DEF HandlerReject, HandlerOverflow, Handoff!Refuse, Handoff!Become
<1>7. ASSUME NEW s \in Streams, HandlerCountReject(s) \/ HandlerReset(s)
      PROVE  UNCHANGED Handoff!vars
  <2>1. fates' = [fates EXCEPT ![s] = "refused"] /\ fates[s] = "refused"
    <3>1. /\ stream[s] \in {"resetting", "overflow"}
          /\ stream' = [stream EXCEPT ![s] = "dropped"]
      BY <1>7 DEF HandlerCountReject, HandlerReset
    <3>2. fates' = [fates EXCEPT ![s] = FateOf("dropped")]
      BY <3>1, FateUpdate
    <3>3. fates[s] = "refused"
      BY <3>1, FateNames DEF fates
    <3> QED
      BY <3>2, <3>3, FateNames
  <2>2. fates' = fates
    BY <2>1 DEF fates
  <2> QED
    BY <1>7, <2>2 DEF HandlerCountReject, HandlerReset, Handoff!vars, waiters
<1>8. ASSUME NEW c \in Callers, NEW l \in Listeners, AcceptCheck(c, l)
      PROVE  Handoff!Call(c, l)
  <2>1. fates' = fates /\ waiters[c] = None
    BY <1>8 DEF AcceptCheck, fates, waiters
  <2>2. call'[c].pc = "select" /\ call'[c].on = l
    BY <1>8 DEF AcceptCheck, TypeOK, CallRecord
  <2>3. \A d \in Callers \ {c} : call'[d] = call[d]
    BY <1>8 DEF AcceptCheck, TypeOK
  <2>4. waiters' = [waiters EXCEPT ![c] = l]
    BY <2>2, <2>3 DEF waiters
  <2>5. l \notin done
    BY <1>8 DEF AcceptCheck, TypeOK
  <2> QED
    BY <1>8, <2>1, <2>5, <2>4 DEF AcceptCheck, Handoff!Call
<1>9. ASSUME NEW c \in Callers, AcceptTake(c) PROVE Handoff!Deliver(c)
  <2> DEFINE l == call[c].on
  <2>1. l \in Listeners /\ queue[l] \in Seq(Streams) /\ queue[l] # <<>>
    BY <1>9 DEF AcceptTake, OwnerInv, TypeOK
  <2>2. Head(queue[l]) \in Streams /\ l # None
    BY <2>1
  <2>3. waiters[c] = l
    BY <1>9 DEF AcceptTake, waiters
  <2>4. fates' = [fates EXCEPT ![Head(queue[l])] = "delivered"]
    <3>1. stream' = [stream EXCEPT ![Head(queue[l])] = "taken"]
      BY <1>9 DEF AcceptTake
    <3>2. fates' = [fates EXCEPT ![Head(queue[l])] = FateOf("taken")]
      BY <3>1, <2>2, FateUpdate
    <3> QED
      BY <3>2, FateNames
  <2>5. waiters' = [waiters EXCEPT ![c] = None]
    BY <1>9 DEF AcceptTake, waiters, TypeOK, CallRecord
  <2> QED
    BY <1>9, <2>2, <2>3, <2>5, <2>4 DEF AcceptTake, Handoff!Deliver, Handoff!Become
<1>10. ASSUME NEW c \in Callers, AcceptCount(c) PROVE UNCHANGED Handoff!vars
  <2> DEFINE s == call[c].got
  <2>1. call[c].pc = "count" /\ s \in Streams /\ stream[s] = "taken"
    BY <1>10 DEF AcceptCount, HandOffExclusive
  <2>2. fates' = [fates EXCEPT ![s] = "delivered"] /\ fates[s] = "delivered"
    <3>1. stream' = [stream EXCEPT ![s] = "accepted"]
      BY <1>10 DEF AcceptCount
    <3>2. fates' = [fates EXCEPT ![s] = FateOf("accepted")]
      BY <2>1, <3>1, FateUpdate
    <3>3. fates[s] = "delivered"
      BY <2>1, FateNames DEF fates
    <3> QED
      BY <3>2, <3>3, FateNames
  <2>3. fates' = fates
    BY <2>2 DEF fates
  <2>4. waiters' = waiters
    BY <1>10 DEF AcceptCount, waiters, TypeOK, NotCalling
  <2> QED
    BY <1>10, <2>3, <2>4 DEF AcceptCount, Handoff!vars
<1>11. ASSUME NEW c \in Callers, AcceptCancel(c) PROVE Handoff!Cancel(c)
  <2>1. fates' = fates /\ waiters[c] = call[c].on
    BY <1>11 DEF AcceptCancel, fates, waiters
  <2>2. waiters' = [waiters EXCEPT ![c] = None]
    BY <1>11 DEF AcceptCancel, waiters, TypeOK, NotCalling
  <2> QED
    BY <1>11, <2>1, <2>2 DEF AcceptCancel, Handoff!Cancel
<1>12. CASE UNCHANGED vars
  BY <1>12 DEF vars, Handoff!vars, fates, waiters
<1> QED
  BY <1>1, <1>2, <1>3, <1>4, <1>5, <1>6, <1>7, <1>8, <1>9, <1>10, <1>11, <1>12
  DEF Next, CloseStep, HandlerStep, AcceptStep, Handoff!Next

(* The listener implements the bounded hand-off: a stream's fate is        *)
(* decided once, in order, by a full or shut listener or by one call.      *)
THEOREM ImplementsHandoff == Spec => HandoffSpec
<1>1. Init => Handoff!Init
  BY FateNames DEF Init, Handoff!Init, fates, waiters, NotCalling
<1> QED
  BY <1>1, HandoffStep, Invariance, PTL DEF Spec, HandoffSpec, Handoff!Spec

==============================================================================
