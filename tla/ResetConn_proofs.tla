-------------------------- MODULE ResetConn_proofs --------------------------
(***************************************************************************)
(* Proofs about ResetConn, for any number of frames, streams, resets and   *)
(* attempts: what a reconnect may do to the frames.                        *)
(***************************************************************************)
EXTENDS ResetConn, TLAPS

USE BoundsAssumption

-----------------------------------------------------------------------------
(* The inductive invariant.                                                *)

(* A Write in progress has a part to write.                                *)
WriteInv == call["Write"].pc # "idle" => part \in Parts

(* The stream of a call that has not assigned it to r.Conn yet is known to *)
(* nobody else, and nothing was written to it.                             *)
Fresh(c) == /\ carried[call[c].on] = <<>>
            /\ call[c].on # conn /\ call[c].on # 1
            /\ \A d \in Calls : d # c => call[d].on # call[c].on
FreshInv == /\ \A c \in Calls : call[c].pc = "dialed" => Fresh(c)
            /\ \A s \in Streams : s > opened => carried[s] = <<>>

(* When r.Conn changes under a Write, what it changes to is empty.         *)
OvertakenInv == InIO("Write") /\ call["Write"].on # conn => carried[conn] = <<>>

(* If the next part is data, a stream that can take it is empty or ends    *)
(* with the header of that data.                                           *)
Follows(s) ==
  stream[s] = "open" /\ ~IsHeader(part) /\ carried[s] # <<>> =>
    carried[s][Len(carried[s])] = part - 1
FollowsInv == Follows(conn) /\ (InIO("Write") => Follows(call["Write"].on))

(* Only earlier parts were written.                                        *)
BelowInv == \A s \in Streams : \A i \in 1..Len(carried[s]) : carried[s][i] < part

ConnInv == WriteInv /\ FreshInv /\ OvertakenInv /\ FollowsInv
IInv == TypeOK /\ ConnInv /\ TornAtStartOnly /\ BelowInv /\ PartsOnce

-----------------------------------------------------------------------------
(* Sequences and parts.                                                    *)

(* A reset leaves a beginning of what a stream has carried.                *)
LEMMA Beginning ==
  ASSUME NEW S, NEW s \in Seq(S), NEW n \in 0..Len(s)
  PROVE  /\ SubSeq(s, 1, n) \in Seq(S) /\ Len(SubSeq(s, 1, n)) = n
         /\ \A i \in 1..n : SubSeq(s, 1, n)[i] = s[i]
OBVIOUS

(* A Write adds its part at the end.                                       *)
LEMMA Ending ==
  ASSUME NEW S, NEW s \in Seq(S), NEW x \in S
  PROVE  /\ Append(s, x) \in Seq(S) /\ Len(Append(s, x)) = Len(s) + 1
         /\ \A i \in 1..Len(s) : Append(s, x)[i] = s[i]
         /\ Append(s, x)[Len(s) + 1] = x
OBVIOUS

(* Headers and data alternate, and a frame given up is followed by a       *)
(* header.                                                                 *)
LEMMA PartFacts ==
  ASSUME NEW p \in Parts
  PROVE  /\ p + 1 \in 1..2 * MaxFrames + 1
         /\ IsHeader(p) => ~IsHeader(p + 1)
         /\ ~IsHeader(p) => IsHeader(p + 1)
         /\ NextFrame(p) \in 1..2 * MaxFrames + 1
         /\ IsHeader(NextFrame(p)) /\ NextFrame(p) > p
BY DEF Parts, IsHeader, NextFrame

-----------------------------------------------------------------------------
(* What a step does to the connection, as the cases that the invariants    *)
(* tell apart.                                                             *)

(* A call ends with an error, or goes on to reconnect, and leaves the      *)
(* streams and r.Conn alone; only a Write that ends changes the part.      *)
GivesUp(c) ==
  /\ call[c].pc # "idle"
  /\ \/ call' = [call EXCEPT ![c] = NoCall]
        /\ part' = IF c = "Write" THEN NextFrame(part) ELSE part
     \/ /\ \E n \in 0..MaxRetry :
             call' = [call EXCEPT ![c].pc = "sleep", ![c].attempts = n]
        /\ UNCHANGED part
  /\ UNCHANGED <<conn, opened, stream, carried, closed, resets>>

(* The errors of Read and Write, and a NewStream that fails, are such      *)
(* steps.                                                                  *)
LEMMA ErrorsGiveUp ==
  ASSUME TypeOK, NEW c \in Calls, ReturnError(c) \/ FindReset(c) \/ DialFails(c)
  PROVE  GivesUp(c)
<1>1. CASE ReturnError(c)
  BY <1>1 DEF ReturnError, InIO, Fail, Return, GivesUp, streamVars
<1>2. CASE FindReset(c)
  <2>1. call[c].attempts \in 0..MaxRetry
    BY DEF TypeOK
  <2>2. [call EXCEPT ![c].pc = "sleep"]
          = [call EXCEPT ![c].pc = "sleep", ![c].attempts = call[c].attempts]
    BY DEF TypeOK
  <2> QED BY <1>2, <2>1, <2>2 DEF FindReset, InIO, Fail, Return, GivesUp, streamVars
<1>3. CASE DialFails(c)
  <2>1. CASE Attempt(c) < MaxRetry
    <3>1. Attempt(c) \in 0..MaxRetry
      BY <2>1 DEF Attempt, TypeOK
    <3>2. [call EXCEPT ![c].attempts = Attempt(c)]
            = [call EXCEPT ![c].pc = "sleep", ![c].attempts = Attempt(c)]
      BY <1>3 DEF DialFails, TypeOK
    <3> QED BY <1>3, <2>1, <3>1, <3>2 DEF DialFails, GivesUp, streamVars
  <2>2. CASE ~(Attempt(c) < MaxRetry)
    BY <1>3, <2>2 DEF DialFails, Fail, Return, GivesUp, streamVars
  <2> QED BY <2>1, <2>2
<1> QED BY <1>1, <1>2, <1>3

-----------------------------------------------------------------------------
(* Types.                                                                  *)

(* Every action keeps the types.                                           *)
LEMMA TypeStep == TypeOK /\ WriteInv /\ [Next]_vars => TypeOK'
<1> SUFFICES ASSUME TypeOK, WriteInv, [Next]_vars PROVE TypeOK'
  OBVIOUS
<1> USE DEF TypeOK, streamVars
<1>1. ASSUME NEW c \in Calls, Begin(c) PROVE TypeOK'
  BY <1>1 DEF Begin, Steps
<1>2. ASSUME NEW c \in Calls, Succeed(c) PROVE TypeOK'
  <2>1. call' \in [Calls -> [pc : Steps, on : 1..opened, attempts : 0..MaxRetry]]
    BY <1>2 DEF Succeed, Return, NoCall, Steps, Streams
  <2>2. part' \in 1..2 * MaxFrames + 1
    BY <1>2, PartFacts DEF Succeed, InIO, AfterWrite, WriteInv
  <2>3. carried' \in [Streams -> Seq(Parts)]
    <3>1. CASE c = "Write"
      <4>1. part \in Parts
        BY <1>2, <3>1 DEF Succeed, InIO, WriteInv
      <4>2. Append(carried[call[c].on], part) \in Seq(Parts)
        BY <4>1 DEF Streams
      <4> QED BY <1>2, <3>1, <4>2 DEF Succeed
    <3> QED BY <1>2, <3>1 DEF Succeed
  <2> QED BY <1>2, <2>1, <2>2, <2>3 DEF Succeed
<1>3. ASSUME NEW c \in Calls, GivesUp(c) PROVE TypeOK'
  <2>1. call' \in [Calls -> [pc : Steps, on : 1..opened, attempts : 0..MaxRetry]]
    <3> DEFINE Record == [pc : Steps, on : 1..opened, attempts : 0..MaxRetry]
    <3>1. NoCall \in Record
      BY DEF NoCall, Steps, Streams
    <3>2. ASSUME NEW n \in 0..MaxRetry
          PROVE  [call[c] EXCEPT !.pc = "sleep", !.attempts = n] \in Record
      BY DEF Steps
    <3>3. CASE call' = [call EXCEPT ![c] = NoCall]
      <4> HIDE DEF Record
      <4>1. call \in [Calls -> Record]
        BY DEF Record
      <4> QED BY <3>1, <3>3, <4>1 DEF Record
    <3>4. ASSUME NEW n \in 0..MaxRetry,
                 call' = [call EXCEPT ![c].pc = "sleep", ![c].attempts = n]
          PROVE  call' \in [Calls -> Record]
      <4>1. call' = [call EXCEPT ![c] = [@ EXCEPT !.pc = "sleep", !.attempts = n]]
        BY <3>4
      <4>2. [call[c] EXCEPT !.pc = "sleep", !.attempts = n] \in Record
        BY <3>2
      <4>3. call \in [Calls -> Record]
        OBVIOUS
      <4> HIDE DEF Record
      <4> QED BY <4>1, <4>2, <4>3
    <3> QED BY <1>3, <3>3, <3>4 DEF GivesUp
  <2>2. part' \in 1..2 * MaxFrames + 1
    BY <1>3, PartFacts DEF GivesUp, WriteInv
  <2> QED BY <1>3, <2>1, <2>2 DEF GivesUp
<1>4. ASSUME NEW c \in Calls, Dial(c) PROVE TypeOK'
  <2>1. opened + 1 \in Streams /\ 1..opened \subseteq 1..(opened + 1)
    BY <1>4 DEF Dial, Streams
  <2>2. call' \in [Calls -> [pc : Steps, on : 1..(opened + 1), attempts : 0..MaxRetry]]
    <3> DEFINE Wider == [pc : Steps, on : 1..(opened + 1), attempts : 0..MaxRetry]
    <3>1. call \in [Calls -> Wider]
      BY <2>1
    <3>2. [call[c] EXCEPT !.pc = "dialed", !.on = opened + 1] \in Wider
      <4>1. call[c] \in Wider /\ opened + 1 \in 1..(opened + 1) /\ "dialed" \in Steps
        BY <3>1 DEF Steps, Streams
      <4> QED BY <4>1
    <3>3. call' = [call EXCEPT ![c] = [@ EXCEPT !.pc = "dialed", !.on = opened + 1]]
      BY <1>4, <3>1 DEF Dial
    <3> HIDE DEF Wider
    <3>4. call' \in [Calls -> Wider]
      BY <3>1, <3>2, <3>3
    <3> QED BY <3>4 DEF Wider
  <2>3. /\ stream' \in [Streams -> StreamStates]
        /\ \A s \in Streams : stream'[s] = "none" <=> s > opened + 1
    <3>1. stream' = [stream EXCEPT ![opened + 1] = "open"]
      BY <1>4 DEF Dial
    <3>2. stream' \in [Streams -> StreamStates]
      BY <2>1, <3>1 DEF StreamStates
    <3>3. ASSUME NEW s \in Streams PROVE stream'[s] = "none" <=> s > opened + 1
      <4>1. CASE s = opened + 1
        BY <3>1, <4>1 DEF Streams
      <4>2. CASE s # opened + 1
        BY <3>1, <4>2 DEF Streams
      <4> QED BY <4>1, <4>2
    <3> QED BY <3>2, <3>3
  <2> QED BY <1>4, <2>1, <2>2, <2>3 DEF Dial
<1>5. ASSUME NEW c \in Calls, Assign(c) PROVE TypeOK'
  BY <1>5 DEF Assign, Steps
<1>6. ASSUME NEW c \in Calls, Repeat(c) PROVE TypeOK'
  BY <1>6 DEF Repeat, Steps
<1>7. CASE Close
  BY <1>7 DEF Close, StreamStates, Streams
<1>8. ASSUME NEW s \in Streams, Reset(s) PROVE TypeOK'
  <2>1. carried' \in [Streams -> Seq(Parts)]
    <3>1. PICK n \in 0..Len(carried[s]) :
            carried' = [carried EXCEPT ![s] = SubSeq(@, 1, n)]
      BY <1>8 DEF Reset
    <3>2. SubSeq(carried[s], 1, n) \in Seq(Parts)
      BY Beginning
    <3> QED BY <3>1, <3>2
  <2> QED BY <1>8, <2>1 DEF Reset, StreamStates
<1>9. CASE UNCHANGED vars
  BY <1>9 DEF vars
<1> QED BY <1>1, <1>2, <1>3, <1>4, <1>5, <1>6, <1>7, <1>8, <1>9, ErrorsGiveUp
        DEF Next, CallStep

-----------------------------------------------------------------------------
(* Who knows which stream.                                                 *)

(* A Write begins with a part to write and keeps it until it ends.         *)
LEMMA WriteStep == TypeOK /\ WriteInv /\ [Next]_vars => WriteInv'
<1> SUFFICES ASSUME TypeOK, WriteInv, [Next]_vars PROVE WriteInv'
  OBVIOUS
<1> USE DEF WriteInv
<1>1. ASSUME NEW c \in Calls, Begin(c) PROVE WriteInv'
  BY <1>1 DEF Begin, TypeOK, Calls
<1>2. ASSUME NEW c \in Calls, Succeed(c) PROVE WriteInv'
  BY <1>2 DEF Succeed, Return, NoCall, AfterWrite, TypeOK, Calls
<1>3. ASSUME NEW c \in Calls, GivesUp(c) PROVE WriteInv'
  BY <1>3 DEF GivesUp, NoCall, TypeOK, Calls
<1>4. ASSUME NEW c \in Calls, Dial(c) PROVE WriteInv'
  BY <1>4 DEF Dial, TypeOK, Calls
<1>5. ASSUME NEW c \in Calls, Assign(c) \/ Repeat(c) PROVE WriteInv'
  BY <1>5 DEF Assign, Repeat, TypeOK, Calls
<1>6. ASSUME Close \/ (\E s \in Streams : Reset(s)) \/ UNCHANGED vars PROVE WriteInv'
  BY <1>6 DEF Close, Reset, vars
<1> QED BY <1>1, <1>2, <1>3, <1>4, <1>5, <1>6, ErrorsGiveUp DEF Next, CallStep

(* A stream that was dialled is not touched before it is assigned.         *)
LEMMA FreshStep == TypeOK /\ FreshInv /\ [Next]_vars => FreshInv'
<1> SUFFICES ASSUME TypeOK, FreshInv, [Next]_vars PROVE FreshInv'
  OBVIOUS
<1>1. ASSUME NEW c \in Calls, Begin(c) PROVE FreshInv'
  BY <1>1 DEF Begin, FreshInv, Fresh, TypeOK, streamVars
<1>2. ASSUME NEW c \in Calls, Succeed(c) PROVE FreshInv'
  <2>1. /\ call'[c].pc = "idle" /\ call'[c].on = 1
        /\ \A e \in Calls : e # c => call'[e] = call[e]
        /\ conn' = conn /\ opened' = opened
    BY <1>2 DEF Succeed, Return, NoCall, TypeOK
  <2>2. \A s \in Streams : s # call[c].on => carried'[s] = carried[s]
    BY <1>2 DEF Succeed, TypeOK
  <2>3. ASSUME NEW d \in Calls, call'[d].pc = "dialed" PROVE Fresh(d)'
    <3>1. d # c /\ call'[d] = call[d] /\ Fresh(d)
      BY <2>1, <2>3 DEF FreshInv
    <3>2. carried'[call[d].on] = carried[call[d].on]
      BY <2>2, <3>1 DEF Fresh, TypeOK, Streams
    <3> QED BY <2>1, <3>1, <3>2 DEF Fresh
  <2>4. ASSUME NEW s \in Streams, s > opened PROVE carried'[s] = <<>>
    BY <2>2, <2>4 DEF FreshInv, TypeOK, Streams
  <2> QED BY <2>1, <2>3, <2>4 DEF FreshInv
<1>3. ASSUME NEW c \in Calls, GivesUp(c) PROVE FreshInv'
  <2>1. /\ call'[c].pc # "dialed" /\ call'[c].on \in {1, call[c].on}
        /\ \A e \in Calls : e # c => call'[e] = call[e]
        /\ UNCHANGED <<conn, opened, carried>>
    BY <1>3 DEF GivesUp, NoCall, TypeOK
  <2> QED BY <2>1 DEF FreshInv, Fresh
<1>4. ASSUME NEW c \in Calls, Dial(c) PROVE FreshInv'
  <2>1. /\ call'[c].on = opened + 1 /\ opened + 1 \in Streams /\ opened' = opened + 1
        /\ \A e \in Calls : e # c => call'[e] = call[e]
        /\ UNCHANGED <<conn, carried>>
    BY <1>4 DEF Dial, TypeOK, Streams
  <2>2. Fresh(c)'
    BY <2>1 DEF Fresh, FreshInv, TypeOK, Streams
  <2>3. ASSUME NEW d \in Calls, d # c, call'[d].pc = "dialed" PROVE Fresh(d)'
    <3>1. call'[d] = call[d] /\ Fresh(d)
      BY <2>1, <2>3 DEF FreshInv
    <3>2. call[d].on # opened + 1
      BY DEF TypeOK, Streams
    <3> QED BY <2>1, <3>1, <3>2 DEF Fresh
  <2>4. \A s \in Streams : s > opened + 1 => carried[s] = <<>>
    BY DEF FreshInv, TypeOK, Streams
  <2> QED BY <2>1, <2>2, <2>3, <2>4 DEF FreshInv
<1>5. ASSUME NEW c \in Calls, Assign(c) PROVE FreshInv'
  BY <1>5 DEF Assign, FreshInv, Fresh, TypeOK, streamVars
<1>6. ASSUME NEW c \in Calls, Repeat(c) PROVE FreshInv'
  BY <1>6 DEF Repeat, FreshInv, Fresh, TypeOK, streamVars
<1>7. ASSUME NEW s \in Streams, Reset(s) PROVE FreshInv'
  <2>1. \A t \in Streams : carried[t] = <<>> => carried'[t] = <<>>
    BY <1>7, Beginning DEF Reset, TypeOK
  <2>2. UNCHANGED <<conn, opened, call>>
    BY <1>7 DEF Reset
  <2>3. \A d \in Calls : call[d].on \in Streams
    BY DEF TypeOK, Streams
  <2>4. ASSUME NEW d \in Calls, call'[d].pc = "dialed" PROVE Fresh(d)'
    BY <2>1, <2>2, <2>3, <2>4 DEF FreshInv, Fresh
  <2> QED BY <2>1, <2>2, <2>4 DEF FreshInv
<1>8. CASE Close
  BY <1>8 DEF Close, FreshInv, Fresh
<1>9. CASE UNCHANGED vars
  BY <1>9 DEF vars, streamVars, FreshInv, Fresh
<1> QED BY <1>1, <1>2, <1>3, <1>4, <1>5, <1>6, <1>7, <1>8, <1>9, ErrorsGiveUp
        DEF Next, CallStep

(* Only the other call changes r.Conn under a Write, to its fresh stream.  *)
LEMMA OvertakenStep == TypeOK /\ FreshInv /\ OvertakenInv /\ [Next]_vars => OvertakenInv'
<1> SUFFICES ASSUME TypeOK, FreshInv, OvertakenInv, [Next]_vars PROVE OvertakenInv'
  OBVIOUS
<1> USE DEF OvertakenInv, InIO
<1>1. ASSUME NEW c \in Calls, Begin(c) PROVE OvertakenInv'
  BY <1>1 DEF Begin, TypeOK, Calls, streamVars
<1>2. ASSUME NEW c \in Calls, Succeed(c) PROVE OvertakenInv'
  BY <1>2 DEF Succeed, Return, NoCall, TypeOK, Calls
<1>3. ASSUME NEW c \in Calls, GivesUp(c) PROVE OvertakenInv'
  BY <1>3 DEF GivesUp, NoCall, TypeOK, Calls
<1>4. ASSUME NEW c \in Calls, Dial(c) PROVE OvertakenInv'
  BY <1>4 DEF Dial, TypeOK, Calls
<1>5. ASSUME NEW c \in Calls, Assign(c) PROVE OvertakenInv'
  BY <1>5 DEF Assign, FreshInv, Fresh, TypeOK, Calls, streamVars
<1>6. ASSUME NEW c \in Calls, Repeat(c) PROVE OvertakenInv'
  BY <1>6 DEF Repeat, TypeOK, Calls, streamVars
<1>7. ASSUME NEW s \in Streams, Reset(s) PROVE OvertakenInv'
  <2>1. \A t \in Streams : carried[t] = <<>> => carried'[t] = <<>>
    BY <1>7, Beginning DEF Reset, TypeOK
  <2>2. UNCHANGED <<conn, call>>
    BY <1>7 DEF Reset
  <2> QED BY <2>1, <2>2 DEF TypeOK, Streams
<1>8. CASE Close
  BY <1>8 DEF Close
<1>9. CASE UNCHANGED vars
  BY <1>9 DEF vars, streamVars
<1> QED BY <1>1, <1>2, <1>3, <1>4, <1>5, <1>6, <1>7, <1>8, <1>9, ErrorsGiveUp
        DEF Next, CallStep

-----------------------------------------------------------------------------
(* Headers and their data.                                                 *)

(* A stream whose contents and openness did not grow still fits the part.  *)
LEMMA FollowsStep ==
  TypeOK /\ WriteInv /\ FreshInv /\ OvertakenInv /\ FollowsInv /\ [Next]_vars => FollowsInv'
<1> SUFFICES ASSUME TypeOK, WriteInv, FreshInv, OvertakenInv, FollowsInv, [Next]_vars
             PROVE  FollowsInv'
  OBVIOUS
<1> USE DEF InIO
<1>1. ASSUME NEW c \in Calls, Begin(c) PROVE FollowsInv'
  BY <1>1 DEF Begin, FollowsInv, Follows, TypeOK, Calls, streamVars
<1>2. ASSUME NEW c \in Calls, Succeed(c) PROVE FollowsInv'
  <2>1. CASE c = "Read"
    <3>1. UNCHANGED <<conn, stream, carried, part>> /\ call'["Write"] = call["Write"]
      BY <1>2, <2>1 DEF Succeed, AfterWrite, Return, TypeOK, Calls, streamVars
    <3> QED BY <3>1 DEF FollowsInv, Follows
  <2>2. CASE c = "Write"
    <3>1. /\ part \in Parts /\ part' = part + 1 /\ conn' = conn
          /\ carried' = [carried EXCEPT ![call[c].on] = Append(@, part)]
          /\ call'["Write"].pc = "idle"
      BY <1>2, <2>2 DEF Succeed, AfterWrite, Return, NoCall, WriteInv, TypeOK, Calls
    <3>2. CASE call[c].on = conn
      <4>1. carried'[conn] = Append(carried[conn], part)
        BY <3>1, <3>2 DEF TypeOK, Streams
      <4>2. carried'[conn][Len(carried'[conn])] = part
        BY <3>1, <4>1, Ending DEF TypeOK, Streams
      <4> QED BY <3>1, <4>2 DEF FollowsInv, Follows, Parts
    <3>3. CASE call[c].on # conn
      <4>1. carried'[conn] = <<>>
        BY <1>2, <2>2, <3>1, <3>3 DEF Succeed, OvertakenInv, TypeOK, Streams
      <4> QED BY <3>1, <4>1 DEF FollowsInv, Follows
    <3> QED BY <3>2, <3>3
  <2> QED BY <2>1, <2>2 DEF Calls
<1>3. ASSUME NEW c \in Calls, GivesUp(c) PROVE FollowsInv'
  <2>1. CASE part' = part
    <3>1. UNCHANGED <<conn, stream, carried>>
      BY <1>3 DEF GivesUp
    <3>2. call'["Write"].pc \in {"try", "retry"} => call'["Write"] = call["Write"]
      BY <1>3 DEF GivesUp, NoCall, TypeOK, Calls
    <3> QED BY <2>1, <3>1, <3>2 DEF FollowsInv, Follows
  <2>2. CASE part' # part
    <3>1. IsHeader(part')
      BY <1>3, <2>2, PartFacts DEF GivesUp, WriteInv
    <3> QED BY <3>1 DEF FollowsInv, Follows
  <2> QED BY <2>1, <2>2
<1>4. ASSUME NEW c \in Calls, Dial(c) PROVE FollowsInv'
  <2>1. \A s \in 1..opened : stream'[s] = stream[s]
    BY <1>4 DEF Dial, TypeOK, Streams
  <2>2. UNCHANGED <<conn, carried, part>>
    BY <1>4 DEF Dial
  <2>3. call'["Write"].pc \in {"try", "retry"} => call'["Write"] = call["Write"]
    BY <1>4 DEF Dial, TypeOK, Calls
  <2>4. conn \in 1..opened /\ call["Write"].on \in 1..opened
    BY DEF TypeOK, Calls
  <2>5. \A s \in 1..opened : Follows(s) => Follows(s)'
    BY <2>1, <2>2 DEF Follows
  <2> QED BY <2>2, <2>3, <2>4, <2>5 DEF FollowsInv
<1>5. ASSUME NEW c \in Calls, Assign(c) PROVE FollowsInv'
  <2>1. carried'[conn'] = <<>>
    BY <1>5 DEF Assign, FreshInv, Fresh, streamVars
  <2>2. call'["Write"].pc \in {"try", "retry"} => call'["Write"] = call["Write"]
    BY <1>5 DEF Assign, TypeOK, Calls
  <2> QED BY <1>5, <2>1, <2>2 DEF Assign, FollowsInv, Follows, streamVars
<1>6. ASSUME NEW c \in Calls, Repeat(c) PROVE FollowsInv'
  <2>1. UNCHANGED <<conn, stream, carried, part>>
    BY <1>6 DEF Repeat, streamVars
  <2>2. call'["Write"] = call["Write"] \/ call'["Write"].on = conn
    BY <1>6 DEF Repeat, TypeOK, Calls
  <2> QED BY <2>1, <2>2 DEF FollowsInv, Follows
<1>7. ASSUME NEW s \in Streams, Reset(s) PROVE FollowsInv'
  <2>1. /\ stream'[s] = "reset"
        /\ \A t \in Streams : t # s => stream'[t] = stream[t] /\ carried'[t] = carried[t]
        /\ UNCHANGED <<conn, call, part>>
    BY <1>7 DEF Reset, TypeOK
  <2>2. conn \in Streams /\ call["Write"].on \in Streams
    BY DEF TypeOK, Streams, Calls
  <2>3. \A t \in Streams : Follows(t) => Follows(t)'
    BY <2>1 DEF Follows
  <2> QED BY <2>1, <2>2, <2>3 DEF FollowsInv, Follows
<1>8. CASE Close
  <2>1. /\ \A t \in Streams : stream'[t] = "open" => stream[t] = "open"
        /\ UNCHANGED <<conn, call, part, carried>>
    BY <1>8 DEF Close, TypeOK
  <2>2. conn \in Streams /\ call["Write"].on \in Streams
    BY DEF TypeOK, Streams, Calls
  <2>3. \A t \in Streams : Follows(t) => Follows(t)'
    BY <2>1 DEF Follows
  <2> QED BY <2>1, <2>2, <2>3 DEF FollowsInv, Follows
<1>9. CASE UNCHANGED vars
  BY <1>9 DEF vars, streamVars, FollowsInv, Follows
<1> QED BY <1>1, <1>2, <1>3, <1>4, <1>5, <1>6, <1>7, <1>8, <1>9, ErrorsGiveUp
        DEF Next, CallStep

(* No step after the first part of a stream separates data from its header. *)
LEMMA TornStep ==
  TypeOK /\ WriteInv /\ FollowsInv /\ TornAtStartOnly /\ [Next]_vars => TornAtStartOnly'
<1> SUFFICES ASSUME TypeOK, WriteInv, FollowsInv, TornAtStartOnly, [Next]_vars
             PROVE  TornAtStartOnly'
  OBVIOUS
<1>1. ASSUME NEW c \in Calls, Succeed(c) PROVE TornAtStartOnly'
  <2>1. CASE c = "Read"
    BY <1>1, <2>1 DEF Succeed, TornAtStartOnly
  <2>2. CASE c = "Write"
    <3> DEFINE on == call[c].on
    <3>1. /\ part \in Parts /\ on \in Streams /\ stream[on] = "open" /\ Follows(on)
          /\ carried' = [carried EXCEPT ![on] = Append(@, part)]
          /\ carried \in [Streams -> Seq(Parts)]
      BY <1>1, <2>2 DEF Succeed, InIO, WriteInv, FollowsInv, TypeOK, Streams
    <3> HIDE DEF on
    <3>2. ASSUME NEW i \in 2..Len(carried'[on]), ~IsHeader(carried'[on][i])
          PROVE  carried'[on][i - 1] = carried'[on][i] - 1
      <4>1. /\ carried'[on] = Append(carried[on], part)
            /\ carried[on] \in Seq(Parts)
        BY <3>1
      <4>2. CASE i \in 2..Len(carried[on])
        <5>1. carried'[on][i] = carried[on][i] /\ carried'[on][i - 1] = carried[on][i - 1]
          BY <3>1, <4>1, <4>2, Ending
        <5> QED BY <3>1, <3>2, <4>2, <5>1 DEF TornAtStartOnly
      <4>3. CASE i = Len(carried[on]) + 1
        <5>1. /\ carried'[on][i] = part /\ carried[on] # <<>>
              /\ carried'[on][i - 1] = carried[on][Len(carried[on])]
          BY <3>1, <3>2, <4>1, <4>3, Ending
        <5> QED BY <3>1, <3>2, <5>1 DEF Follows
      <4>4. Len(carried'[on]) = Len(carried[on]) + 1 /\ Len(carried[on]) \in Nat
        BY <3>1, <4>1, Ending
      <4> QED BY <3>2, <4>2, <4>3, <4>4
    <3>3. \A s \in Streams : s # on => carried'[s] = carried[s]
      BY <3>1
    <3> QED BY <3>2, <3>3 DEF TornAtStartOnly
  <2> QED BY <2>1, <2>2 DEF Calls
<1>2. ASSUME NEW s \in Streams, Reset(s) PROVE TornAtStartOnly'
  <2>1. PICK n \in 0..Len(carried[s]) :
          carried' = [carried EXCEPT ![s] = SubSeq(@, 1, n)]
    BY <1>2 DEF Reset
  <2>2. carried \in [Streams -> Seq(Parts)]
    BY DEF TypeOK
  <2>3. Len(carried'[s]) = n /\ \A i \in 1..n : carried'[s][i] = carried[s][i]
    BY <2>1, <2>2, Beginning
  <2>4. \A t \in Streams : t # s => carried'[t] = carried[t]
    BY <2>1, <2>2
  <2>5. ASSUME NEW i \in 2..n, ~IsHeader(carried'[s][i])
        PROVE  carried'[s][i - 1] = carried'[s][i] - 1
    <3>1. i \in 2..Len(carried[s]) /\ i \in 1..n /\ i - 1 \in 1..n
      BY <2>2
    <3> QED BY <2>3, <2>5, <3>1 DEF TornAtStartOnly
  <2>6. ASSUME NEW t \in Streams, NEW i \in 2..Len(carried'[t]), ~IsHeader(carried'[t][i])
        PROVE  carried'[t][i - 1] = carried'[t][i] - 1
    <3>1. CASE t = s
      BY <2>3, <2>5, <2>6, <3>1
    <3>2. CASE t # s
      BY <2>4, <2>6, <3>2 DEF TornAtStartOnly
    <3> QED BY <3>1, <3>2
  <2> QED BY <2>6 DEF TornAtStartOnly
<1>3. CASE UNCHANGED carried
  BY <1>3 DEF TornAtStartOnly
<1> QED BY <1>1, <1>2, <1>3, ErrorsGiveUp
        DEF Next, CallStep, Begin, GivesUp, Dial, Assign, Repeat, Close, vars, streamVars

-----------------------------------------------------------------------------
(* No part twice.                                                          *)

(* A Write appends the part that no stream has, and the part never falls.  *)
LEMMA PartsStep ==
  TypeOK /\ WriteInv /\ BelowInv /\ PartsOnce /\ [Next]_vars => BelowInv' /\ PartsOnce'
<1> SUFFICES ASSUME TypeOK, WriteInv, BelowInv, PartsOnce, [Next]_vars
             PROVE  BelowInv' /\ PartsOnce'
  OBVIOUS
<1>1. /\ carried \in [Streams -> Seq(Parts)] /\ part \in Nat
      /\ \A s \in Streams : \A i \in 1..Len(carried[s]) : carried[s][i] \in Nat
  BY DEF TypeOK, Parts
<1>2. ASSUME NEW c \in Calls, Succeed(c), c = "Write" PROVE BelowInv' /\ PartsOnce'
  <2> DEFINE on == call[c].on
  <2>1. /\ part \in Parts /\ part' = part + 1 /\ on \in Streams
        /\ carried' = [carried EXCEPT ![on] = Append(@, part)]
    BY <1>2 DEF Succeed, AfterWrite, InIO, WriteInv, TypeOK, Streams
  <2> HIDE DEF on
  <2>2. \A s \in Streams : s # on => carried'[s] = carried[s]
    BY <1>1, <2>1
  <2>3. /\ Len(carried'[on]) = Len(carried[on]) + 1 /\ Len(carried[on]) \in Nat
        /\ carried'[on][Len(carried[on]) + 1] = part
        /\ \A i \in 1..Len(carried[on]) : carried'[on][i] = carried[on][i]
    BY <1>1, <2>1, Ending
  <2>4. ASSUME NEW s \in Streams, NEW i \in 1..Len(carried'[s])
        PROVE  \/ i \in 1..Len(carried[s]) /\ carried'[s][i] = carried[s][i]
               \/ s = on /\ i = Len(carried[on]) + 1 /\ carried'[s][i] = part
    BY <2>2, <2>3
  <2>5. BelowInv'
    BY <1>1, <2>1, <2>4 DEF BelowInv
  <2>6. ASSUME NEW s \in Streams, NEW t \in Streams,
               NEW i \in 1..Len(carried'[s]), NEW j \in 1..Len(carried'[t])
        PROVE  /\ carried'[s][i] = carried'[t][j] => s = t /\ i = j
               /\ s = t /\ i < j => carried'[s][i] < carried'[t][j]
    <3>1. CASE /\ i \in 1..Len(carried[s]) /\ carried'[s][i] = carried[s][i]
               /\ j \in 1..Len(carried[t]) /\ carried'[t][j] = carried[t][j]
      BY <3>1 DEF PartsOnce
    <3>2. CASE /\ s = on /\ i = Len(carried[on]) + 1 /\ carried'[s][i] = part
               /\ j \in 1..Len(carried[t]) /\ carried'[t][j] = carried[t][j]
      BY <1>1, <2>3, <3>2 DEF BelowInv
    <3>3. CASE /\ i \in 1..Len(carried[s]) /\ carried'[s][i] = carried[s][i]
               /\ t = on /\ j = Len(carried[on]) + 1 /\ carried'[t][j] = part
      BY <1>1, <2>3, <3>3 DEF BelowInv
    <3>4. CASE /\ s = on /\ i = Len(carried[on]) + 1
               /\ t = on /\ j = Len(carried[on]) + 1
      BY <2>3, <3>4
    <3> QED BY <2>4, <3>1, <3>2, <3>3, <3>4
  <2> QED BY <2>5, <2>6 DEF PartsOnce
<1>3. ASSUME NEW s \in Streams, Reset(s) PROVE BelowInv' /\ PartsOnce'
  <2>1. PICK n \in 0..Len(carried[s]) :
          carried' = [carried EXCEPT ![s] = SubSeq(@, 1, n)]
    BY <1>3 DEF Reset
  <2>2. Len(carried'[s]) = n /\ \A i \in 1..n : carried'[s][i] = carried[s][i]
    BY <1>1, <2>1, Beginning
  <2>3. \A t \in Streams : t # s => carried'[t] = carried[t]
    BY <1>1, <2>1
  <2>4. ASSUME NEW t \in Streams, NEW i \in 1..Len(carried'[t])
        PROVE  i \in 1..Len(carried[t]) /\ carried'[t][i] = carried[t][i]
    <3>1. CASE t = s
      <4>1. i \in 1..n /\ n \in 0..Len(carried[s])
        BY <2>2, <2>4, <3>1
      <4>2. i \in 1..Len(carried[s])
        BY <1>1, <4>1
      <4> QED BY <2>2, <3>1, <4>1, <4>2
    <3>2. CASE t # s
      BY <2>3, <2>4, <3>2
    <3> QED BY <3>1, <3>2
  <2>5. part' = part
    BY <1>3 DEF Reset
  <2> QED BY <2>4, <2>5 DEF BelowInv, PartsOnce
<1>4. ASSUME UNCHANGED carried, part' \in Nat, part' >= part PROVE BelowInv' /\ PartsOnce'
  <2>1. PartsOnce'
    BY <1>4 DEF PartsOnce
  <2>2. BelowInv'
    BY <1>1, <1>4 DEF BelowInv
  <2> QED BY <2>1, <2>2
<1>5. ASSUME NEW c \in Calls, Succeed(c), c # "Write" PROVE BelowInv' /\ PartsOnce'
  <2>1. UNCHANGED <<carried, part>>
    BY <1>5 DEF Succeed, AfterWrite
  <2> QED BY <1>1, <1>4, <2>1
<1>6. ASSUME NEW c \in Calls, GivesUp(c) PROVE BelowInv' /\ PartsOnce'
  <2>1. part' \in Nat /\ part' >= part /\ UNCHANGED carried
    BY <1>1, <1>6, PartFacts DEF GivesUp, WriteInv
  <2> QED BY <1>4, <2>1
<1>7. ASSUME UNCHANGED <<carried, part>> PROVE BelowInv' /\ PartsOnce'
  BY <1>1, <1>4, <1>7
<1> QED BY <1>2, <1>3, <1>5, <1>6, <1>7, ErrorsGiveUp
        DEF Next, CallStep, Begin, Dial, Assign, Repeat, Close, vars, streamVars

-----------------------------------------------------------------------------
(* Results.                                                                *)

(* Init establishes every part of the invariant.                           *)
LEMMA InitIInv == Init => IInv
<1> SUFFICES ASSUME Init PROVE IInv
  OBVIOUS
<1>1. TypeOK
  <2>1. call \in [Calls -> [pc : Steps, on : 1..opened, attempts : 0..MaxRetry]]
    BY DEF Init, NoCall, Steps
  <2>2. carried \in [Streams -> Seq(Parts)]
    BY DEF Init
  <2>3. /\ stream \in [Streams -> StreamStates]
        /\ \A s \in Streams : stream[s] = "none" <=> s > opened
    BY DEF Init, Streams, StreamStates
  <2>4. closed \in BOOLEAN
    BY DEF Init
  <2> QED BY <2>1, <2>2, <2>3, <2>4 DEF Init, TypeOK, Streams
<1>2. WriteInv /\ FreshInv /\ OvertakenInv /\ FollowsInv
  BY DEF Init, NoCall, InIO, WriteInv, FreshInv, OvertakenInv, FollowsInv, Follows,
         Streams, Calls
<1>3. TornAtStartOnly /\ BelowInv /\ PartsOnce
  BY DEF Init, TornAtStartOnly, BelowInv, PartsOnce
<1> QED BY <1>1, <1>2, <1>3 DEF IInv, ConnInv

(* The invariant holds in every reachable state.                           *)
THEOREM Invariant == Spec => []IInv
<1>1. IInv /\ [Next]_vars => IInv'
  BY TypeStep, WriteStep, FreshStep, OvertakenStep, FollowsStep, TornStep, PartsStep
     DEF IInv, ConnInv
<1> QED BY InitIInv, <1>1, PTL DEF Spec

(* Read and Write keep the connection's state well typed, whatever the     *)
(* races of their recoveries (conn.go:282-441).                            *)
THEOREM TypeCorrect == Spec => []TypeOK
<1>1. IInv => TypeOK
  BY DEF IInv
<1> QED BY Invariant, <1>1, PTL

(* A reconnect of Read or Write tears a frame at most at the start of a    *)
(* stream, although no lock guards r.Conn.                                 *)
THEOREM TornOnlyAtStart == Spec => []TornAtStartOnly
<1>1. IInv => TornAtStartOnly
  BY DEF IInv
<1> QED BY Invariant, <1>1, PTL

(* A Write that is repeated after a reset sends no part twice and none     *)
(* out of order.                                                           *)
THEOREM NoPartTwice == Spec => []PartsOnce
<1>1. IInv => PartsOnce
  BY DEF IInv
<1> QED BY Invariant, <1>1, PTL

=============================================================================
