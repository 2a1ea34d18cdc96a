------------------------ MODULE StreamTransfer_proofs ------------------------
(***************************************************************************)
(* Proofs about StreamTransfer, for any streams, window, faults and number *)
(* of calls.                                                               *)
(***************************************************************************)
EXTENDS StreamTransfer, SequenceTheorems, FiniteSetTheorems, TLAPS

USE SizesAssumption, BoundsAssumption, EstimateAssumption, StrategiesAssumption

-----------------------------------------------------------------------------
(* The inductive invariant.                                                *)

(* The handler returns no error as nil, which handleError does with what   *)
(* is to be ignored: so it is unless SetDefaultStrategy asks for that.     *)
NothingIgnored == Strategies["warning"] # "Ignore" /\ Strategies["error"] # "Ignore"

(* The locals of a call under way fit its entry in the history.            *)
SenderInv ==
  /\ sender.active => sends # <<>> /\ sends[Call].result = "open"
  /\ ~sender.active => sender.totalSent = 0
  /\ sender.isFirstChunk <=> sender.totalSent = 0

ReceiverInv ==
  /\ receiver.active =>
       /\ receives # <<>> /\ receives[This].result = "open"
       /\ receives[This].chunks # <<>> => receiver.fragmentStart
       /\ receiver.totalReceived = Len(receives[This].chunks)
  /\ ~receiver.active => ~receiver.fragmentStart /\ receiver.totalReceived = 0

(* A frame is a part of the stream of its call, or its end.                *)
GoodFrame(calls, f) ==
  /\ f.call \in DOMAIN calls
  /\ f.first <=> f.part = 1
  /\ f.part <= calls[f.call].size
  /\ f.part = 0 => f.last
  /\ f.last => calls[f.call].result = "ok"
  /\ f.last /\ f.part # 0 => f.part = calls[f.call].size

(* g may come right after part i of call k, the last frame of it or not.   *)
NextTo(calls, k, i, last, g) ==
  \/ ~last /\ g.call = k /\ g.part = i + 1
  \/ ~last /\ g.call = k /\ g.part = 0 /\ i = calls[k].size
  \/ g.call > k /\ g.part = 1
  \/ g.call > k /\ g.part = 0 /\ calls[g.call].size = 0

(* Part i of call k may be what the sender has sent last.                  *)
SentLast(k, i, last) ==
  /\ k <= Call
  /\ sender.active => /\ k = Call => ~last /\ i = sender.totalSent
                      /\ k < Call => sender.totalSent = 0

FrameAfter(calls, f, g) == NextTo(calls, f.call, f.part, f.last, g)
LastFrame(f) == SentLast(f.call, f.part, f.last)

WireInv ==
  /\ \A i \in 1..Len(wire) : GoodFrame(sends, wire[i])
  /\ \A i \in 1..Len(wire) - 1 : FrameAfter(sends, wire[i], wire[i + 1])
  /\ ~broken /\ wire # <<>> => LastFrame(wire[Len(wire)])

(* The chunk p belongs before the chunk q.                                 *)
Before(p, q) ==
  \/ p[1] < q[1]
  \/ p[1] = q[1] /\ p[2] < q[2]

(* The chunk p belongs before whatever the frame f holds.                  *)
Ahead(p, f) == f.part # 0 => Before(p, Chunk(f))

(* The chunk p was sent already.                                           *)
Sent(p) ==
  \/ p[1] < Call
  \/ p[1] = Call /\ (sender.active => p[2] <= sender.totalSent)

(* What is in flight is in order.                                          *)
WireOrder ==
  /\ \A i \in 1..Len(wire) : Sent(Chunk(wire[i]))
  /\ \A i, j \in 1..Len(wire) : i < j => Ahead(Chunk(wire[i]), wire[j])

(* What was written comes before it.                                       *)
BeforeWire(c) ==
  \A i \in 1..Len(c) : Sent(c[i]) /\ \A j \in 1..Len(wire) : Ahead(c[i], wire[j])

OrderInv == WireOrder /\ \A r \in InStep : BeforeWire(receives[r].chunks)

(* c ends with the first i parts of call k.                                *)
EndsWith(c, k, i) == i <= Len(c) /\ \A j \in 1..i : c[Len(c) - i + j] = <<k, j>>

(* What a ReceiveStream under way that is in step has of the stream it is  *)
(* in, and what can come next.                                             *)
Held(k, i) ==
  /\ k \in DOMAIN sends
  /\ i > 0 /\ EndsWith(receives[This].chunks, k, i)
  /\ wire # <<>> => NextTo(sends, k, i, FALSE, wire[1])
  /\ wire = <<>> /\ ~broken => SentLast(k, i, FALSE)

LastIs(k, i) == LET c == receives[This].chunks IN c # <<>> /\ c[Len(c)] = <<k, i>>
HeldInv ==
  receiver.active /\ receiver.fragmentStart /\ ~receives[This].astray =>
    \E k, i \in Nat : LastIs(k, i) /\ Held(k, i)

(* The properties, of the chunks of one call, of two, and of a call that   *)
(* succeeded.                                                              *)
InRow(c) == \A i \in 1..Len(c) - 1 : Follows(c[i], c[i + 1])
AllBefore(b, c) == \A i \in 1..Len(b), j \in 1..Len(c) : Before(b[i], c[j])
Whole(calls, e) ==
  e.result = "ok" =>
    /\ e.ended \in DOMAIN calls /\ calls[e.ended].result = "ok"
    /\ EndsWith(e.chunks, e.ended, calls[e.ended].size)

ResultInv ==
  /\ \A r \in InStep : InRow(receives[r].chunks) /\ Whole(sends, receives[r])
  /\ \A r, q \in InStep : q < r => AllBefore(receives[q].chunks, receives[r].chunks)

(* A transfer has left its first status when its first chunk has moved.    *)
Moving(r, n) ==
  IF n = 0 THEN r.status = "Initializing" ELSE r.status \in {"Transferring", "Completed"}

SenderTracked ==
  /\ sender.active => Moving(sTracker, sender.totalSent)
  /\ ~sender.active /\ sends # <<>> =>
       /\ sTracker.status \in Terminal
       /\ sends[Call].result = "ok" /\ Size > 0 => sTracker.status = "Completed"

ReceiverTracked ==
  /\ receiver.active => Moving(rTracker, receiver.totalReceived)
  /\ ~receiver.active /\ receives # <<>> =>
       /\ rTracker.status \in Terminal
       /\ receives[This].result = "ok" /\ receives[This].chunks # <<>> =>
            rTracker.status = "Completed"

-----------------------------------------------------------------------------
(* What the operations make of a record.                                   *)

(* A new record is a record in its first status.                           *)
LEMMA FreshRecord ==
  ASSUME NEW n \in Nat
  PROVE  Fresh(n) \in Record /\ Fresh(n).status = "Initializing"
BY DEF Fresh, Record, Statuses

(* Changing the status of a record gives a record.                         *)
LEMMA StatusRecord ==
  ASSUME NEW r \in Record, NEW s \in Statuses
  PROVE  WithStatus(r, s) \in Record /\ WithStatus(r, s).status = s
BY DEF WithStatus, Record

(* So does changing its total.                                             *)
LEMMA TotalRecord ==
  ASSUME NEW r \in Record, NEW n \in Nat
  PROVE  WithTotal(r, n) \in Record /\ WithTotal(r, n).status = r.status
<1>1. r.bytes \in Nat
  BY DEF Record
<1>2. Percent(r.bytes, n) \in Nat
  BY <1>1 DEF Percent
<1> QED BY <1>2 DEF WithTotal, Record

(* Progress starts a transfer, or completes it, and does nothing to one    *)
(* that is over.                                                           *)
LEMMA ProgressRecord ==
  ASSUME NEW r \in Record, NEW n \in Nat
  PROVE  /\ Progress(r, n) \in Record
         /\ r.status \in {"Initializing", "Transferring", "Completed"} =>
              Progress(r, n).status \in {"Transferring", "Completed"}
<1>1. r.total \in Nat /\ r.notified \in Nat /\ r.speed \in Int /\ r.completionSent \in BOOLEAN
  BY DEF Record
<1>2. Percent(n, r.total) \in Nat
  BY <1>1 DEF Percent
<1>3. Reaches(r, n) \in BOOLEAN
  BY DEF Reaches
<1>4. AfterProgress(r, n, FALSE) \in Record
  BY <1>1, <1>2, <1>3 DEF AfterProgress, Record, Statuses
<1>5. AfterProgress(r, n, FALSE).status \in {"Transferring", "Completed"}
  BY DEF AfterProgress
<1> QED BY <1>4, <1>5 DEF Progress, CanProgress

(* What a call does to its record when it returns.                         *)
LEMMA SettledRecord ==
  ASSUME NEW r \in Record
  PROVE  /\ Complete(r) \in Record /\ Fail(r) \in Record /\ Stop(r) \in Record
         /\ r.status \in {"Transferring", "Completed"} =>
              Complete(r).status = "Completed"
         /\ r.status = "Initializing" => Complete(r).status = "Initializing"
         /\ Stop(r).status \in Terminal
         /\ r.status = "Completed" => Stop(r).status = "Completed"
<1>1. \A s \in {"Completed", "Failed", "Cancelled"} :
        WithStatus(r, s) \in Record /\ WithStatus(r, s).status = s
  BY StatusRecord DEF Statuses
<1>2. Complete(r) \in Record /\ Fail(r) \in Record /\ Stop(r) \in Record
  BY <1>1 DEF Complete, Fail, Stop
<1>3. /\ r.status \in {"Transferring", "Completed"} => Complete(r).status = "Completed"
      /\ r.status = "Initializing" => Complete(r).status = "Initializing"
  BY <1>1 DEF Complete, ValidTransition
<1>4. /\ Stop(r).status \in Terminal
      /\ r.status = "Completed" => Stop(r).status = "Completed"
  BY <1>1 DEF Stop, CanCancel, Terminal
<1> QED BY <1>2, <1>3, <1>4

(* The receiver's record, whose total may be doubled first.                *)
LEMMA ReceivedRecord ==
  ASSUME rTracker \in Record, NEW n \in Nat
  PROVE  /\ Received(n) \in Record
         /\ rTracker.status \in {"Initializing", "Transferring", "Completed"} =>
              Received(n).status \in {"Transferring", "Completed"}
<1> DEFINE r == IF n > Estimate THEN WithTotal(rTracker, 2 * n) ELSE rTracker
<1>1. 2 * n \in Nat
  OBVIOUS
<1>2. r \in Record /\ r.status = rTracker.status
  BY <1>1, TotalRecord
<1>3. Received(n) = Progress(r, n)
  BY DEF Received
<1> HIDE DEF r
<1> QED BY <1>2, <1>3, ProgressRecord

-----------------------------------------------------------------------------
(* What the error handler makes of an error.                               *)

(* The results of the calls that fail, whatever the strategies.            *)
LEMMA HandledErrors ==
  ASSUME NEW error \in AllFaults \cup {"protocol", "garbled"}
  PROVE  /\ error # "reset" => HandleError(error) \in {"ok", "retry", error}
         /\ error = "reset" => HandleError(error) = "retry"
         /\ HandleError(error) \in Results \ {"open"}
         /\ NothingIgnored => HandleError(error) # "ok"
<1>1. CASE error = "reset"
  <2>1. ErrorOf(error) = [Unknown EXCEPT !.net = "other"]
    BY <1>1 DEF ErrorOf
  <2>2. ErrorOf(error).net = "other" /\ ~Graceful(ErrorOf(error))
    BY <2>1 DEF Unknown, Graceful
  <2>3. StrategyFor(Strategies, ErrorOf(error)) = "Retry"
    BY <2>2 DEF StrategyFor, IsConnectionClosed
  <2> QED BY <1>1, <2>3 DEF HandleError, Results
<1>2. CASE error \in {"eof", "closed"}
  <2>1. Graceful(ErrorOf(error))
    BY <1>2 DEF ErrorOf, Unknown, Graceful
  <2>2. StrategyFor(Strategies, ErrorOf(error)) = "Continue"
    BY <2>1 DEF StrategyFor
  <2> QED BY <1>2, <2>2 DEF HandleError, Results
<1>3. CASE error \in {"readerError", "writerError", "protocol", "garbled", "timeout"}
  <2>1. /\ ErrorOf(error).net \in {"no", "timeout"} /\ ErrorOf(error).text = "other"
        /\ ~ErrorOf(error).eof /\ ErrorOf(error).severity = "none"
    BY <1>3 DEF ErrorOf, Unknown
  <2>2. /\ ~Graceful(ErrorOf(error)) /\ ~IsConnectionClosed(ErrorOf(error))
        /\ Severity(ErrorOf(error)) \in {"warning", "error"}
    BY <2>1 DEF Graceful, IsConnectionClosed, Severity
  <2>3. StrategyFor(Strategies, ErrorOf(error)) = Strategies[Severity(ErrorOf(error))]
    BY <2>2 DEF StrategyFor
  <2>4. NothingIgnored => StrategyFor(Strategies, ErrorOf(error)) # "Ignore"
    BY <2>2, <2>3 DEF NothingIgnored
  <2>5. HandleError(error) \in {"ok", "retry", error}
    BY DEF HandleError
  <2>6. NothingIgnored => HandleError(error) # "ok"
    BY <1>3, <2>4 DEF HandleError
  <2> QED BY <1>3, <2>5, <2>6 DEF Results
<1> QED BY <1>1, <1>2, <1>3 DEF AllFaults

-----------------------------------------------------------------------------
(* Types.                                                                  *)

SendEntry == [size : Nat, result : Results]
ReceiveEntry == [chunks : Seq(Chunks), ended : Nat, result : Results, astray : BOOLEAN]
WireOK == wire \in Seq(Frames) /\ rest \in 0..MaxRest /\ (rest > 0 => wire # <<>>)
SendLocals == [active : BOOLEAN, isFirstChunk : BOOLEAN, totalSent : Nat]
ReceiveLocals == [active : BOOLEAN, fragmentStart : BOOLEAN, totalReceived : Nat]

TypeInv == TypeOK /\ SenderInv /\ ReceiverInv

(* The numbers up to n are n and those up to n - 1.                        *)
LEMMA UpTo ==
  ASSUME NEW n \in Nat
  PROVE  \A k \in 1..n : k = n \/ k \in 1..n - 1
OBVIOUS

(* One element more at the end of a sequence.                              *)
LEMMA Appended ==
  ASSUME NEW S, NEW s \in Seq(S), NEW e \in S
  PROVE  /\ Append(s, e) \in Seq(S) /\ Len(Append(s, e)) = Len(s) + 1
         /\ \A i \in 1..Len(s) : Append(s, e)[i] = s[i]
         /\ Append(s, e)[Len(s) + 1] = e
OBVIOUS

(* Another element at the end of a sequence.                               *)
LEMMA LastReplaced ==
  ASSUME NEW S, NEW s \in Seq(S), s # <<>>, NEW e \in S
  PROVE  /\ [s EXCEPT ![Len(s)] = e] \in Seq(S) /\ Len([s EXCEPT ![Len(s)] = e]) = Len(s)
         /\ \A i \in 1..Len(s) - 1 : [s EXCEPT ![Len(s)] = e][i] = s[i]
         /\ [s EXCEPT ![Len(s)] = e][Len(s)] = e
<1>1. Len(s) \in 1..Len(s)
  BY EmptySeq, LenProperties
<1>2. /\ [s EXCEPT ![Len(s)] = e] \in Seq(S) /\ Len([s EXCEPT ![Len(s)] = e]) = Len(s)
      /\ \A i \in 1..Len(s) :
           [s EXCEPT ![Len(s)] = e][i] = IF i = Len(s) THEN e ELSE s[i]
  BY <1>1, ExceptSeq
<1>3. Len(s) \in Nat
  BY LenProperties
<1>4. \A i \in 1..Len(s) - 1 : i \in 1..Len(s) /\ i # Len(s)
  BY <1>3
<1> QED BY <1>1, <1>2, <1>4

(* The first element removed.                                              *)
LEMMA HeadRemoved ==
  ASSUME NEW S, NEW s \in Seq(S), s # <<>>
  PROVE  /\ Head(s) \in S /\ Head(s) = s[1]
         /\ Tail(s) \in Seq(S) /\ Len(Tail(s)) = Len(s) - 1 /\ Len(s) > 0
         /\ \A i \in 1..Len(s) - 1 : Tail(s)[i] = s[i + 1]
BY HeadTailProperties, EmptySeq

(* The last elements removed.                                              *)
LEMMA EndRemoved ==
  ASSUME NEW S, NEW s \in Seq(S), NEW n \in 0..Len(s)
  PROVE  /\ SubSeq(s, 1, n) \in Seq(S) /\ Len(SubSeq(s, 1, n)) = n
         /\ \A i \in 1..n : SubSeq(s, 1, n)[i] = s[i]
OBVIOUS

(* The first elements removed.                                             *)
LEMMA FrontRemoved ==
  ASSUME NEW S, NEW s \in Seq(S), NEW n \in 0..Len(s)
  PROVE  /\ SubSeq(s, n + 1, Len(s)) \in Seq(S) /\ Len(SubSeq(s, n + 1, Len(s))) = Len(s) - n
         /\ \A i \in 1..Len(s) - n : SubSeq(s, n + 1, Len(s))[i] = s[i + n]
<1>1. Len(s) \in Nat /\ n \in Nat /\ n <= Len(s)
  BY LenProperties
<1>2. \A i \in n + 1..Len(s) : s[i] \in S
  BY <1>1, ElementOfSeq
<1>3. SubSeq(s, n + 1, Len(s)) \in Seq(S)
  BY <1>1, <1>2, SubSeqProperties
<1>4. Len(SubSeq(s, n + 1, Len(s))) = Len(s) - n
  <2>1. Len(SubSeq(s, n + 1, Len(s))) = IF n + 1 <= Len(s) THEN Len(s) - (n + 1) + 1 ELSE 0
    BY <1>1, <1>2, SubSeqProperties
  <2> QED BY <1>1, <2>1
<1>5. \A i \in 1..Len(s) - n : SubSeq(s, n + 1, Len(s))[i] = s[i + n]
  <2>1. \A i \in 1..Len(s) - n : SubSeq(s, n + 1, Len(s))[i] = s[(n + 1) + i - 1]
    BY <1>1, <1>2, SubSeqProperties
  <2>2. \A i \in 1..Len(s) - n : (n + 1) + i - 1 = i + n
    BY <1>1
  <2> QED BY <2>1, <2>2
<1> QED BY <1>3, <1>4, <1>5

(* SendStream begins.                                                      *)
LEMMA BeginSend ==
  ASSUME TypeInv, NEW size \in Sizes, NEW known \in BOOLEAN, SendStream(size, known)
  PROVE  /\ TypeInv'
         /\ Len(sends') = Len(sends) + 1 /\ sends'[Len(sends')].size = size
         /\ \A k \in 1..Len(sends) : sends'[k] = sends[k]
<1> DEFINE e == [size |-> size, result |-> "open"]
<1>1. sends \in Seq(SendEntry) /\ e \in SendEntry
  BY DEF TypeInv, TypeOK, SendEntry, Results
<1>2. sends' = Append(sends, e)
  BY DEF SendStream
<1>3. /\ sends' \in Seq(SendEntry) /\ Len(sends') = Len(sends) + 1
      /\ \A k \in 1..Len(sends) : sends'[k] = sends[k]
      /\ sends'[Len(sends')] = e
  BY <1>1, <1>2, Appended
<1>4. /\ sender' = [sender EXCEPT !.active = TRUE] /\ sender \in SendLocals
      /\ sTracker' \in Record
      /\ UNCHANGED <<wire, rest, connVars, recvVars>>
  BY FreshRecord DEF SendStream, TypeInv, TypeOK, SendLocals, wireVars
<1>5. /\ sender' \in SendLocals /\ sender'.active
      /\ sender'.isFirstChunk = sender.isFirstChunk /\ sender'.totalSent = sender.totalSent
  BY <1>4 DEF SendLocals
<1>6. SenderInv'
  <2>1. sends' # <<>> /\ sends'[Len(sends')].result = "open"
    BY <1>1, <1>3, EmptySeq
  <2> QED BY <1>5, <2>1 DEF TypeInv, SenderInv, Call
<1>7. ReceiverInv'
  BY <1>4 DEF TypeInv, ReceiverInv, This, recvVars
<1>8. TypeOK'
  BY <1>3, <1>4, <1>5 DEF TypeInv, TypeOK, SendEntry, SendLocals, recvVars, connVars
<1> QED BY <1>3, <1>6, <1>7, <1>8 DEF TypeInv

(* A call of SendStream returns: its entry has a result, the other entries *)
(* and the sizes are as before.                                            *)
LEMMA SendReturned ==
  ASSUME TypeInv, sender.active, NEW result \in Results, NEW tracker \in Record,
         SendReturn(result, tracker)
  PROVE  /\ sends' \in Seq(SendEntry) /\ Len(sends') = Len(sends) /\ Len(sends) > 0
         /\ \A k \in 1..Len(sends) - 1 : sends'[k] = sends[k]
         /\ sends'[Len(sends)] = [sends[Len(sends)] EXCEPT !.result = result]
         /\ sender' \in SendLocals /\ ~sender'.active /\ SenderInv'
         /\ sTracker' \in Record /\ sTracker' = Stop(tracker)
<1>1. sends \in Seq(SendEntry) /\ sends # <<>> /\ Len(sends) \in 1..Len(sends)
  BY EmptySeq, LenProperties DEF TypeInv, TypeOK, SendEntry, SenderInv
<1> DEFINE e == [sends[Len(sends)] EXCEPT !.result = result]
<1>2. e \in SendEntry /\ sends' = [sends EXCEPT ![Len(sends)] = e]
  <2>1. sends[Len(sends)] \in SendEntry
    BY <1>1, ElementOfSeq
  <2> QED BY <2>1 DEF SendReturn, Call, SendEntry
<1> HIDE DEF e
<1>3. /\ sends' \in Seq(SendEntry) /\ Len(sends') = Len(sends)
      /\ \A k \in 1..Len(sends) - 1 : sends'[k] = sends[k]
      /\ sends'[Len(sends)] = e
  BY <1>1, <1>2, LastReplaced
<1>4. sender' \in SendLocals /\ ~sender'.active /\ SenderInv'
  BY DEF SendReturn, SendLocals, SenderInv
<1>5. sTracker' \in Record /\ sTracker' = Stop(tracker)
  BY SettledRecord DEF SendReturn
<1>6. Len(sends) > 0
  BY <1>1
<1> QED BY <1>3, <1>4, <1>5, <1>6 DEF e

(* A frame more in flight.                                                 *)
LEMMA FrameAppended ==
  ASSUME wire \in Seq(Frames), rest \in 0..MaxRest, NEW f \in Frames,
         wire' = Append(wire, f), rest' = rest
  PROVE  WireOK'
<1>1. /\ Append(wire, f) \in Seq(Frames) /\ Len(Append(wire, f)) = Len(wire) + 1
  BY Appended
<1>2. Len(Append(wire, f)) # 0
  BY <1>1, LenProperties
<1> QED BY <1>1, <1>2, EmptySeq DEF WireOK

(* A chunk is sent.                                                        *)
LEMMA SendChunkTypes ==
  ASSUME TypeInv, NEW isLast \in BOOLEAN, SendChunk(isLast)
  PROVE  TypeInv'
<1> DEFINE sent == sender.totalSent + 1
           f    == Frame(Call, sent, sender.isFirstChunk, isLast)
<1>1. /\ sender \in SendLocals /\ sTracker \in Record /\ wire \in Seq(Frames)
      /\ sender.active /\ sends \in Seq(SendEntry)
      /\ UNCHANGED <<connVars, recvVars>>
  BY DEF SendChunk, TypeInv, TypeOK, SendLocals, SendEntry
<1>2. sent \in Nat /\ sent # 0
  BY <1>1 DEF SendLocals
<1>3. Progress(sTracker, sent) \in Record /\ Complete(Progress(sTracker, sent)) \in Record
  BY <1>1, <1>2, ProgressRecord, SettledRecord
<1>4. WireOK'
  <2>1. Call \in Nat
    BY <1>1, LenProperties DEF Call
  <2>2. f \in Frames
    BY <1>1, <1>2, <2>1 DEF Frame, Frames, SendLocals
  <2>3. wire' = Append(wire, f) /\ rest' = rest /\ rest \in 0..MaxRest
    BY DEF SendChunk, WriteFrame, TypeInv, TypeOK
  <2> QED BY <1>1, <2>2, <2>3, FrameAppended
<1>5. sends' \in Seq(SendEntry) /\ sender' \in SendLocals /\ sTracker' \in Record /\ SenderInv'
  <2>1. CASE isLast
    <3>1. SendReturn("ok", Complete(Progress(sTracker, sent)))
      BY <2>1 DEF SendChunk
    <3> QED BY <1>1, <1>3, <3>1, SendReturned DEF Results
  <2>2. CASE ~isLast
    <3>1. /\ sender' = [active |-> TRUE, isFirstChunk |-> FALSE, totalSent |-> sent]
          /\ sTracker' = Progress(sTracker, sent) /\ sends' = sends
      BY <2>2 DEF SendChunk
    <3> HIDE DEF sent
    <3> QED BY <1>1, <1>2, <1>3, <3>1 DEF SendLocals, TypeInv, SenderInv, Call
  <2> QED BY <2>1, <2>2
<1>6. ReceiverInv'
  BY <1>1 DEF TypeInv, ReceiverInv, This, recvVars
<1>7. TypeOK'
  BY <1>1, <1>4, <1>5 DEF WireOK, TypeInv, TypeOK, SendEntry, SendLocals, recvVars, connVars
<1> QED BY <1>5, <1>6, <1>7 DEF TypeInv

(* The end of a stream is sent, or the call fails.                         *)
LEMMA SendReturnTypes ==
  ASSUME TypeInv, SendEnd \/ \E error \in AllFaults : SendFails(error)
  PROVE  TypeInv'
<1>1. /\ sender \in SendLocals /\ sTracker \in Record /\ wire \in Seq(Frames)
      /\ sender.active /\ sends \in Seq(SendEntry)
      /\ UNCHANGED <<connVars, recvVars>>
  BY DEF SendEnd, SendFails, TypeInv, TypeOK, SendLocals, SendEntry
<1>2. WireOK'
  <2>1. Call \in Nat
    BY <1>1, LenProperties DEF Call
  <2>2. Frame(Call, 0, FALSE, TRUE) \in Frames
    BY <2>1 DEF Frame, Frames
  <2>3. /\ wire' = Append(wire, Frame(Call, 0, FALSE, TRUE)) \/ wire' = wire
        /\ rest' = rest /\ rest \in 0..MaxRest /\ (rest > 0 => wire # <<>>)
    BY DEF SendEnd, SendFails, WriteFrame, wireVars, TypeInv, TypeOK
  <2>4. CASE wire' = wire
    BY <1>1, <2>3, <2>4 DEF WireOK
  <2> QED BY <1>1, <2>2, <2>3, <2>4, FrameAppended
<1>3. PICK result \in Results, tracker \in Record : SendReturn(result, tracker)
  <2>1. CASE SendEnd
    <3>1. SendReturn("ok", Complete(sTracker)) /\ Complete(sTracker) \in Record
      BY <1>1, <2>1, SettledRecord DEF SendEnd
    <3> QED BY <3>1 DEF Results
  <2>2. ASSUME NEW error \in AllFaults, SendFails(error)
        PROVE  \E result \in Results, tracker \in Record : SendReturn(result, tracker)
    <3>1. SendReturn(HandleError(error), Fail(sTracker)) /\ Fail(sTracker) \in Record
      BY <1>1, <2>2, SettledRecord DEF SendFails
    <3> QED BY <3>1, HandledErrors
  <2> QED BY <2>1, <2>2
<1>4. sends' \in Seq(SendEntry) /\ sender' \in SendLocals /\ sTracker' \in Record /\ SenderInv'
  BY <1>1, <1>3, SendReturned
<1>5. ReceiverInv'
  BY <1>1 DEF TypeInv, ReceiverInv, This, recvVars
<1>6. TypeOK'
  BY <1>1, <1>2, <1>4 DEF WireOK, TypeInv, TypeOK, SendEntry, SendLocals, recvVars, connVars
<1> QED BY <1>4, <1>5, <1>6 DEF TypeInv

(* ReceiveStream begins.                                                   *)
LEMMA BeginReceive ==
  ASSUME TypeInv, ReceiveStream
  PROVE  /\ TypeInv'
         /\ Len(receives') = Len(receives) + 1 /\ receives'[Len(receives')].chunks = <<>>
         /\ receives'[Len(receives')].result = "open" /\ ~receives'[Len(receives')].astray
         /\ \A r \in 1..Len(receives) : receives'[r] = receives[r]
<1> DEFINE e == [chunks |-> <<>>, ended |-> 0, result |-> "open", astray |-> FALSE]
<1>1. receives \in Seq(ReceiveEntry) /\ e \in ReceiveEntry
  <2>1. <<>> \in Seq(Chunks)
    BY EmptySeq
  <2> QED BY <2>1 DEF TypeInv, TypeOK, ReceiveEntry, Results
<1>2. receives' = Append(receives, e)
  BY DEF ReceiveStream
<1>3. /\ receives' \in Seq(ReceiveEntry) /\ Len(receives') = Len(receives) + 1
      /\ \A r \in 1..Len(receives) : receives'[r] = receives[r]
      /\ receives'[Len(receives')] = e
  BY <1>1, <1>2, Appended
<1>4. /\ receiver' = [receiver EXCEPT !.active = TRUE] /\ receiver \in ReceiveLocals
      /\ ~receiver.fragmentStart /\ receiver.totalReceived = 0
      /\ rTracker' \in Record
      /\ UNCHANGED <<sendVars, wire, rest, connVars>>
  BY FreshRecord DEF ReceiveStream, TypeInv, TypeOK, ReceiveLocals, ReceiverInv, wireVars
<1>5. /\ receiver' \in ReceiveLocals /\ receiver'.active
      /\ ~receiver'.fragmentStart /\ receiver'.totalReceived = 0
  BY <1>4 DEF ReceiveLocals
<1>6. ReceiverInv'
  <2>1. receives' # <<>> /\ Len(e.chunks) = 0
    BY <1>1, <1>3, EmptySeq
  <2> QED BY <1>3, <1>5, <2>1 DEF ReceiverInv, This
<1>7. SenderInv'
  BY <1>4 DEF TypeInv, SenderInv, Call, sendVars
<1>8. TypeOK'
  BY <1>3, <1>4, <1>5 DEF TypeInv, TypeOK, ReceiveEntry, ReceiveLocals, sendVars, connVars
<1> QED BY <1>3, <1>6, <1>7, <1>8 DEF TypeInv

(* The entry of the call under way is replaced.                            *)
LEMMA EntryReplaced ==
  ASSUME TypeInv, receiver.active, NEW e \in ReceiveEntry, receives' = [receives EXCEPT ![This] = e]
  PROVE  /\ receives' \in Seq(ReceiveEntry) /\ Len(receives') = Len(receives) /\ Len(receives) > 0
         /\ \A r \in 1..Len(receives) - 1 : receives'[r] = receives[r]
         /\ receives'[Len(receives)] = e
<1>1. receives \in Seq(ReceiveEntry) /\ receives # <<>> /\ Len(receives) > 0
  BY EmptySeq, LenProperties DEF TypeInv, TypeOK, ReceiveEntry, ReceiverInv
<1> QED BY <1>1, LastReplaced DEF This

(* A call of ReceiveStream returns.                                        *)
LEMMA ReceiveReturned ==
  ASSUME TypeInv, receiver.active, NEW e \in ReceiveEntry, NEW tracker \in Record,
         ReceiveReturn(e, tracker)
  PROVE  /\ receives' \in Seq(ReceiveEntry) /\ Len(receives') = Len(receives) /\ Len(receives) > 0
         /\ \A r \in 1..Len(receives) - 1 : receives'[r] = receives[r]
         /\ receives'[Len(receives)] = e
         /\ receiver' \in ReceiveLocals /\ ~receiver'.active /\ ReceiverInv'
         /\ rTracker' \in Record /\ rTracker' = Stop(tracker)
<1>1. receiver' \in ReceiveLocals /\ ~receiver'.active /\ ReceiverInv'
  BY DEF ReceiveReturn, ReceiveLocals, ReceiverInv
<1>2. rTracker' \in Record /\ rTracker' = Stop(tracker)
  BY SettledRecord DEF ReceiveReturn
<1>3. receives' = [receives EXCEPT ![This] = e]
  BY DEF ReceiveReturn
<1> QED BY <1>1, <1>2, <1>3, EntryReplaced

(* A read from the middle of a frame drops any number of frames.           *)
LEMMA AstrayTypes ==
  ASSUME TypeInv, ReadsAstray
  PROVE  /\ WireOK'
         /\ \E n \in 0..Len(wire) :
              /\ Len(wire') + n = Len(wire) /\ Len(wire') \in Nat
              /\ \A i \in 1..Len(wire') : wire'[i] = wire[i + n]
<1>1. wire \in Seq(Frames) /\ Len(wire) \in Nat /\ rest > 0 /\ rest \in 0..MaxRest
  BY LenProperties DEF TypeInv, TypeOK, ReadsAstray, Skips
<1>2. wire # <<>> /\ Len(wire) > 0
  BY <1>1, EmptySeq DEF TypeInv, TypeOK
<1>3. PICK n \in 0..Len(wire), r \in 0..MaxRest : Skips(n, r)
  BY DEF ReadsAstray
<1>4. /\ wire' = SubSeq(wire, n + 1, Len(wire)) /\ rest' = r
      /\ n = Len(wire) => r = 0
  BY <1>2, <1>3 DEF Skips
<1>5. /\ wire' \in Seq(Frames) /\ Len(wire') = Len(wire) - n
      /\ \A i \in 1..Len(wire) - n : wire'[i] = wire[i + n]
  BY <1>1, <1>4, FrontRemoved
<1>6. Len(wire') + n = Len(wire) /\ Len(wire') \in Nat
  BY <1>1, <1>5
<1>7. rest' > 0 => wire' # <<>>
  <2>1. rest' > 0 => Len(wire') # 0
    BY <1>1, <1>4, <1>5
  <2> QED BY <2>1, EmptySeq
<1> QED BY <1>4, <1>5, <1>6, <1>7 DEF WireOK

(* A read that fails leaves frames in flight.                              *)
LEMMA LeavesTypes ==
  ASSUME TypeInv, LeavesOff
  PROVE  WireOK'
<1>1. WireOK
  BY DEF TypeInv, TypeOK, WireOK
<1>2. CASE UNCHANGED wireVars
  BY <1>1, <1>2 DEF WireOK, wireVars
<1>3. CASE rest = 0 /\ wire # <<>> /\ rest' \in 1..MaxRest /\ UNCHANGED wire
  BY <1>1, <1>3 DEF WireOK
<1> QED BY <1>2, <1>3, AstrayTypes DEF LeavesOff

(* What the call under way has written so far, and the frame it reads.     *)
LEMMA ReadingTypes ==
  ASSUME TypeInv, receiver.active
  PROVE  /\ receives[This] \in ReceiveEntry /\ Reading \in ReceiveEntry
         /\ Reading.chunks = receives[This].chunks /\ Reading.result = receives[This].result
         /\ Reading.astray <=> receives[This].astray \/ rest > 0
         /\ \A result \in Results, ended \in Nat :
              Returned(Reading, result, ended) \in ReceiveEntry
         /\ \A f \in Frames :
              [Reading EXCEPT !.chunks = Append(@, Chunk(f))] \in ReceiveEntry
         /\ \A f : Reads(f) =>
              /\ f \in Frames /\ f \in Readable /\ WireOK'
              /\ UNCHANGED <<sendVars, connVars>>
<1>1. receives \in Seq(ReceiveEntry) /\ receives # <<>> /\ wire \in Seq(Frames)
  BY DEF TypeInv, TypeOK, ReceiveEntry, ReceiverInv
<1>2. This \in 1..Len(receives)
  BY <1>1, EmptySeq, LenProperties DEF This
<1>3. receives[This] \in ReceiveEntry
  BY <1>1, <1>2, ElementOfSeq
<1>4. PICK a \in BOOLEAN : a = (receives[This].astray \/ rest > 0)
  OBVIOUS
<1>5. Reading = [receives[This] EXCEPT !.astray = a]
  BY <1>4 DEF Reading
<1>6. /\ Reading \in ReceiveEntry /\ Reading.chunks = receives[This].chunks
      /\ Reading.result = receives[This].result /\ Reading.astray = a
  BY <1>3, <1>5 DEF ReceiveEntry
<1>7. ASSUME NEW result \in Results, NEW ended \in Nat
      PROVE  Returned(Reading, result, ended) \in ReceiveEntry
  BY <1>6 DEF Returned, ReceiveEntry
<1>8. ASSUME NEW f \in Frames
      PROVE  [Reading EXCEPT !.chunks = Append(@, Chunk(f))] \in ReceiveEntry
  <2>1. Chunk(f) \in Chunks
    BY DEF Chunk, Chunks, Frames
  <2>2. Append(Reading.chunks, Chunk(f)) \in Seq(Chunks)
    BY <1>6, <2>1, Appended DEF ReceiveEntry
  <2> QED BY <1>6, <2>2 DEF ReceiveEntry
<1>9. ASSUME NEW f, Reads(f)
      PROVE  f \in Frames /\ f \in Readable /\ WireOK' /\ UNCHANGED <<sendVars, connVars>>
  <2>1. wire # <<>> /\ f \in Readable /\ UNCHANGED <<sendVars, connVars>>
    BY <1>9 DEF Reads, Readable
  <2>2. CASE rest > 0
    <3>1. f \in Junk /\ ReadsAstray
      BY <1>9, <2>1, <2>2 DEF Reads, Readable
    <3>2. f \in Frames
      BY <3>1 DEF Junk, Frames
    <3> QED BY <2>1, <3>1, <3>2, AstrayTypes
  <2>3. CASE ~(rest > 0)
    <3>1. f = Head(wire) /\ wire' = Tail(wire) /\ rest' = rest /\ rest \in 0..MaxRest
      BY <1>9, <2>1, <2>3 DEF Reads, Readable, TypeInv, TypeOK
    <3>2. f \in Frames /\ wire' \in Seq(Frames)
      BY <1>1, <2>1, <3>1, HeadRemoved
    <3> QED BY <2>1, <2>3, <3>1, <3>2 DEF WireOK
  <2> QED BY <2>2, <2>3
<1> QED BY <1>3, <1>4, <1>6, <1>7, <1>8, <1>9

(* At the beginning of a frame the next one is read.                       *)
LEMMA ReadsNext ==
  ASSUME TypeInv, NEW f, Reads(f), rest = 0
  PROVE  /\ f \in Frames /\ f = wire[1] /\ f = Head(wire) /\ wire' = Tail(wire)
         /\ wire' \in Seq(Frames) /\ Len(wire') = Len(wire) - 1 /\ Len(wire) > 0
         /\ \A i \in 1..Len(wire) - 1 : wire'[i] = wire[i + 1]
         /\ wire # <<>> /\ rest' = 0
<1>1. wire \in Seq(Frames) /\ wire # <<>>
  BY DEF TypeInv, TypeOK, Reads, Readable
<1>2. f = Head(wire) /\ wire' = Tail(wire) /\ rest' = 0
  BY <1>1 DEF Reads, Readable
<1> QED BY <1>1, <1>2, HeadRemoved

(* A frame or an error ends the call.                                      *)
LEMMA ReceiveEndTypes ==
  ASSUME TypeInv,
         \/ \E f \in Readable : ReceiveViolation(f) \/ ReceiveEnd(f) \/ ReceiveWriteFails(f)
         \/ \E error \in AllFaults \cup {"garbled"} : ReceiveFails(error)
  PROVE  TypeInv'
<1>1. receiver.active /\ UNCHANGED <<sendVars, connVars>> /\ rTracker \in Record
  BY DEF ReceiveViolation, ReceiveEnd, ReceiveWriteFails, ReceiveFails, Reads, TypeInv, TypeOK
<1>2. /\ Complete(rTracker) \in Record /\ Fail(rTracker) \in Record
      /\ "ok" \in Results /\ 0 \in Nat
  BY <1>1, SettledRecord DEF Results
<1>3. /\ \E result \in Results, ended \in Nat, tracker \in Record :
           ReceiveReturn(Returned(Reading, result, ended), tracker)
      /\ WireOK'
  <2>1. ASSUME NEW f \in Readable, ReceiveViolation(f)
        PROVE  /\ ReceiveReturn(Returned(Reading, HandleError("protocol"), 0), rTracker)
               /\ HandleError("protocol") \in Results
               /\ WireOK'
    BY <1>1, <2>1, HandledErrors, ReadingTypes DEF ReceiveViolation
  <2>2. ASSUME NEW f \in Readable, ReceiveEnd(f)
        PROVE  /\ ReceiveReturn(Returned(Reading, "ok", f.call), Complete(rTracker))
               /\ f.call \in Nat
               /\ WireOK'
    <3>1. f \in Frames /\ WireOK'
      BY <1>1, <2>2, ReadingTypes DEF ReceiveEnd
    <3> QED BY <2>2, <3>1 DEF ReceiveEnd, Frames
  <2>3. ASSUME NEW f \in Readable, ReceiveWriteFails(f)
        PROVE  /\ ReceiveReturn(Returned(Reading, HandleError("writerError"), 0),
                                Fail(rTracker))
               /\ HandleError("writerError") \in Results
               /\ WireOK'
    BY <1>1, <2>3, HandledErrors, ReadingTypes DEF ReceiveWriteFails, AllFaults
  <2>4. ASSUME NEW error \in AllFaults \cup {"garbled"}, ReceiveFails(error)
        PROVE  /\ ReceiveReturn(Returned(Reading, HandleError(error), 0), Fail(rTracker))
               /\ HandleError(error) \in Results
               /\ WireOK'
    <3>1. LeavesOff
      BY <2>4 DEF ReceiveFails, ReadFails, LeavesOff
    <3> QED BY <2>4, <3>1, HandledErrors, LeavesTypes DEF ReceiveFails
  <2> QED BY <1>1, <1>2, <2>1, <2>2, <2>3, <2>4
<1>4. /\ receives' \in Seq(ReceiveEntry) /\ receiver' \in ReceiveLocals
      /\ rTracker' \in Record /\ ReceiverInv'
  <2>1. PICK result \in Results, ended \in Nat, tracker \in Record :
          ReceiveReturn(Returned(Reading, result, ended), tracker)
    BY <1>3
  <2>2. Returned(Reading, result, ended) \in ReceiveEntry
    BY <1>1, ReadingTypes
  <2> QED BY <1>1, <2>1, <2>2, ReceiveReturned
<1>5. SenderInv'
  BY <1>1 DEF TypeInv, SenderInv, Call, sendVars
<1>6. TypeOK'
  BY <1>1, <1>3, <1>4 DEF WireOK, TypeInv, TypeOK, ReceiveEntry, ReceiveLocals, sendVars, connVars
<1> QED BY <1>4, <1>5, <1>6 DEF TypeInv

(* A chunk is written.                                                     *)
LEMMA ReceiveChunkTypes ==
  ASSUME TypeInv, NEW f \in Readable, ReceiveChunk(f)
  PROVE  TypeInv'
<1> DEFINE n == receiver.totalReceived + 1
           c == receives[This].chunks
           e == [Reading EXCEPT !.chunks = Append(@, Chunk(f))]
<1>1. /\ receiver.active /\ receiver \in ReceiveLocals /\ rTracker \in Record /\ Reads(f)
      /\ receives[This].result = "open" /\ receiver.totalReceived = Len(c)
  BY DEF ReceiveChunk, Reads, TypeInv, TypeOK, ReceiveLocals, ReceiverInv
<1>2. /\ f \in Frames /\ WireOK' /\ UNCHANGED <<sendVars, connVars>>
      /\ Reading \in ReceiveEntry /\ receives[This] \in ReceiveEntry
      /\ Reading.chunks = c /\ Reading.result = "open"
  BY <1>1, ReadingTypes
<1>3. e \in ReceiveEntry
  BY <1>1, <1>2, ReadingTypes
<1>4. n \in Nat
  BY <1>1 DEF ReceiveLocals
<1>5. Received(n) \in Record /\ Complete(Received(n)) \in Record
  BY <1>1, <1>4, ReceivedRecord, SettledRecord
<1>6. /\ receives' \in Seq(ReceiveEntry) /\ receiver' \in ReceiveLocals
      /\ rTracker' \in Record /\ ReceiverInv'
  <2>1. CASE Ends(f)
    <3>1. ReceiveReturn(Returned(e, "ok", f.call), Complete(Received(n)))
      BY <2>1 DEF ReceiveChunk
    <3>2. Returned(e, "ok", f.call) \in ReceiveEntry
      BY <1>2, <1>3 DEF Returned, ReceiveEntry, Frames, Results
    <3> HIDE DEF e, n
    <3> QED BY <1>1, <1>5, <3>1, <3>2, ReceiveReturned
  <2>2. CASE ~Ends(f)
    <3>1. /\ receiver' = [active |-> TRUE, fragmentStart |-> TRUE, totalReceived |-> n]
          /\ rTracker' = Received(n)
          /\ receives' = [receives EXCEPT ![This] = e]
      BY <2>2 DEF ReceiveChunk
    <3>2. e.chunks = Append(c, Chunk(f)) /\ e.result = "open"
      BY <1>1, <1>2 DEF ReceiveEntry
    <3>3. c \in Seq(Chunks) /\ Chunk(f) \in Chunks
      BY <1>2 DEF ReceiveEntry, Chunk, Chunks, Frames
    <3>4. Len(Append(c, Chunk(f))) = n /\ Append(c, Chunk(f)) # <<>>
      <4>1. n = Len(c) + 1
        BY <1>1
      <4> HIDE DEF c, e, n
      <4>2. Append(c, Chunk(f)) \in Seq(Chunks) /\ Len(Append(c, Chunk(f))) = Len(c) + 1
        BY <3>3, Appended
      <4>3. Len(Append(c, Chunk(f))) = n /\ n > 0
        <5>1. Len(c) \in Nat
          BY <3>3, LenProperties
        <5> QED BY <4>1, <4>2, <5>1
      <4>4. Append(c, Chunk(f)) # <<>>
        <5>1. PICK d \in Seq(Chunks) : d = Append(c, Chunk(f))
          BY <4>2
        <5>2. Len(d) # 0
          BY <4>3, <5>1
        <5> QED BY <5>1, <5>2, EmptySeq
      <4> QED BY <4>3, <4>4
    <3> HIDE DEF e, n, c
    <3>5. /\ receives' \in Seq(ReceiveEntry) /\ Len(receives') = Len(receives) /\ Len(receives) > 0
          /\ receives'[Len(receives)] = e
      BY <1>1, <1>3, <3>1, EntryReplaced
    <3>6. receives' # <<>>
      BY <3>5, EmptySeq
    <3>7. ReceiverInv'
      BY <3>1, <3>2, <3>4, <3>5, <3>6 DEF ReceiverInv, This
    <3> QED BY <1>4, <1>5, <3>1, <3>5, <3>7 DEF ReceiveLocals
  <2> QED BY <2>1, <2>2
<1>7. SenderInv'
  BY <1>2 DEF TypeInv, SenderInv, Call, sendVars
<1>8. TypeOK'
  BY <1>2, <1>6 DEF WireOK, TypeInv, TypeOK, ReceiveEntry, ReceiveLocals, sendVars, connVars
<1> QED BY <1>6, <1>7, <1>8 DEF TypeInv

(* Bytes out of step are taken for the header of a frame that is empty, or *)
(* longer than all that has arrived.                                       *)
LEMMA ReceiveNothingTypes ==
  ASSUME TypeInv, ReceiveNothing
  PROVE  TypeInv'
<1>1. /\ receiver.active /\ receiver \in ReceiveLocals /\ ReadsAstray
      /\ receives[This].result = "open"
      /\ receiver.totalReceived = Len(receives[This].chunks)
      /\ receives[This].chunks # <<>> => receiver.fragmentStart
      /\ UNCHANGED <<sendVars, connVars, rTracker>>
  BY DEF ReceiveNothing, TypeInv, TypeOK, ReceiveLocals, ReceiverInv
<1>2. WireOK'
  BY <1>1, AstrayTypes
<1>3. PICK e \in ReceiveEntry : /\ e = Reading /\ e.result = "open"
                               /\ e.chunks = receives[This].chunks
  BY <1>1, ReadingTypes
<1>4. /\ receives' \in Seq(ReceiveEntry) /\ Len(receives') = Len(receives) /\ Len(receives) > 0
      /\ receives'[Len(receives)] = e
  <2>1. receives' = [receives EXCEPT ![This] = e]
    BY <1>3 DEF ReceiveNothing
  <2> QED BY <1>1, <2>1, EntryReplaced
<1>5. PICK first \in BOOLEAN : receiver' = [receiver EXCEPT !.fragmentStart = @ \/ first]
  BY DEF ReceiveNothing
<1>6. PICK a \in BOOLEAN : a = (receiver.fragmentStart \/ first)
  OBVIOUS
<1>7. receiver' = [receiver EXCEPT !.fragmentStart = a]
  BY <1>5, <1>6
<1>8. /\ receiver' \in ReceiveLocals /\ receiver'.active /\ receiver'.fragmentStart = a
      /\ receiver'.totalReceived = receiver.totalReceived
  BY <1>1, <1>7 DEF ReceiveLocals
<1>9. ReceiverInv'
  <2>1. receives' # <<>> /\ receives'[This'] = e
    BY <1>4, EmptySeq DEF This
  <2> QED BY <1>1, <1>3, <1>6, <1>8, <2>1 DEF ReceiverInv
<1>10. SenderInv'
  BY <1>1 DEF TypeInv, SenderInv, Call, sendVars
<1>11. TypeOK'
  BY <1>1, <1>2, <1>4, <1>8
     DEF WireOK, TypeInv, TypeOK, ReceiveEntry, ReceiveLocals, sendVars, connVars
<1> QED BY <1>9, <1>10, <1>11 DEF TypeInv

(* The connection loses frames, or is closed.                              *)
LEMMA ConnectionTypes ==
  ASSUME TypeInv, Reset \/ Close
  PROVE  TypeInv'
<1>1. WireOK' /\ UNCHANGED <<sendVars, recvVars>>
  <2>1. wire \in Seq(Frames) /\ WireOK
    BY DEF TypeInv, TypeOK, WireOK
  <2>2. CASE Reset
    <3>1. PICK n \in 0..Len(wire) :
            wire' = SubSeq(wire, 1, n) /\ rest' = IF n = 0 THEN 0 ELSE rest
      BY <2>2 DEF Reset
    <3>2. wire' \in Seq(Frames) /\ Len(wire') = n
      BY <2>1, <3>1, EndRemoved
    <3>3. n # 0 => wire' # <<>>
      BY <3>2, EmptySeq
    <3> QED BY <2>1, <2>2, <3>1, <3>2, <3>3 DEF Reset, WireOK
  <2>3. CASE Close
    BY <2>1, <2>3 DEF Close, WireOK, wireVars
  <2> QED BY <2>2, <2>3
<1>2. broken' \in BOOLEAN /\ shut' \in BOOLEAN
  BY DEF Reset, Close, TypeInv, TypeOK
<1>3. SenderInv' /\ ReceiverInv'
  BY <1>1 DEF TypeInv, SenderInv, ReceiverInv, Call, This, sendVars, recvVars
<1> QED BY <1>1, <1>2, <1>3 DEF WireOK, TypeInv, TypeOK, sendVars, recvVars

(* Nothing has been called yet.                                            *)
LEMMA InitTypes == Init => TypeInv
<1> SUFFICES ASSUME Init PROVE TypeInv
  OBVIOUS
<1>1. Fresh(0) \in Record
  BY FreshRecord
<1>2. sends \in Seq(SendEntry) /\ receives \in Seq(ReceiveEntry) /\ wire \in Seq(Frames)
  BY EmptySeq DEF Init
<1>3. TypeOK
  <2>1. rest \in 0..MaxRest /\ ~(rest > 0)
    BY DEF Init
  <2> QED BY <1>1, <1>2, <2>1 DEF Init, TypeOK, SendEntry, ReceiveEntry
<1> QED BY <1>3 DEF Init, TypeInv, SenderInv, ReceiverInv

(* Every step keeps the types.                                             *)
LEMMA NextTypes == TypeInv /\ [Next]_vars => TypeInv'
<1> SUFFICES ASSUME TypeInv, [Next]_vars PROVE TypeInv'
  OBVIOUS
<1>1. ASSUME NEW size \in Sizes, NEW known \in BOOLEAN, SendStream(size, known) PROVE TypeInv'
  BY <1>1, BeginSend
<1>2. CASE SendStep
  BY <1>2, SendChunkTypes, SendReturnTypes DEF SendStep
<1>3. CASE ReceiveStream
  BY <1>3, BeginReceive
<1>4. CASE ReceiveStep
  BY <1>4, ReceiveEndTypes, ReceiveChunkTypes, ReceiveNothingTypes DEF ReceiveStep
<1>5. CASE Reset \/ Close
  BY <1>5, ConnectionTypes
<1>6. CASE UNCHANGED vars
  BY <1>6 DEF vars, sendVars, wireVars, connVars, recvVars, TypeInv, TypeOK, SenderInv,
              ReceiverInv, Call, This
<1> QED BY <1>1, <1>2, <1>3, <1>4, <1>5, <1>6 DEF Next

(* The locals, records, frames and histories are well formed, whatever the *)
(* strategies of the error handlers.                                       *)
THEOREM TypeCorrect == Spec => []TypeOK
<1>1. TypeInv => TypeOK
  BY DEF TypeInv
<1> QED BY InitTypes, NextTypes, <1>1, PTL DEF Spec

-----------------------------------------------------------------------------
(* The trackers.                                                           *)

(* The sending end.                                                        *)
LEMMA SenderTrackedStep ==
  ASSUME NothingIgnored, TypeInv, SenderTracked,
         (\E size \in Sizes, known \in BOOLEAN : SendStream(size, known)) \/ SendStep
  PROVE  SenderTracked' /\ UNCHANGED recvVars
<1>1. sTracker \in Record /\ sender \in SendLocals /\ UNCHANGED recvVars
  BY DEF TypeInv, TypeOK, SendLocals, SendStream, SendStep, SendChunk, SendEnd, SendFails
<1>2. ASSUME NEW size \in Sizes, NEW known \in BOOLEAN, SendStream(size, known)
      PROVE  SenderTracked'
  <2>1. sTracker'.status = "Initializing" /\ ~sender.active
    BY <1>2, FreshRecord DEF SendStream
  <2>2. sender'.active /\ sender'.totalSent = 0
    BY <1>1, <1>2, <2>1 DEF SendStream, SendLocals, TypeInv, SenderInv
  <2> QED BY <2>1, <2>2 DEF SenderTracked, Moving
<1>3. ASSUME NEW result \in Results, NEW tracker \in Record, SendReturn(result, tracker),
             sender.active, result = "ok" /\ Size > 0 => tracker.status = "Completed"
      PROVE  SenderTracked'
  <2>1. /\ ~sender'.active /\ Len(sends') = Len(sends) /\ sTracker' = Stop(tracker)
        /\ sends'[Len(sends)] = [sends[Len(sends)] EXCEPT !.result = result]
        /\ sends \in Seq(SendEntry) /\ Len(sends) \in 1..Len(sends)
    <3>1. sends \in Seq(SendEntry) /\ Len(sends) > 0
      BY <1>3, SendReturned DEF TypeInv, TypeOK, SendEntry
    <3>2. Len(sends) \in 1..Len(sends)
      BY <3>1, LenProperties
    <3> QED BY <1>3, <3>1, <3>2, SendReturned
  <2>2. sends[Len(sends)] \in SendEntry
    BY <2>1, ElementOfSeq
  <2>3. sends'[Call'].result = result /\ Size' = Size
    BY <2>1, <2>2 DEF Call, Size, SendEntry
  <2>4. /\ sTracker'.status \in Terminal
        /\ tracker.status = "Completed" => sTracker'.status = "Completed"
    BY <2>1, SettledRecord
  <2> QED BY <1>3, <2>1, <2>3, <2>4 DEF SenderTracked
<1>4. CASE SendStep
  <2>1. sender.active /\ Moving(sTracker, sender.totalSent)
    BY <1>4 DEF SendStep, SendChunk, SendEnd, SendFails, SenderTracked
  <2>2. ASSUME NEW isLast \in BOOLEAN, SendChunk(isLast) PROVE SenderTracked'
    <3> DEFINE sent == sender.totalSent + 1
               p == Progress(sTracker, sent)
    <3>1. /\ sent \in Nat /\ sent # 0
      BY <1>1 DEF SendLocals
    <3>2. p \in Record /\ p.status \in {"Transferring", "Completed"}
      BY <1>1, <2>1, <3>1, ProgressRecord DEF Moving
    <3>3. CASE isLast
      <4>1. SendReturn("ok", Complete(p))
        BY <2>2, <3>3 DEF SendChunk
      <4>2. Complete(p) \in Record /\ Complete(p).status = "Completed"
        BY <3>2, SettledRecord
      <4> QED BY <1>3, <2>1, <4>1, <4>2 DEF Results
    <3>4. CASE ~isLast
      <4>1. /\ sender' = [active |-> TRUE, isFirstChunk |-> FALSE, totalSent |-> sent]
            /\ sTracker' = p
        BY <2>2, <3>4 DEF SendChunk
      <4> HIDE DEF p, sent
      <4> QED BY <3>1, <3>2, <4>1 DEF SenderTracked, Moving
    <3> QED BY <3>3, <3>4
  <2>3. CASE SendEnd
    <3>1. SendReturn("ok", Complete(sTracker)) /\ sender.totalSent = Size
      BY <2>3 DEF SendEnd
    <3>2. Complete(sTracker) \in Record
      BY <1>1, SettledRecord
    <3>3. Size > 0 => Complete(sTracker).status = "Completed"
      BY <1>1, <2>1, <3>1, SettledRecord DEF Moving
    <3> QED BY <1>1, <1>3, <2>1, <3>1, <3>2, <3>3 DEF Results
  <2>4. ASSUME NEW error \in AllFaults, SendFails(error) PROVE SenderTracked'
    <3>1. SendReturn(HandleError(error), Fail(sTracker)) /\ Fail(sTracker) \in Record
      BY <1>1, <2>4, SettledRecord DEF SendFails
    <3>2. HandleError(error) \in Results /\ HandleError(error) # "ok"
      BY HandledErrors
    <3> QED BY <1>3, <2>1, <3>1, <3>2
  <2> QED BY <1>1, <1>4, <2>2, <2>3, <2>4 DEF SendStep
<1> QED BY <1>1, <1>2, <1>4

(* The receiving end.                                                      *)
LEMMA ReceiverTrackedStep ==
  ASSUME NothingIgnored, TypeInv, ReceiverTracked, ReceiveStream \/ ReceiveStep
  PROVE  ReceiverTracked' /\ UNCHANGED sendVars
<1>1. rTracker \in Record /\ receiver \in ReceiveLocals /\ UNCHANGED sendVars
  BY DEF TypeInv, TypeOK, ReceiveLocals, ReceiveStream, ReceiveStep, ReceiveViolation, ReceiveChunk,
         ReceiveEnd, ReceiveWriteFails, ReceiveFails, ReceiveNothing, Reads
<1>2. CASE ReceiveStream
  <2>1. rTracker'.status = "Initializing" /\ ~receiver.active
    BY <1>2, FreshRecord DEF ReceiveStream
  <2>2. receiver'.active /\ receiver'.totalReceived = 0
    BY <1>1, <1>2, <2>1 DEF ReceiveStream, ReceiveLocals, TypeInv, ReceiverInv
  <2> QED BY <1>1, <2>1, <2>2 DEF ReceiverTracked, Moving
<1>3. ASSUME NEW e \in ReceiveEntry, NEW tracker \in Record, ReceiveReturn(e, tracker),
             receiver.active, e.result = "ok" /\ e.chunks # <<>> => tracker.status = "Completed"
      PROVE  ReceiverTracked'
  <2>1. /\ ~receiver'.active /\ rTracker' = Stop(tracker)
        /\ Len(receives') = Len(receives) /\ receives'[Len(receives)] = e
    BY <1>3, ReceiveReturned
  <2>2. receives'[This'] = e
    BY <2>1 DEF This
  <2>3. /\ rTracker'.status \in Terminal
        /\ tracker.status = "Completed" => rTracker'.status = "Completed"
    BY <2>1, SettledRecord
  <2> QED BY <1>3, <2>1, <2>2, <2>3 DEF ReceiverTracked
<1>4. CASE ReceiveStep
  <2> DEFINE c == receives[This].chunks
  <2>1. /\ receiver.active /\ Moving(rTracker, receiver.totalReceived)
        /\ receiver.totalReceived = Len(c) /\ receives[This] \in ReceiveEntry
        /\ Reading \in ReceiveEntry /\ Reading.chunks = c
    <3>1. receiver.active
      BY <1>4 DEF ReceiveStep, ReceiveViolation, ReceiveChunk, ReceiveEnd, ReceiveWriteFails,
                  ReceiveFails, ReceiveNothing, Reads
    <3> QED BY <3>1, ReadingTypes DEF ReceiverTracked, TypeInv, ReceiverInv
  <2>2. ASSUME NEW error \in AllFaults \cup {"protocol", "garbled"}, NEW tracker \in Record,
               ReceiveReturn(Returned(Reading, HandleError(error), 0), tracker)
        PROVE  ReceiverTracked'
    <3> DEFINE e == Returned(Reading, HandleError(error), 0)
    <3>1. HandleError(error) \in Results /\ HandleError(error) # "ok"
      BY HandledErrors
    <3>2. e \in ReceiveEntry
      BY <2>1, <3>1, ReadingTypes
    <3>3. e.result # "ok"
      BY <2>1, <3>1 DEF Returned, ReceiveEntry
    <3> HIDE DEF e
    <3>4. ReceiveReturn(e, tracker)
      BY <2>2 DEF e
    <3> QED BY <1>3, <2>1, <3>2, <3>3, <3>4
  <2>3. ASSUME NEW f \in Readable, ReceiveViolation(f) PROVE ReceiverTracked'
    BY <1>1, <2>2, <2>3 DEF ReceiveViolation
  <2>4. ASSUME NEW f \in Readable, ReceiveWriteFails(f) PROVE ReceiverTracked'
    <3>1. Fail(rTracker) \in Record
      BY <1>1, SettledRecord
    <3> QED BY <2>2, <2>4, <3>1 DEF ReceiveWriteFails, AllFaults
  <2>5. ASSUME NEW error \in AllFaults \cup {"garbled"}, ReceiveFails(error) PROVE ReceiverTracked'
    <3>1. Fail(rTracker) \in Record
      BY <1>1, SettledRecord
    <3> QED BY <2>2, <2>5, <3>1 DEF ReceiveFails
  <2>6. ASSUME NEW f \in Readable, ReceiveEnd(f) PROVE ReceiverTracked'
    <3> DEFINE e == Returned(Reading, "ok", f.call)
    <3>1. ReceiveReturn(e, Complete(rTracker)) /\ f \in Frames
      BY <2>1, <2>6, ReadingTypes DEF ReceiveEnd
    <3>2. e \in ReceiveEntry /\ e.chunks = c
      BY <2>1, <3>1 DEF Returned, ReceiveEntry, Frames, Results
    <3>3. Complete(rTracker) \in Record
      BY <1>1, SettledRecord
    <3>4. c # <<>> => Complete(rTracker).status = "Completed"
      <4>1. c # <<>> => receiver.totalReceived # 0
        BY <2>1, EmptySeq DEF ReceiveEntry
      <4> QED BY <1>1, <2>1, <4>1, SettledRecord DEF Moving
    <3> HIDE DEF e, c
    <3> QED BY <1>3, <2>1, <3>1, <3>2, <3>3, <3>4
  <2>7. ASSUME NEW f \in Readable, ReceiveChunk(f) PROVE ReceiverTracked'
    <3> DEFINE n == receiver.totalReceived + 1
               d == [Reading EXCEPT !.chunks = Append(@, Chunk(f))]
               e == Returned(d, "ok", f.call)
    <3>1. n \in Nat /\ n # 0
      BY <1>1 DEF ReceiveLocals
    <3>2. Received(n) \in Record /\ Received(n).status \in {"Transferring", "Completed"}
      BY <1>1, <2>1, <3>1, ReceivedRecord DEF Moving
    <3>3. CASE Ends(f)
      <4>1. ReceiveReturn(e, Complete(Received(n)))
        BY <2>7, <3>3 DEF ReceiveChunk
      <4>2. Complete(Received(n)) \in Record /\ Complete(Received(n)).status = "Completed"
        BY <3>2, SettledRecord
      <4>3. f \in Frames
        BY <2>1, <2>7, ReadingTypes DEF ReceiveChunk
      <4>4. d \in ReceiveEntry
        BY <2>1, <4>3, ReadingTypes
      <4>5. e \in ReceiveEntry
        BY <4>3, <4>4 DEF Returned, ReceiveEntry, Frames, Results
      <4> HIDE DEF e, d, n
      <4> QED BY <1>3, <2>1, <4>1, <4>2, <4>5
    <3>4. CASE ~Ends(f)
      <4>1. /\ receiver' = [active |-> TRUE, fragmentStart |-> TRUE, totalReceived |-> n]
            /\ rTracker' = Received(n)
        BY <2>7, <3>4 DEF ReceiveChunk
      <4> HIDE DEF n
      <4> QED BY <3>1, <3>2, <4>1 DEF ReceiverTracked, Moving
    <3> QED BY <3>3, <3>4
  <2>8. CASE ReceiveNothing
    <3>1. /\ receiver'.active /\ receiver'.totalReceived = receiver.totalReceived
          /\ rTracker' = rTracker
      <4>1. PICK seen : receiver' = [receiver EXCEPT !.fragmentStart = seen]
        BY <2>8 DEF ReceiveNothing
      <4>2. rTracker' = rTracker
        BY <2>8 DEF ReceiveNothing
      <4> QED BY <1>1, <2>1, <4>1, <4>2 DEF ReceiveLocals
    <3>2. Moving(rTracker, receiver.totalReceived)
      BY <2>1
    <3>3. Moving(rTracker, receiver.totalReceived)'
      BY <3>1, <3>2 DEF Moving
    <3> QED BY <1>1, <3>1, <3>3 DEF ReceiverTracked
  <2> QED BY <1>1, <1>4, <2>8, <2>3, <2>4, <2>5, <2>6, <2>7 DEF ReceiveStep
<1> QED BY <1>1, <1>2, <1>4

(* When a call has returned its transfer is finished in the tracker, and   *)
(* completed if the call succeeded and moved data: provided that no error  *)
(* passes for a success.                                                   *)
THEOREM TrackerIsSettled ==
  ASSUME NothingIgnored
  PROVE  Spec => []TrackerSettled
<1> DEFINE Inv == TypeInv /\ SenderTracked /\ ReceiverTracked
<1>1. Init => Inv
  <2>1. Init => SenderTracked /\ ReceiverTracked
    BY DEF Init, SenderTracked, ReceiverTracked
  <2> QED BY <2>1, InitTypes
<1>2. Inv /\ [Next]_vars => Inv'
  <2> SUFFICES ASSUME Inv, [Next]_vars PROVE Inv'
    OBVIOUS
  <2>1. TypeInv'
    BY NextTypes
  <2>2. UNCHANGED sendVars => SenderTracked'
    BY DEF sendVars, SenderTracked, Moving, Call, Size
  <2>3. UNCHANGED recvVars => ReceiverTracked'
    BY DEF recvVars, ReceiverTracked, Moving, This
  <2>4. CASE (\E size \in Sizes, known \in BOOLEAN : SendStream(size, known)) \/ SendStep
    BY <2>1, <2>3, <2>4, SenderTrackedStep
  <2>5. CASE ReceiveStream \/ ReceiveStep
    BY <2>1, <2>2, <2>5, ReceiverTrackedStep
  <2>6. CASE Reset \/ Close \/ UNCHANGED vars
    <3>1. UNCHANGED <<sendVars, recvVars>>
      BY <2>6 DEF Reset, Close, vars
    <3> QED BY <2>1, <2>2, <2>3, <3>1
  <2> QED BY <2>4, <2>5, <2>6 DEF Next
<1>3. Inv => TrackerSettled
  BY DEF SenderTracked, ReceiverTracked, TrackerSettled
<1> QED BY <1>1, <1>2, <1>3, PTL DEF Spec

-----------------------------------------------------------------------------
(* What the sender does to the streams in flight.                          *)

(* No call is forgotten, and a result stands.                              *)
Grows(old, new) ==
  /\ DOMAIN old \subseteq DOMAIN new
  /\ \A k \in DOMAIN old : /\ new[k].size = old[k].size
                           /\ old[k].result # "open" => new[k] = old[k]

SenderMoves ==
  /\ Grows(sends, sends') /\ UNCHANGED <<rest, connVars, recvVars>>
  /\ \A p \in Chunks : Sent(p) => Sent(p)'

(* A step of the sender that sends nothing.                                *)
QuietStep ==
  /\ SenderMoves /\ wire' = wire
  /\ \A k \in Nat, i \in Nat, last \in BOOLEAN : SentLast(k, i, last) => SentLast(k, i, last)'

(* A step that sends the frame g.                                          *)
SentStep(g) ==
  /\ SenderMoves /\ wire' = Append(wire, g) /\ ~broken
  /\ GoodFrame(sends', g)
  /\ SentLast(g.call, g.part, g.last)' /\ Sent(Chunk(g))'
  /\ \A p \in Chunks : Sent(p) => Ahead(p, g)
  /\ \A k \in Nat, i \in Nat, last \in BOOLEAN :
       SentLast(k, i, last) => NextTo(sends', k, i, last, g)

(* g is what the call under way has to send next, and ends it or not.      *)
SentPart(g) ==
  /\ sender.active /\ g.call = Call /\ Call' = Call
  /\ \/ g.part = sender.totalSent + 1
     \/ g.part = 0 /\ g.last /\ sender.totalSent = Size
  /\ IF g.last THEN ~sender'.active /\ sends'[Call].result = "ok"
               ELSE sender'.active /\ sender'.totalSent = g.part

(* A call that begins sends nothing.                                       *)
LEMMA BeginIsQuiet ==
  ASSUME TypeInv, NEW size \in Sizes, NEW known \in BOOLEAN, SendStream(size, known)
  PROVE  QuietStep
<1>1. /\ Len(sends') = Len(sends) + 1 /\ \A k \in 1..Len(sends) : sends'[k] = sends[k]
      /\ sends \in Seq(SendEntry) /\ sends' \in Seq(SendEntry)
  BY BeginSend DEF TypeInv, TypeOK, SendEntry
<1>2. Len(sends) \in Nat /\ DOMAIN sends = 1..Len(sends) /\ DOMAIN sends' = 1..Len(sends')
  BY <1>1, LenProperties
<1>3. Grows(sends, sends')
  <2>1. 1..Len(sends) \subseteq 1..Len(sends')
    BY <1>1, <1>2
  <2> QED BY <1>1, <1>2, <2>1 DEF Grows
<1>4. UNCHANGED <<wire, rest, connVars, recvVars>> /\ sender'.totalSent = 0
  BY DEF SendStream, TypeInv, TypeOK, SenderInv, wireVars
<1>5. ASSUME NEW p \in Chunks, Sent(p) PROVE Sent(p)'
  <2>1. p[1] \in Nat /\ p[2] \in Nat
    BY DEF Chunks
  <2> QED BY <1>1, <1>2, <1>5, <2>1 DEF Sent, Call
<1>6. ASSUME NEW k \in Nat, NEW i \in Nat, NEW last \in BOOLEAN, SentLast(k, i, last)
      PROVE  SentLast(k, i, last)'
  <2>1. Call \in Nat /\ Call' = Call + 1
    BY <1>1, <1>2 DEF Call
  <2>2. k <= Call
    BY <1>6 DEF SentLast
  <2>3. k < Call' /\ Call' \in Nat
    BY <2>1, <2>2
  <2> QED BY <1>4, <2>3 DEF SentLast
<1> QED BY <1>3, <1>4, <1>5, <1>6 DEF QuietStep, SenderMoves

(* A call that returns keeps the history of the others.                    *)
LEMMA ReturnMoves ==
  ASSUME TypeInv, sender.active, NEW result \in Results, NEW tracker \in Record,
         SendReturn(result, tracker), UNCHANGED <<rest, connVars, recvVars>>
  PROVE  SenderMoves /\ ~sender'.active /\ Call' = Call /\ sends'[Call].result = result
<1>1. /\ sends' \in Seq(SendEntry) /\ Len(sends') = Len(sends) /\ Len(sends) > 0
      /\ \A k \in 1..Len(sends) - 1 : sends'[k] = sends[k]
      /\ sends'[Len(sends)] = [sends[Len(sends)] EXCEPT !.result = result]
      /\ ~sender'.active
  BY SendReturned
<1>2. sends \in Seq(SendEntry) /\ sends[Len(sends)].result = "open"
  BY DEF TypeInv, TypeOK, SendEntry, SenderInv, Call
<1>3. /\ Len(sends) \in Nat /\ DOMAIN sends = 1..Len(sends) /\ DOMAIN sends' = 1..Len(sends')
      /\ sends[Len(sends)] \in SendEntry
  BY <1>1, <1>2, LenProperties, ElementOfSeq
<1>4. /\ sends'[Len(sends)].size = sends[Len(sends)].size
      /\ sends'[Len(sends)].result = result
  BY <1>1, <1>3 DEF SendEntry
<1>5. Grows(sends, sends')
  <2>1. \A k \in 1..Len(sends) : k = Len(sends) \/ k \in 1..Len(sends) - 1
    BY <1>3, UpTo
  <2> QED BY <1>1, <1>2, <1>3, <1>4, <2>1 DEF Grows
<1>6. ASSUME NEW p \in Chunks, Sent(p) PROVE Sent(p)'
  BY <1>1, <1>6 DEF Sent, Call
<1> QED BY <1>1, <1>4, <1>5, <1>6 DEF SenderMoves, Call

(* A call that fails sends nothing.                                        *)
LEMMA FailIsQuiet ==
  ASSUME TypeInv, NEW error \in AllFaults, SendFails(error)
  PROVE  QuietStep
<1>1. /\ sender.active /\ UNCHANGED <<wire, rest, connVars, recvVars>>
      /\ SendReturn(HandleError(error), Fail(sTracker)) /\ sTracker \in Record
  BY DEF SendFails, TypeInv, TypeOK, wireVars
<1>2. HandleError(error) \in Results /\ Fail(sTracker) \in Record
  BY <1>1, HandledErrors, SettledRecord
<1>3. SenderMoves /\ ~sender'.active /\ Call' = Call
  BY <1>1, <1>2, ReturnMoves
<1>4. ASSUME NEW k \in Nat, NEW i \in Nat, NEW last \in BOOLEAN, SentLast(k, i, last)
      PROVE  SentLast(k, i, last)'
  BY <1>3, <1>4 DEF SentLast
<1> QED BY <1>1, <1>3, <1>4 DEF QuietStep

(* A frame of the call under way that goes on where the sender was.        *)
LEMMA NextFrame ==
  ASSUME TypeInv, sender.active, NEW g \in Frames, g.call = Call,
         NEW calls, calls[Call].size = Size,
         \/ g.part = sender.totalSent + 1
         \/ g.part = 0 /\ sender.totalSent = Size
  PROVE  /\ \A p \in Chunks : Sent(p) => Ahead(p, g)
         /\ \A k \in Nat, i \in Nat, last \in BOOLEAN :
              SentLast(k, i, last) => NextTo(calls, k, i, last, g)
<1>1. Call \in Nat /\ sender.totalSent \in Nat
  BY LenProperties DEF Call, TypeInv, TypeOK
<1>2. ASSUME NEW p \in Chunks, Sent(p), g.part # 0 PROVE Before(p, Chunk(g))
  <2>1. p[1] \in Nat /\ p[2] \in Nat
    BY DEF Chunks
  <2>2. Chunk(g)[1] = Call /\ Chunk(g)[2] = sender.totalSent + 1
    BY <1>2 DEF Chunk
  <2> QED BY <1>1, <1>2, <2>1, <2>2 DEF Sent, Before
<1>3. ASSUME NEW k \in Nat, NEW i \in Nat, NEW last \in BOOLEAN, SentLast(k, i, last)
      PROVE  NextTo(calls, k, i, last, g)
  <2>1. CASE k = Call
    BY <1>1, <1>3, <2>1 DEF SentLast, NextTo
  <2>2. CASE k < Call
    BY <1>1, <1>3, <2>2 DEF SentLast, NextTo
  <2> QED BY <1>1, <1>3, <2>1, <2>2 DEF SentLast
<1> QED BY <1>2, <1>3 DEF Ahead

(* A chunk is sent.                                                        *)
LEMMA ChunkIsSent ==
  ASSUME TypeInv, NEW isLast \in BOOLEAN, SendChunk(isLast)
  PROVE  \E g \in Frames : SentStep(g) /\ SentPart(g)
<1> DEFINE sent == sender.totalSent + 1
<1>1. /\ sender \in SendLocals /\ sTracker \in Record /\ sender.active
      /\ sends \in Seq(SendEntry) /\ sends # <<>> /\ sends[Call].result = "open"
      /\ sender.isFirstChunk <=> sender.totalSent = 0
      /\ sender.totalSent < Size
      /\ isLast => sent = Size
      /\ ~broken /\ wire' = Append(wire, Frame(Call, sent, sender.isFirstChunk, isLast))
      /\ UNCHANGED <<rest, connVars, recvVars>>
  BY DEF SendChunk, AtEof, WriteFrame, TypeInv, TypeOK, SendLocals, SendEntry, SenderInv
<1>2. /\ sent \in Nat /\ sent > 0 /\ sender.totalSent \in Nat
      /\ Call \in DOMAIN sends /\ Call \in Nat /\ Size \in Nat /\ sends[Call] \in SendEntry
  <2>1. Call \in 1..Len(sends) /\ DOMAIN sends = 1..Len(sends)
    BY <1>1, EmptySeq, LenProperties DEF Call
  <2>2. sends[Call] \in SendEntry
    BY <1>1, <2>1, ElementOfSeq
  <2> QED BY <1>1, <2>1, <2>2 DEF SendLocals, SendEntry, Size
<1>3. PICK g \in Frames : g = Frame(Call, sent, sender.isFirstChunk, isLast)
  BY <1>1, <1>2 DEF Frame, Frames, SendLocals
<1>4. g.call = Call /\ g.part = sent /\ g.last = isLast /\ (g.first <=> sent = 1)
  BY <1>1, <1>2, <1>3 DEF Frame
<1>5. sent <= Size
  BY <1>1, <1>2
<1>6. /\ SenderMoves /\ Call' = Call /\ sends'[Call].size = Size
      /\ isLast => ~sender'.active /\ sends'[Call].result = "ok"
      /\ ~isLast => sender'.active /\ sender'.totalSent = sent
  <2>1. CASE isLast
    <3>1. SendReturn("ok", Complete(Progress(sTracker, sent)))
      BY <2>1 DEF SendChunk
    <3>2. Complete(Progress(sTracker, sent)) \in Record /\ "ok" \in Results
      BY <1>1, <1>2, ProgressRecord, SettledRecord DEF Results
    <3>3. SenderMoves /\ ~sender'.active /\ Call' = Call /\ sends'[Call].result = "ok"
      BY <1>1, <3>1, <3>2, ReturnMoves
    <3> QED BY <1>2, <2>1, <3>3 DEF SenderMoves, Grows, Size
  <2>2. CASE ~isLast
    <3>1. /\ sender' = [active |-> TRUE, isFirstChunk |-> FALSE, totalSent |-> sent]
          /\ sends' = sends
      BY <2>2 DEF SendChunk
    <3>2. ASSUME NEW p \in Chunks, Sent(p) PROVE Sent(p)'
      <4>1. p[1] \in Nat /\ p[2] \in Nat
        BY DEF Chunks
      <4> QED BY <1>1, <1>2, <3>1, <3>2, <4>1 DEF Sent, Call
    <3> QED BY <1>1, <2>2, <3>1, <3>2 DEF SenderMoves, Grows, Call, Size
  <2> QED BY <2>1, <2>2
<1>7. GoodFrame(sends', g)
  <2>1. Call \in DOMAIN sends'
    BY <1>2, <1>6 DEF SenderMoves, Grows
  <2> HIDE DEF sent
  <2> QED BY <1>1, <1>2, <1>4, <1>5, <1>6, <2>1 DEF GoodFrame
<1>8. SentLast(g.call, g.part, g.last)' /\ Sent(Chunk(g))'
  <2>1. Chunk(g)[1] = Call /\ Chunk(g)[2] = sent
    BY <1>4 DEF Chunk
  <2> HIDE DEF sent
  <2> QED BY <1>2, <1>4, <1>6, <2>1 DEF SentLast, Sent
<1>9. /\ \A p \in Chunks : Sent(p) => Ahead(p, g)
      /\ \A k \in Nat, i \in Nat, last \in BOOLEAN :
           SentLast(k, i, last) => NextTo(sends', k, i, last, g)
  BY <1>1, <1>4, <1>6, NextFrame
<1>10. wire' = Append(wire, g) /\ ~broken
  BY <1>1, <1>3
<1>11. SentPart(g)
  <2> HIDE DEF sent
  <2>1. sent = sender.totalSent + 1
    BY DEF sent
  <2> QED BY <1>1, <1>4, <1>6, <2>1 DEF SentPart
<1> QED BY <1>3, <1>6, <1>7, <1>8, <1>9, <1>10, <1>11 DEF SentStep

(* The end of a stream is sent.                                            *)
LEMMA EndIsSent ==
  ASSUME TypeInv, SendEnd
  PROVE  \E g \in Frames : SentStep(g) /\ SentPart(g)
<1>1. /\ sTracker \in Record /\ sender.active /\ SendReturn("ok", Complete(sTracker))
      /\ sends \in Seq(SendEntry) /\ sends # <<>> /\ sender.totalSent = Size
      /\ ~broken /\ wire' = Append(wire, Frame(Call, 0, FALSE, TRUE))
      /\ UNCHANGED <<rest, connVars, recvVars>>
  BY DEF SendEnd, WriteFrame, TypeInv, TypeOK, SendEntry, SenderInv
<1>2. Call \in DOMAIN sends /\ Call \in Nat /\ Size \in Nat
  <2>1. Call \in 1..Len(sends) /\ DOMAIN sends = 1..Len(sends)
    BY <1>1, EmptySeq, LenProperties DEF Call
  <2>2. sends[Call] \in SendEntry
    BY <1>1, <2>1, ElementOfSeq
  <2> QED BY <2>1, <2>2 DEF SendEntry, Size
<1>3. PICK g \in Frames : g = Frame(Call, 0, FALSE, TRUE)
  BY <1>2 DEF Frame, Frames
<1>4. g.call = Call /\ g.part = 0 /\ g.last /\ ~g.first
  BY <1>3 DEF Frame
<1>5. SenderMoves /\ ~sender'.active /\ Call' = Call /\ sends'[Call].result = "ok"
  <2>1. Complete(sTracker) \in Record /\ "ok" \in Results
    BY <1>1, SettledRecord DEF Results
  <2> QED BY <1>1, <2>1, ReturnMoves
<1>6. Call \in DOMAIN sends' /\ sends'[Call].size = Size
  BY <1>2, <1>5 DEF SenderMoves, Grows, Size
<1>7. GoodFrame(sends', g)
  BY <1>2, <1>4, <1>5, <1>6 DEF GoodFrame
<1>8. SentLast(g.call, g.part, g.last)' /\ Sent(Chunk(g))'
  <2>1. Chunk(g)[1] = Call
    BY <1>4 DEF Chunk
  <2> QED BY <1>2, <1>4, <1>5, <2>1 DEF SentLast, Sent
<1>9. /\ \A p \in Chunks : Sent(p) => Ahead(p, g)
      /\ \A k \in Nat, i \in Nat, last \in BOOLEAN :
           SentLast(k, i, last) => NextTo(sends', k, i, last, g)
  BY <1>1, <1>4, <1>6, NextFrame
<1>10. wire' = Append(wire, g) /\ ~broken
  BY <1>1, <1>3
<1>11. SentPart(g)
  BY <1>1, <1>4, <1>5 DEF SentPart
<1> QED BY <1>3, <1>5, <1>7, <1>8, <1>9, <1>10, <1>11 DEF SentStep

-----------------------------------------------------------------------------
(* The streams in flight stay in order when the sender moves.              *)

StreamInv == WireInv /\ OrderInv /\ HeldInv /\ ResultInv

(* Frames and results stay good when the history grows.                    *)
LEMMA Stays ==
  ASSUME NEW old, NEW new, Grows(old, new)
  PROVE  /\ \A f \in Frames : GoodFrame(old, f) => GoodFrame(new, f)
         /\ \A e \in ReceiveEntry : Whole(old, e) => Whole(new, e)
         /\ \A k \in DOMAIN old : \A i, last, g :
              g.call \in DOMAIN old /\ NextTo(old, k, i, last, g) => NextTo(new, k, i, last, g)
<1>1. ASSUME NEW f \in Frames, GoodFrame(old, f) PROVE GoodFrame(new, f)
  BY <1>1 DEF Grows, GoodFrame
<1>2. ASSUME NEW e \in ReceiveEntry, Whole(old, e) PROVE Whole(new, e)
  BY <1>2 DEF Grows, Whole
<1>3. ASSUME NEW k \in DOMAIN old, NEW i, NEW last, NEW g,
             g.call \in DOMAIN old, NextTo(old, k, i, last, g)
      PROVE  NextTo(new, k, i, last, g)
  BY <1>3 DEF Grows, NextTo
<1> QED BY <1>1, <1>2, <1>3

(* What the sequences hold.                                                *)
LEMMA Elements ==
  ASSUME TypeInv
  PROVE  /\ \A i \in 1..Len(wire) : wire[i] \in Frames /\ Chunk(wire[i]) \in Chunks
         /\ \A r \in 1..Len(receives) : receives[r] \in ReceiveEntry
         /\ \A r \in 1..Len(receives) : \A i \in 1..Len(receives[r].chunks) :
              receives[r].chunks[i] \in Chunks
         /\ Len(wire) \in Nat /\ Len(receives) \in Nat /\ Call \in Nat
         /\ wire # <<>> => Len(wire) > 0
<1>1. wire \in Seq(Frames) /\ receives \in Seq(ReceiveEntry) /\ sends \in Seq(SendEntry)
  BY DEF TypeInv, TypeOK, ReceiveEntry, SendEntry
<1>2. ASSUME NEW i \in 1..Len(wire) PROVE wire[i] \in Frames /\ Chunk(wire[i]) \in Chunks
  <2>1. wire[i] \in Frames
    BY <1>1, ElementOfSeq
  <2> QED BY <2>1 DEF Chunk, Chunks, Frames
<1>3. ASSUME NEW r \in 1..Len(receives) PROVE receives[r] \in ReceiveEntry
  BY <1>1, ElementOfSeq
<1>4. ASSUME NEW r \in 1..Len(receives), NEW i \in 1..Len(receives[r].chunks)
      PROVE  receives[r].chunks[i] \in Chunks
  <2>1. receives[r].chunks \in Seq(Chunks)
    BY <1>3 DEF ReceiveEntry
  <2> QED BY <2>1, ElementOfSeq
<1>5. /\ Len(wire) \in Nat /\ Len(receives) \in Nat /\ Call \in Nat
      /\ wire # <<>> => Len(wire) > 0
  BY <1>1, LenProperties, EmptySeq DEF Call
<1> QED BY <1>2, <1>3, <1>4, <1>5

(* What was held stays so.                                                 *)
LEMMA ResultsStay ==
  ASSUME TypeInv, ResultInv, SenderMoves
  PROVE  ResultInv'
<1>1. receives' = receives /\ Grows(sends, sends') /\ InStep' = InStep
  BY DEF SenderMoves, recvVars, InStep
<1>2. \A r \in InStep : Whole(sends', receives[r])
  BY <1>1, Stays, Elements DEF ResultInv, InStep
<1> QED BY <1>1, <1>2 DEF ResultInv

(* A step that sends nothing.                                              *)
LEMMA QuietKeeps ==
  ASSUME TypeInv, StreamInv, QuietStep
  PROVE  StreamInv'
<1>1. /\ wire' = wire /\ receives' = receives /\ receiver' = receiver /\ broken' = broken
      /\ Grows(sends, sends')
      /\ WireInv /\ OrderInv /\ HeldInv /\ InStep' = InStep
  BY DEF QuietStep, SenderMoves, recvVars, connVars, StreamInv, InStep
<1>2. \A i \in 1..Len(wire) : wire[i].call \in DOMAIN sends
  BY <1>1 DEF WireInv, GoodFrame
<1>3. WireInv'
  <2>1. \A i \in 1..Len(wire) : GoodFrame(sends', wire[i])
    BY <1>1, Stays, Elements DEF WireInv
  <2>2. \A i \in 1..Len(wire) - 1 : FrameAfter(sends', wire[i], wire[i + 1])
    <3> SUFFICES ASSUME NEW i \in 1..Len(wire) - 1
                 PROVE  FrameAfter(sends', wire[i], wire[i + 1])
      OBVIOUS
    <3>1. i \in 1..Len(wire) /\ i + 1 \in 1..Len(wire)
      BY Elements
    <3>2. FrameAfter(sends, wire[i], wire[i + 1])
      BY <1>1 DEF WireInv
    <3> QED BY <1>1, <1>2, <3>1, <3>2, Stays DEF FrameAfter
  <2>3. ~broken /\ wire # <<>> => LastFrame(wire[Len(wire)])'
    <3> SUFFICES ASSUME ~broken, wire # <<>> PROVE LastFrame(wire[Len(wire)])'
      OBVIOUS
    <3>1. PICK f \in Frames : f = wire[Len(wire)]
      BY Elements
    <3>2. SentLast(f.call, f.part, f.last)
      BY <1>1, <3>1 DEF WireInv, LastFrame
    <3>3. SentLast(f.call, f.part, f.last)'
      BY <3>2 DEF QuietStep, Frames
    <3>4. f = wire'[Len(wire')]
      BY <1>1, <3>1
    <3> QED BY <3>3, <3>4 DEF LastFrame, SentLast
  <2> QED BY <1>1, <2>1, <2>2, <2>3 DEF WireInv
<1>4. OrderInv'
  <2>1. \A p \in Chunks : Sent(p) => Sent(p)'
    BY DEF QuietStep, SenderMoves
  <2>2. /\ \A i \in 1..Len(wire) : Sent(Chunk(wire[i]))'
        /\ \A r \in InStep : \A i \in 1..Len(receives[r].chunks) :
             Sent(receives[r].chunks[i])'
    <3>1. ASSUME NEW i \in 1..Len(wire) PROVE Sent(Chunk(wire[i]))'
      <4>1. PICK p \in Chunks : p = Chunk(wire[i])
        BY Elements
      <4>2. Sent(p)'
        BY <1>1, <2>1, <4>1 DEF OrderInv, WireOrder, BeforeWire
      <4> QED BY <1>1, <4>1, <4>2 DEF Sent, Chunk
    <3>2. ASSUME NEW r \in InStep, NEW i \in 1..Len(receives[r].chunks)
          PROVE  Sent(receives[r].chunks[i])'
      <4>1. PICK p \in Chunks : p = receives[r].chunks[i]
        BY Elements DEF InStep
      <4>2. Sent(p)'
        BY <1>1, <2>1, <4>1 DEF OrderInv, WireOrder, BeforeWire
      <4> QED BY <1>1, <4>1, <4>2 DEF Sent
    <3> QED BY <3>1, <3>2
  <2> QED BY <1>1, <2>2 DEF OrderInv, WireOrder, BeforeWire, Ahead, Chunk
<1>5. HeldInv'
  <2> SUFFICES ASSUME receiver.active, receiver.fragmentStart,
                      ~receives[This].astray
               PROVE  \E k, i \in Nat : LastIs(k, i)' /\ Held(k, i)'
    BY <1>1 DEF HeldInv, This
  <2>1. PICK k, i \in Nat : LastIs(k, i) /\ Held(k, i)
    BY <1>1 DEF HeldInv
  <2>2. wire # <<>> => wire[1].call \in DOMAIN sends
    BY <1>2, Elements
  <2>3. Held(k, i)'
    <3>1. k \in DOMAIN sends' /\ (wire # <<>> => NextTo(sends', k, i, FALSE, wire[1]))
      BY <1>1, <2>1, <2>2, Stays DEF Held, Grows
    <3>2. wire = <<>> /\ ~broken => SentLast(k, i, FALSE)'
      BY <2>1 DEF Held, QuietStep
    <3>3. This' = This
      BY <1>1 DEF This
    <3> QED BY <1>1, <2>1, <3>1, <3>2, <3>3 DEF Held
  <2>4. LastIs(k, i)'
    BY <1>1, <2>1 DEF LastIs, This
  <2> QED BY <2>3, <2>4
<1>6. ResultInv'
  BY ResultsStay DEF QuietStep, StreamInv
<1> QED BY <1>3, <1>4, <1>5, <1>6 DEF StreamInv

(* A step that sends a frame.                                              *)
LEMMA SentKeeps ==
  ASSUME TypeInv, StreamInv, NEW g \in Frames, SentStep(g)
  PROVE  StreamInv'
<1>1. /\ receives' = receives /\ receiver' = receiver /\ ~broken /\ ~broken'
      /\ Grows(sends, sends') /\ GoodFrame(sends', g)
      /\ WireInv /\ OrderInv /\ HeldInv /\ InStep' = InStep
  BY DEF SentStep, SenderMoves, recvVars, connVars, StreamInv, InStep
<1>2. /\ Len(wire) \in Nat /\ Len(wire') = Len(wire) + 1 /\ wire'[Len(wire) + 1] = g
      /\ \A i \in 1..Len(wire) : wire'[i] = wire[i]
      /\ wire = <<>> <=> Len(wire) = 0
      /\ wire' # <<>>
  <2>1. wire \in Seq(Frames) /\ wire' = Append(wire, g)
    BY DEF TypeInv, TypeOK, SentStep
  <2>2. /\ wire' \in Seq(Frames) /\ Len(wire') = Len(wire) + 1 /\ wire'[Len(wire) + 1] = g
        /\ \A i \in 1..Len(wire) : wire'[i] = wire[i]
    BY <2>1, Appended
  <2>3. Len(wire) \in Nat /\ (wire = <<>> <=> Len(wire) = 0)
    BY <2>1, EmptySeq, LenProperties
  <2>4. Len(wire') # 0
    BY <2>2, <2>3
  <2> QED BY <2>2, <2>3, <2>4, EmptySeq
<1>3. \A i \in 1..Len(wire) : wire[i].call \in DOMAIN sends /\ wire[i] \in Frames
  BY <1>1, Elements DEF WireInv, GoodFrame
<1>4. \A i \in 1..Len(wire') : i = Len(wire) + 1 \/ i \in 1..Len(wire)
  BY <1>2
<1>5. WireInv'
  <2>1. \A i \in 1..Len(wire') : GoodFrame(sends', wire'[i])
    <3>1. \A i \in 1..Len(wire) : GoodFrame(sends', wire[i])
      BY <1>1, Stays, Elements DEF WireInv
    <3> QED BY <1>1, <1>2, <1>4, <3>1
  <2>2. \A i \in 1..Len(wire') - 1 : FrameAfter(sends', wire'[i], wire'[i + 1])
    <3> SUFFICES ASSUME NEW i \in 1..Len(wire)
                 PROVE  FrameAfter(sends', wire'[i], wire'[i + 1])
      BY <1>2
    <3>1. CASE i = Len(wire)
      <4>1. SentLast(wire[i].call, wire[i].part, wire[i].last)
        BY <1>1, <1>2, <3>1 DEF WireInv, LastFrame
      <4>2. NextTo(sends', wire[i].call, wire[i].part, wire[i].last, g)
        BY <1>3, <4>1 DEF SentStep, Frames
      <4> QED BY <1>2, <3>1, <4>2 DEF FrameAfter
    <3>2. CASE i # Len(wire)
      <4>1. i \in 1..Len(wire) - 1 /\ i + 1 \in 1..Len(wire)
        BY <1>2, <3>2
      <4>2. FrameAfter(sends, wire[i], wire[i + 1])
        BY <1>1, <4>1 DEF WireInv
      <4>3. FrameAfter(sends', wire[i], wire[i + 1])
        BY <1>1, <1>3, <4>1, <4>2, Stays DEF FrameAfter
      <4> QED BY <1>2, <4>1, <4>3
    <3> QED BY <3>1, <3>2
  <2>3. LastFrame(wire[Len(wire)])'
    BY <1>2 DEF LastFrame, SentLast, SentStep
  <2> QED BY <2>1, <2>2, <2>3 DEF WireInv
<1>6. OrderInv'
  <2>1. /\ \A p \in Chunks : Sent(p) => Sent(p)' /\ Ahead(p, g)
        /\ Sent(Chunk(g))'
    BY DEF SentStep, SenderMoves
  <2>2. \A i \in 1..Len(wire) :
          /\ Sent(Chunk(wire[i]))'
          /\ Ahead(Chunk(wire[i]), g)
    <3> SUFFICES ASSUME NEW i \in 1..Len(wire)
                 PROVE  Sent(Chunk(wire[i]))' /\ Ahead(Chunk(wire[i]), g)
      OBVIOUS
    <3>1. PICK p \in Chunks : p = Chunk(wire[i])
      BY Elements
    <3>2. Sent(p)' /\ Ahead(p, g)
      BY <1>1, <2>1, <3>1 DEF OrderInv, WireOrder, BeforeWire
    <3>3. p = Chunk(wire'[i])
      BY <1>2, <3>1
    <3> QED BY <3>1, <3>2, <3>3 DEF Sent, Chunk
  <2>3. \A r \in InStep : \A i \in 1..Len(receives[r].chunks) :
          /\ Sent(receives[r].chunks[i])'
          /\ Ahead(receives[r].chunks[i], g)
    <3> SUFFICES ASSUME NEW r \in InStep, NEW i \in 1..Len(receives[r].chunks)
                 PROVE  Sent(receives[r].chunks[i])' /\ Ahead(receives[r].chunks[i], g)
      OBVIOUS
    <3>1. PICK p \in Chunks : p = receives[r].chunks[i]
      BY Elements DEF InStep
    <3>2. Sent(p)' /\ Ahead(p, g)
      BY <1>1, <2>1, <3>1 DEF OrderInv, WireOrder, BeforeWire
    <3> QED BY <1>1, <3>1, <3>2 DEF Sent
  <2>4. \A i \in 1..Len(wire') : Sent(Chunk(wire[i]))'
    <3>1. ASSUME NEW i \in 1..Len(wire'), i = Len(wire) + 1 PROVE Sent(Chunk(wire[i]))'
      <4>1. wire'[i] = g
        BY <1>2, <3>1
      <4> QED BY <2>1, <4>1 DEF Sent, Chunk
    <3> QED BY <1>4, <2>2, <3>1
  <2>5. \A i, j \in 1..Len(wire') : i < j => Ahead(Chunk(wire'[i]), wire'[j])
    <3> SUFFICES ASSUME NEW i \in 1..Len(wire'), NEW j \in 1..Len(wire'), i < j
                 PROVE  Ahead(Chunk(wire'[i]), wire'[j])
      OBVIOUS
    <3>1. i \in 1..Len(wire)
      BY <1>2
    <3>2. CASE j = Len(wire) + 1
      BY <1>2, <2>2, <3>1, <3>2
    <3>3. CASE j \in 1..Len(wire)
      BY <1>1, <1>2, <3>1, <3>3 DEF OrderInv, WireOrder, BeforeWire
    <3> QED BY <1>4, <3>2, <3>3
  <2>6. \A r \in InStep : \A i \in 1..Len(receives[r].chunks) :
          \A j \in 1..Len(wire') : Ahead(receives[r].chunks[i], wire'[j])
    BY <1>1, <1>2, <1>4, <2>3 DEF OrderInv, WireOrder, BeforeWire
  <2>7. \A r \in InStep : \A i \in 1..Len(receives'[r].chunks) :
          /\ Sent(receives[r].chunks[i])'
          /\ \A j \in 1..Len(wire') : Ahead(receives'[r].chunks[i], wire'[j])
    BY <1>1, <2>3, <2>6
  <2> QED BY <1>1, <2>4, <2>5, <2>7 DEF OrderInv, WireOrder, BeforeWire, Ahead, Chunk
<1>7. HeldInv'
  <2> SUFFICES ASSUME receiver.active, receiver.fragmentStart,
                      ~receives[This].astray
               PROVE  \E k, i \in Nat : LastIs(k, i)' /\ Held(k, i)'
    BY <1>1 DEF HeldInv, This
  <2>1. PICK k, i \in Nat : LastIs(k, i) /\ Held(k, i)
    BY <1>1 DEF HeldInv
  <2>2. k \in DOMAIN sends'
    BY <1>1, <2>1 DEF Held, Grows
  <2>3. NextTo(sends', k, i, FALSE, wire'[1])
    <3>1. CASE wire = <<>>
      <4>1. SentLast(k, i, FALSE)
        BY <1>1, <2>1, <3>1 DEF Held
      <4>2. NextTo(sends', k, i, FALSE, g)
        BY <4>1 DEF SentStep
      <4>3. Len(wire) + 1 = 1
        BY <1>2, <3>1
      <4>4. wire'[1] = g
        BY <1>2, <4>3
      <4> QED BY <4>2, <4>4
    <3>2. CASE wire # <<>>
      <4>1. 1 \in 1..Len(wire)
        BY <1>2, <3>2
      <4>2. NextTo(sends, k, i, FALSE, wire[1]) /\ k \in DOMAIN sends
        BY <2>1, <3>2 DEF Held
      <4> QED BY <1>1, <1>3, <1>2, <4>1, <4>2, Stays
    <3> QED BY <3>1, <3>2
  <2>4. This' = This
    BY <1>1 DEF This
  <2>5. Held(k, i)'
    BY <1>1, <1>2, <2>1, <2>2, <2>3, <2>4 DEF Held
  <2>6. LastIs(k, i)'
    BY <1>1, <2>1 DEF LastIs, This
  <2> QED BY <2>5, <2>6
<1>8. ResultInv'
  BY ResultsStay DEF SentStep, StreamInv
<1> QED BY <1>5, <1>6, <1>7, <1>8 DEF StreamInv

-----------------------------------------------------------------------------
(* The streams stay in order when frames are read or lost.                 *)

(* The wire loses frames at its ends, or none.                             *)
LEMMA PartOfWire ==
  ASSUME TypeInv, WireInv, OrderInv, UNCHANGED sendVars,
         NEW off \in Nat, Len(wire') \in Nat, Len(wire') + off <= Len(wire),
         \A i \in 1..Len(wire') : wire'[i] = wire[i + off],
         wire' # <<>> => Len(wire') > 0,
         ~broken' => ~broken /\ Len(wire') + off = Len(wire)
  PROVE  /\ WireInv' /\ WireOrder'
         /\ \A c : BeforeWire(c) => BeforeWire(c)'
<1>1. Len(wire) \in Nat /\ wire # <<>> => Len(wire) > 0
  BY Elements
<1>2. \A i \in 1..Len(wire') : i + off \in 1..Len(wire) /\ wire'[i] = wire[i + off]
  BY <1>1
<1>3. sends' = sends /\ sender' = sender /\ Call' = Call
  BY DEF sendVars, Call
<1>4. WireInv'
  <2>1. \A i \in 1..Len(wire') : GoodFrame(sends, wire'[i])
    BY <1>2 DEF WireInv
  <2>2. \A i \in 1..Len(wire') - 1 : FrameAfter(sends, wire'[i], wire'[i + 1])
    <3> SUFFICES ASSUME NEW i \in 1..Len(wire') - 1
                 PROVE  FrameAfter(sends, wire'[i], wire'[i + 1])
      OBVIOUS
    <3>1. /\ i \in 1..Len(wire') /\ i + 1 \in 1..Len(wire') /\ i + off \in 1..Len(wire) - 1
          /\ (i + off) + 1 = (i + 1) + off
      BY <1>1
    <3>2. FrameAfter(sends, wire[i + off], wire[(i + off) + 1])
      BY <3>1 DEF WireInv
    <3> QED BY <3>1, <3>2
  <2>3. ~broken' /\ wire' # <<>> => LastFrame(wire[Len(wire)])'
    <3> SUFFICES ASSUME ~broken', wire' # <<>> PROVE LastFrame(wire[Len(wire)])'
      OBVIOUS
    <3>1. Len(wire') \in 1..Len(wire') /\ Len(wire') + off = Len(wire)
      OBVIOUS
    <3>2. wire'[Len(wire')] = wire[Len(wire)]
      BY <3>1
    <3>3. wire # <<>>
      <4>1. Len(wire) # 0
        BY <3>1
      <4> QED BY <4>1, EmptySeq
    <3>4. LastFrame(wire[Len(wire)])
      BY <3>3 DEF WireInv
    <3> QED BY <1>3, <3>2, <3>4 DEF LastFrame, SentLast
  <2> QED BY <1>3, <2>1, <2>2, <2>3 DEF WireInv
<1>5. WireOrder'
  <2>1. \A i \in 1..Len(wire') : Sent(Chunk(wire[i]))'
    <3> SUFFICES ASSUME NEW i \in 1..Len(wire') PROVE Sent(Chunk(wire[i]))'
      OBVIOUS
    <3>1. Sent(Chunk(wire[i + off])) /\ wire'[i] = wire[i + off]
      BY <1>2 DEF OrderInv, WireOrder
    <3> QED BY <1>3, <3>1 DEF Sent, Chunk
  <2>2. \A i, j \in 1..Len(wire') : i < j => Ahead(Chunk(wire'[i]), wire'[j])
    <3> SUFFICES ASSUME NEW i \in 1..Len(wire'), NEW j \in 1..Len(wire'), i < j
                 PROVE  Ahead(Chunk(wire'[i]), wire'[j])
      OBVIOUS
    <3>1. i + off < j + off
      OBVIOUS
    <3> QED BY <1>2, <3>1 DEF OrderInv, WireOrder
  <2> QED BY <2>1, <2>2 DEF WireOrder, Ahead, Chunk
<1>6. ASSUME NEW c, BeforeWire(c) PROVE BeforeWire(c)'
  <2>1. \A i \in 1..Len(c) : Sent(c[i])'
    BY <1>3, <1>6 DEF BeforeWire, Sent
  <2>2. \A i \in 1..Len(c) : \A j \in 1..Len(wire') : Ahead(c[i], wire'[j])
    BY <1>2, <1>6 DEF BeforeWire
  <2> QED BY <2>1, <2>2 DEF BeforeWire, Ahead, Chunk
<1> QED BY <1>4, <1>5, <1>6

(* Nothing happens to it.                                                  *)
LEMMA SameWire ==
  ASSUME TypeInv, WireInv, OrderInv, UNCHANGED <<sendVars, connVars>>, wire' = wire
  PROVE  /\ WireInv' /\ WireOrder'
         /\ \A c : BeforeWire(c) => BeforeWire(c)'
<1>1. Len(wire) \in Nat /\ (wire # <<>> => Len(wire) > 0) /\ broken' = broken
  BY Elements DEF connVars
<1>2. /\ 0 \in Nat /\ Len(wire') \in Nat /\ Len(wire') + 0 = Len(wire)
      /\ Len(wire') + 0 <= Len(wire)
      /\ wire' # <<>> => Len(wire') > 0
      /\ UNCHANGED sendVars
  BY <1>1
<1>3. \A i \in 1..Len(wire') : wire'[i] = wire[i + 0]
  <2> SUFFICES ASSUME NEW i \in 1..Len(wire') PROVE wire'[i] = wire[i + 0]
    OBVIOUS
  <2>1. i + 0 = i
    OBVIOUS
  <2> QED BY <2>1
<1>4. ~broken' => ~broken /\ Len(wire') + 0 = Len(wire)
  BY <1>1, <1>2
<1> QED BY <1>2, <1>3, <1>4, PartOfWire

(* A read from the middle of a frame drops the first of them.              *)
LEMMA AstrayWire ==
  ASSUME TypeInv, WireInv, OrderInv, UNCHANGED <<sendVars, connVars>>, ReadsAstray
  PROVE  /\ WireInv' /\ WireOrder'
         /\ \A c : BeforeWire(c) => BeforeWire(c)'
<1>1. PICK n \in 0..Len(wire) :
        /\ Len(wire') + n = Len(wire) /\ Len(wire') \in Nat
        /\ \A i \in 1..Len(wire') : wire'[i] = wire[i + n]
  BY AstrayTypes
<1>2. wire' # <<>> => Len(wire') > 0
  <2>1. wire' \in Seq(Frames)
    BY AstrayTypes DEF WireOK
  <2> QED BY <1>1, <2>1, EmptySeq
<1>3. n \in Nat /\ Len(wire') + n <= Len(wire) /\ (~broken' => ~broken)
  BY <1>1, Elements DEF connVars
<1> QED BY <1>1, <1>2, <1>3, PartOfWire

(* So it does when a read fails, or nothing happens.                       *)
LEMMA LeavesWire ==
  ASSUME TypeInv, WireInv, OrderInv, UNCHANGED <<sendVars, connVars>>, LeavesOff
  PROVE  /\ WireInv' /\ WireOrder'
         /\ \A c : BeforeWire(c) => BeforeWire(c)'
BY SameWire, AstrayWire DEF LeavesOff, wireVars

(* The entry of the call under way is replaced by one that fits.           *)
LEMMA EntryKeeps ==
  ASSUME TypeInv, StreamInv, UNCHANGED sendVars, receiver.active,
         WireInv', WireOrder', HeldInv',
         \A c : BeforeWire(c) => BeforeWire(c)',
         NEW e \in ReceiveEntry, receives' = [receives EXCEPT ![This] = e],
         ~e.astray => BeforeWire(e.chunks)',
         ~e.astray => InRow(e.chunks) /\ Whole(sends, e),
         ~e.astray => \A q \in InStep : q < This => AllBefore(receives[q].chunks, e.chunks)
  PROVE  StreamInv'
<1>1. /\ Len(receives') = Len(receives) /\ Len(receives) \in Nat
      /\ \A r \in 1..Len(receives) - 1 : receives'[r] = receives[r]
      /\ receives'[Len(receives)] = e
  BY EntryReplaced, Elements
<1>2. \A r \in 1..Len(receives) : r = Len(receives) \/ r \in 1..Len(receives) - 1
  BY <1>1, UpTo
<1>3. \A r \in InStep' : \/ r = Len(receives) /\ ~e.astray /\ receives'[r] = e
                         \/ /\ r \in 1..Len(receives) - 1 /\ r \in InStep
                            /\ receives'[r] = receives[r]
  BY <1>1, <1>2 DEF InStep
<1>4. OrderInv'
  <2> SUFFICES ASSUME NEW r \in InStep' PROVE BeforeWire(receives[r].chunks)'
    BY DEF OrderInv
  <2>1. CASE r = Len(receives) /\ ~e.astray /\ receives'[r] = e
    BY <2>1 DEF BeforeWire, Sent, Ahead
  <2>2. CASE r \in 1..Len(receives) - 1 /\ r \in InStep /\ receives'[r] = receives[r]
    <3>1. PICK c : c = receives[r].chunks
      OBVIOUS
    <3>2. BeforeWire(c)
      BY <2>2, <3>1 DEF StreamInv, OrderInv
    <3>3. BeforeWire(c)' /\ receives'[r].chunks = c
      BY <2>2, <3>1, <3>2
    <3> QED BY <3>3 DEF BeforeWire, Sent, Ahead
  <2> QED BY <1>3, <2>1, <2>2
<1>5. ResultInv'
  <2>1. sends' = sends
    BY DEF sendVars
  <2>2. \A r \in InStep' : InRow(receives'[r].chunks) /\ Whole(sends, receives'[r])
    BY <1>3 DEF StreamInv, ResultInv
  <2>3. ASSUME NEW r \in InStep', NEW q \in InStep', q < r
        PROVE  AllBefore(receives'[q].chunks, receives'[r].chunks)
    <3>1. q \in InStep /\ receives'[q] = receives[q] /\ q \in Nat
      <4>1. r <= Len(receives) /\ r \in Nat
        BY <1>1, <1>3
      <4>2. q # Len(receives)
        <5>1. PICK n \in Nat : n = Len(receives)
          BY <1>1
        <5>2. ~(n < r)
          BY <4>1, <5>1
        <5> QED BY <2>3, <5>1, <5>2
      <4> QED BY <1>1, <1>3, <4>2
    <3>2. CASE r = Len(receives) /\ ~e.astray /\ receives'[r] = e
      BY <2>3, <3>1, <3>2 DEF This
    <3>3. CASE r \in InStep /\ receives'[r] = receives[r]
      BY <2>3, <3>1, <3>3 DEF StreamInv, ResultInv
    <3> QED BY <1>3, <3>2, <3>3
  <2> QED BY <2>1, <2>2, <2>3 DEF ResultInv
<1> QED BY <1>4, <1>5 DEF StreamInv

(* The entry of a call that is astray may be anything.                     *)
LEMMA AstrayKeeps ==
  ASSUME TypeInv, StreamInv, UNCHANGED sendVars, receiver.active,
         WireInv', WireOrder',
         \A c : BeforeWire(c) => BeforeWire(c)',
         NEW e \in ReceiveEntry, receives' = [receives EXCEPT ![This] = e], e.astray
  PROVE  StreamInv'
<1>1. receives'[This'] = e
  BY EntryReplaced DEF This
<1>2. HeldInv'
  BY <1>1 DEF HeldInv
<1> QED BY <1>2, EntryKeeps

(* ReceiveStream begins with nothing written.                              *)
LEMMA BeginReceiveKeeps ==
  ASSUME TypeInv, StreamInv, ReceiveStream
  PROVE  StreamInv'
<1>1. /\ UNCHANGED <<sendVars, wire, connVars>> /\ sends' = sends /\ broken' = broken
      /\ ~receiver.fragmentStart /\ receiver' = [receiver EXCEPT !.active = TRUE]
      /\ receiver \in ReceiveLocals
  BY DEF ReceiveStream, sendVars, wireVars, connVars, TypeInv, TypeOK, ReceiveLocals, ReceiverInv
<1>2. /\ Len(receives') = Len(receives) + 1 /\ Len(receives) \in Nat
      /\ \A r \in 1..Len(receives) : receives'[r] = receives[r]
      /\ receives'[Len(receives')].chunks = <<>> /\ receives'[Len(receives')].result = "open"
  BY BeginReceive, Elements
<1>3. \A r \in InStep' : \/ r = Len(receives')
                         \/ r \in InStep /\ receives'[r] = receives[r] /\ r < Len(receives')
  <2>1. \A r \in 1..Len(receives') : r = Len(receives') \/ r \in 1..Len(receives)
    BY <1>2
  <2> QED BY <1>2, <2>1 DEF InStep
<1>4. Len(<<>>) = 0
  BY EmptySeq
<1>5. WireInv' /\ WireOrder' /\ \A c : BeforeWire(c) => BeforeWire(c)'
  BY <1>1, SameWire DEF StreamInv
<1>6. OrderInv'
  <2> SUFFICES ASSUME NEW r \in InStep' PROVE BeforeWire(receives[r].chunks)'
    BY <1>5 DEF OrderInv
  <2>1. CASE r = Len(receives')
    <3>1. receives'[r].chunks = <<>>
      BY <1>2, <2>1
    <3> QED BY <1>4, <3>1 DEF BeforeWire
  <2>2. CASE r \in InStep /\ receives'[r] = receives[r]
    <3>1. PICK c : c = receives[r].chunks
      OBVIOUS
    <3>2. BeforeWire(c)
      BY <2>2, <3>1 DEF StreamInv, OrderInv
    <3>3. BeforeWire(c)' /\ receives'[r].chunks = c
      BY <1>5, <2>2, <3>1, <3>2
    <3> QED BY <3>3 DEF BeforeWire, Sent, Ahead
  <2> QED BY <1>3, <2>1, <2>2
<1>7. HeldInv'
  BY <1>1 DEF HeldInv, ReceiveLocals
<1>8. ResultInv'
  <2>1. ASSUME NEW r \in InStep'
        PROVE  InRow(receives'[r].chunks) /\ Whole(sends, receives'[r])
    <3>1. CASE r = Len(receives')
      BY <1>2, <1>4, <3>1 DEF InRow, Whole
    <3>2. CASE r \in InStep /\ receives'[r] = receives[r]
      BY <3>2 DEF StreamInv, ResultInv
    <3> QED BY <1>3, <3>1, <3>2
  <2>2. ASSUME NEW r \in InStep', NEW q \in InStep', q < r
        PROVE  AllBefore(receives'[q].chunks, receives'[r].chunks)
    <3>1. CASE r = Len(receives')
      BY <1>2, <1>4, <3>1 DEF AllBefore
    <3>2. CASE r \in InStep /\ receives'[r] = receives[r] /\ r < Len(receives')
      <4>1. q # Len(receives')
        BY <1>2, <2>2, <3>2 DEF InStep
      <4> QED BY <1>3, <2>2, <3>2, <4>1 DEF StreamInv, ResultInv
    <3> QED BY <1>3, <3>1, <3>2
  <2> QED BY <1>1, <2>1, <2>2 DEF ResultInv
<1> QED BY <1>5, <1>6, <1>7, <1>8 DEF StreamInv

(* The connection loses frames, or is closed.                              *)
LEMMA ConnectionKeeps ==
  ASSUME TypeInv, StreamInv, Reset \/ Close
  PROVE  StreamInv'
<1>1. UNCHANGED <<sendVars, recvVars>> /\ wire \in Seq(Frames)
  BY DEF Reset, Close, TypeInv, TypeOK
<1>2. /\ Len(wire') \in Nat /\ Len(wire') <= Len(wire)
      /\ \A i \in 1..Len(wire') : wire'[i] = wire[i]
      /\ ~broken' => ~broken /\ wire' = wire
      /\ wire' # <<>> => Len(wire') > 0 /\ wire # <<>>
  <2>1. Len(wire) \in Nat
    BY Elements
  <2>2. CASE Reset
    <3>1. PICK n \in 0..Len(wire) : wire' = SubSeq(wire, 1, n)
      BY <2>2 DEF Reset
    <3>2. wire' \in Seq(Frames) /\ Len(wire') = n /\ \A i \in 1..n : wire'[i] = wire[i]
      BY <1>1, <3>1, EndRemoved
    <3>3. wire' # <<>> => Len(wire') > 0
      BY <3>2, EmptySeq
    <3>4. Len(wire') > 0 => wire # <<>>
      <4>1. Len(wire') > 0 => Len(wire) # 0
        BY <2>1, <3>2
      <4> QED BY <4>1, EmptySeq
    <3> QED BY <2>1, <2>2, <3>2, <3>3, <3>4 DEF Reset
  <2>3. CASE Close
    BY <2>1, <2>3, Elements DEF Close, wireVars
  <2> QED BY <2>2, <2>3
<1>3. WireInv' /\ WireOrder' /\ \A c : BeforeWire(c) => BeforeWire(c)'
  <2>1. /\ Len(wire') + 0 = Len(wire') /\ 0 \in Nat
        /\ \A i \in 1..Len(wire') : wire'[i] = wire[i + 0]
    BY <1>2
  <2>2. WireInv /\ OrderInv /\ UNCHANGED sendVars
    BY <1>1 DEF StreamInv
  <2> QED BY <1>2, <2>1, <2>2, PartOfWire
<1>4. /\ sends' = sends /\ sender' = sender /\ receiver' = receiver /\ receives' = receives
      /\ InStep' = InStep
  BY <1>1 DEF sendVars, recvVars, InStep
<1>5. OrderInv'
  <2> SUFFICES ASSUME NEW r \in InStep PROVE BeforeWire(receives[r].chunks)'
    BY <1>3, <1>4 DEF OrderInv
  <2>1. PICK c : c = receives[r].chunks
    OBVIOUS
  <2>2. BeforeWire(c)'
    BY <1>3, <2>1 DEF StreamInv, OrderInv
  <2> QED BY <1>4, <2>1, <2>2 DEF BeforeWire, Sent, Ahead
<1>6. HeldInv'
  <2> SUFFICES ASSUME receiver.active, receiver.fragmentStart,
                      ~receives[This].astray
               PROVE  \E k, i \in Nat : LastIs(k, i)' /\ Held(k, i)'
    BY <1>4 DEF HeldInv, This
  <2>1. PICK k, i \in Nat : LastIs(k, i) /\ Held(k, i)
    BY DEF StreamInv, HeldInv
  <2>2. wire' # <<>> => NextTo(sends, k, i, FALSE, wire'[1])
    <3>1. wire' # <<>> => 1 \in 1..Len(wire')
      BY <1>2
    <3> QED BY <1>2, <2>1, <3>1 DEF Held
  <2>3. wire' = <<>> /\ ~broken' => SentLast(k, i, FALSE)'
    BY <1>2, <1>4, <2>1 DEF Held, SentLast, Call
  <2>4. Held(k, i)'
    BY <1>4, <2>1, <2>2, <2>3 DEF Held, This
  <2>5. LastIs(k, i)'
    BY <1>4, <2>1 DEF LastIs, This
  <2> QED BY <2>4, <2>5
<1>7. ResultInv'
  BY <1>4 DEF StreamInv, ResultInv
<1> QED BY <1>3, <1>5, <1>6, <1>7 DEF StreamInv

(* A frame is read.                                                        *)
LEMMA ReadKeeps ==
  ASSUME TypeInv, StreamInv, receiver.active, NEW f, Reads(f), rest = 0
  PROVE  /\ WireInv' /\ WireOrder' /\ \A c : BeforeWire(c) => BeforeWire(c)'
         /\ f \in Frames /\ GoodFrame(sends, f) /\ Sent(Chunk(f))
         /\ \A j \in 1..Len(wire') : Ahead(Chunk(f), wire'[j])
         /\ \A r \in InStep : \A i \in 1..Len(receives[r].chunks) :
              Ahead(receives[r].chunks[i], f)
         /\ wire' # <<>> => FrameAfter(sends, f, wire'[1])
         /\ wire' = <<>> /\ ~broken' => LastFrame(f)
         /\ UNCHANGED <<sendVars, connVars>>
<1>1. /\ f \in Frames /\ f = wire[1]
      /\ wire' \in Seq(Frames) /\ Len(wire') = Len(wire) - 1 /\ Len(wire) > 0
      /\ \A i \in 1..Len(wire) - 1 : wire'[i] = wire[i + 1]
      /\ UNCHANGED <<sendVars, connVars>>
  BY ReadsNext DEF Reads
<1>2. /\ Len(wire) \in Nat /\ Len(wire') \in Nat /\ Len(wire') + 1 = Len(wire)
      /\ \A i \in 1..Len(wire') : wire'[i] = wire[i + 1] /\ i + 1 \in 1..Len(wire)
      /\ 1 \in 1..Len(wire)
      /\ wire' # <<>> => Len(wire') > 0
      /\ wire # <<>> /\ broken' = broken
  <2>1. Len(wire) \in Nat /\ Len(wire) # 0
    BY <1>1, Elements
  <2>2. wire # <<>>
    BY <2>1, EmptySeq
  <2>3. wire' # <<>> => Len(wire') > 0
    BY <1>1, EmptySeq
  <2> QED BY <1>1, <2>1, <2>2, <2>3 DEF connVars
<1>3. WireInv' /\ WireOrder' /\ \A c : BeforeWire(c) => BeforeWire(c)'
  <2>1. WireInv /\ OrderInv /\ UNCHANGED sendVars /\ 1 \in Nat
    BY <1>1 DEF StreamInv
  <2> QED BY <1>2, <2>1, PartOfWire
<1>4. GoodFrame(sends, f) /\ Sent(Chunk(f))
  BY <1>1, <1>2 DEF StreamInv, WireInv, OrderInv, WireOrder
<1>5. ASSUME NEW j \in 1..Len(wire') PROVE Ahead(Chunk(f), wire'[j])
  <2>1. j + 1 \in 1..Len(wire) /\ 1 < j + 1 /\ wire'[j] = wire[j + 1]
    BY <1>2
  <2> QED BY <1>1, <1>2, <2>1 DEF StreamInv, OrderInv, WireOrder
<1>6. \A r \in InStep : \A i \in 1..Len(receives[r].chunks) :
        Ahead(receives[r].chunks[i], f)
  BY <1>1, <1>2 DEF StreamInv, OrderInv, BeforeWire
<1>7. wire' # <<>> => FrameAfter(sends, f, wire'[1])
  <2> SUFFICES ASSUME wire' # <<>> PROVE FrameAfter(sends, f, wire'[1])
    OBVIOUS
  <2>1. 1 \in 1..Len(wire) - 1 /\ 1 \in 1..Len(wire')
    BY <1>2
  <2>2. wire'[1] = wire[1 + 1] /\ FrameAfter(sends, wire[1], wire[1 + 1])
    BY <1>2, <2>1 DEF StreamInv, WireInv
  <2> QED BY <1>1, <2>2
<1>8. wire' = <<>> /\ ~broken' => LastFrame(f)
  <2> SUFFICES ASSUME wire' = <<>>, ~broken' PROVE LastFrame(f)
    OBVIOUS
  <2>1. Len(wire) = 1
    BY <1>2, EmptySeq
  <2> QED BY <1>1, <1>2, <2>1 DEF StreamInv, WireInv
<1> QED BY <1>1, <1>3, <1>4, <1>5, <1>6, <1>7, <1>8

(* A read keeps the wire in order, in step or not.                         *)
LEMMA ReadWire ==
  ASSUME TypeInv, StreamInv, receiver.active, UNCHANGED <<sendVars, connVars>>,
         LeavesOff \/ \E f : Reads(f)
  PROVE  WireInv' /\ WireOrder' /\ \A c : BeforeWire(c) => BeforeWire(c)'
<1>1. CASE LeavesOff
  BY <1>1, LeavesWire DEF StreamInv
<1>2. ASSUME NEW f, Reads(f), rest = 0
      PROVE  WireInv' /\ WireOrder' /\ \A c : BeforeWire(c) => BeforeWire(c)'
  BY <1>2, ReadKeeps
<1>3. ASSUME NEW f, Reads(f), rest # 0
      PROVE  WireInv' /\ WireOrder' /\ \A c : BeforeWire(c) => BeforeWire(c)'
  <2>1. ReadsAstray
    BY <1>3 DEF Reads, TypeInv, TypeOK
  <2> QED BY <2>1, AstrayWire DEF StreamInv
<1> QED BY <1>1, <1>2, <1>3

(* The read fails, or the frame is refused or lost: the call returns with  *)
(* an error.                                                               *)
LEMMA ErrorKeeps ==
  ASSUME NothingIgnored, TypeInv, StreamInv, receiver.active,
         UNCHANGED <<sendVars, connVars>>, LeavesOff \/ \E f : Reads(f),
         NEW error \in AllFaults \cup {"protocol", "garbled"}, NEW tracker \in Record,
         ReceiveReturn(Returned(Reading, HandleError(error), 0), tracker)
  PROVE  StreamInv'
<1>1. PICK e \in ReceiveEntry : e = Returned(Reading, HandleError(error), 0)
  BY HandledErrors, ReadingTypes
<1>2. /\ e.chunks = receives[This].chunks /\ e.result # "ok"
      /\ receives' = [receives EXCEPT ![This] = e] /\ ~receiver'.active
      /\ ~e.astray => ~receives[This].astray
      /\ UNCHANGED sendVars
  <2>1. /\ Reading \in ReceiveEntry /\ Reading.chunks = receives[This].chunks
        /\ Reading.astray <=> receives[This].astray \/ rest > 0
    BY ReadingTypes
  <2> QED BY <1>1, <2>1, HandledErrors DEF ReceiveReturn, Returned, ReceiveEntry
<1>3. WireInv' /\ WireOrder' /\ \A c : BeforeWire(c) => BeforeWire(c)'
  BY ReadWire
<1>4. ~e.astray => This \in InStep
  <2>1. This \in 1..Len(receives)
    BY Elements, EmptySeq DEF TypeInv, TypeOK, ReceiverInv, This
  <2> QED BY <1>2, <2>1 DEF InStep
<1>5. ~e.astray => BeforeWire(e.chunks)'
  BY <1>2, <1>3, <1>4 DEF StreamInv, OrderInv
<1>6. ~e.astray => InRow(e.chunks) /\ Whole(sends, e)
  BY <1>2, <1>4 DEF StreamInv, ResultInv, Whole
<1>7. ~e.astray => \A q \in InStep : q < This => AllBefore(receives[q].chunks, e.chunks)
  BY <1>2, <1>4 DEF StreamInv, ResultInv
<1>8. HeldInv'
  BY <1>2 DEF HeldInv
<1> QED BY <1>2, <1>3, <1>5, <1>6, <1>7, <1>8, EntryKeeps

(* A call that goes on in the middle of a frame is astray.                 *)
LEMMA NothingKeeps ==
  ASSUME TypeInv, StreamInv, ReceiveNothing
  PROVE  StreamInv'
<1>1. /\ receiver.active /\ ReadsAstray /\ UNCHANGED <<sendVars, connVars>> /\ rest > 0
      /\ receives' = [receives EXCEPT ![This] = Reading]
  BY DEF ReceiveNothing, ReadsAstray, Skips
<1>2. PICK e \in ReceiveEntry : e = Reading /\ e.astray
  BY <1>1, ReadingTypes
<1>3. WireInv' /\ WireOrder' /\ \A c : BeforeWire(c) => BeforeWire(c)'
  BY <1>1, ReadWire DEF LeavesOff
<1> QED BY <1>1, <1>2, <1>3, AstrayKeeps

(* An empty last frame ends the stream: what was written ends with it.     *)
LEMMA EndKeeps ==
  ASSUME TypeInv, StreamInv, NEW f \in Readable, ReceiveEnd(f)
  PROVE  StreamInv'
<1>1. /\ receiver.active /\ Reads(f) /\ Starts(f) /\ f.part = 0
      /\ ReceiveReturn(Returned(Reading, "ok", f.call), Complete(rTracker))
      /\ UNCHANGED <<sendVars, connVars>>
  BY DEF ReceiveEnd, Reads
<1>2. /\ WireInv' /\ WireOrder' /\ \A c : BeforeWire(c) => BeforeWire(c)'
      /\ f \in Frames /\ UNCHANGED sendVars
  BY <1>1, ReadWire, ReadingTypes
<1>3. /\ Reading \in ReceiveEntry /\ Reading.chunks = receives[This].chunks
      /\ Reading.astray <=> receives[This].astray \/ rest > 0
  BY <1>1, ReadingTypes
<1>4. PICK e \in ReceiveEntry : e = Returned(Reading, "ok", f.call)
  BY <1>2, <1>3 DEF Returned, ReceiveEntry, Frames, Results
<1>5. /\ e.chunks = receives[This].chunks /\ e.result = "ok" /\ e.ended = f.call
      /\ receives' = [receives EXCEPT ![This] = e] /\ ~receiver'.active
      /\ ~e.astray => ~receives[This].astray /\ ~(rest > 0)
  BY <1>1, <1>3, <1>4 DEF ReceiveReturn, Returned, ReceiveEntry
<1>6. ~e.astray => This \in InStep /\ rest = 0
  <2>1. This \in 1..Len(receives) /\ rest \in Nat
    BY <1>1, Elements, EmptySeq DEF TypeInv, TypeOK, ReceiverInv, This
  <2> QED BY <1>5, <2>1 DEF InStep
<1>7. ~e.astray => Whole(sends, e)
  <2> SUFFICES ASSUME ~e.astray PROVE Whole(sends, e)
    OBVIOUS
  <2>1. f.call \in DOMAIN sends /\ sends[f.call].result = "ok" /\ ~f.first
    BY <1>1, <1>6, ReadKeeps DEF GoodFrame
  <2>2. receiver.fragmentStart /\ ~receives[This].astray
    BY <1>1, <1>5, <2>1 DEF Starts
  <2>3. PICK k, i \in Nat : Held(k, i)
    BY <1>1, <2>2 DEF StreamInv, HeldInv
  <2>4. /\ EndsWith(e.chunks, k, i) /\ NextTo(sends, k, i, FALSE, f)
    BY <1>1, <1>5, <1>6, <2>3, ReadsNext DEF Held
  <2>5. CASE f.call = k /\ i = sends[k].size
    BY <1>5, <2>1, <2>4, <2>5 DEF Whole
  <2>6. CASE sends[f.call].size = 0
    <3>1. Len(e.chunks) \in Nat
      BY LenProperties DEF ReceiveEntry
    <3>2. EndsWith(e.chunks, f.call, 0)
      BY <3>1 DEF EndsWith
    <3> QED BY <1>5, <2>1, <2>6, <3>2 DEF Whole
  <2> QED BY <1>1, <2>4, <2>5, <2>6 DEF NextTo
<1>8. ~e.astray => BeforeWire(e.chunks)'
  BY <1>2, <1>5, <1>6 DEF StreamInv, OrderInv
<1>9. /\ ~e.astray => InRow(e.chunks)
      /\ ~e.astray => \A q \in InStep : q < This => AllBefore(receives[q].chunks, e.chunks)
  BY <1>5, <1>6 DEF StreamInv, ResultInv
<1>10. HeldInv'
  BY <1>5 DEF HeldInv
<1> QED BY <1>1, <1>2, <1>5, <1>7, <1>8, <1>9, <1>10, EntryKeeps

(* One chunk more.                                                         *)
LEMMA ChunkAppended ==
  ASSUME NEW c \in Seq(Chunks), NEW k \in Nat, NEW i \in Nat
  PROVE  /\ Append(c, <<k, i>>) # <<>>
         /\ Append(c, <<k, i>>)[Len(Append(c, <<k, i>>))] = <<k, i>>
         /\ InRow(c) /\ (c # <<>> => Follows(c[Len(c)], <<k, i>>)) => InRow(Append(c, <<k, i>>))
         /\ i > 0 /\ EndsWith(c, k, i - 1) => EndsWith(Append(c, <<k, i>>), k, i)
<1> DEFINE p == <<k, i>>
           d == Append(c, p)
<1>1. p \in Chunks
  BY DEF Chunks
<1> HIDE DEF p
<1>2. /\ d \in Seq(Chunks) /\ Len(d) = Len(c) + 1 /\ Len(c) \in Nat
      /\ \A j \in 1..Len(c) : d[j] = c[j]
      /\ d[Len(c) + 1] = p
  BY <1>1, Appended, LenProperties
<1> HIDE DEF d
<1>3. d # <<>> /\ d[Len(d)] = p
  <2>1. Len(d) # 0
    BY <1>2
  <2> QED BY <1>2, <2>1, EmptySeq
<1>4. ASSUME InRow(c), c # <<>> => Follows(c[Len(c)], p)
      PROVE  InRow(d)
  <2> SUFFICES ASSUME NEW j \in 1..Len(d) - 1 PROVE Follows(d[j], d[j + 1])
    BY DEF InRow
  <2>1. j \in 1..Len(c) /\ d[j] = c[j]
    BY <1>2
  <2>2. CASE j = Len(c)
    <3>1. c # <<>>
      <4>1. Len(c) # 0
        BY <2>1, <2>2
      <4> QED BY <4>1, EmptySeq
    <3> QED BY <1>2, <1>4, <2>1, <2>2, <3>1
  <2>3. CASE j # Len(c)
    <3>1. j \in 1..Len(c) - 1 /\ j + 1 \in 1..Len(c)
      BY <1>2, <2>1, <2>3
    <3> QED BY <1>2, <1>4, <2>1, <3>1 DEF InRow
  <2> QED BY <2>2, <2>3
<1>5. ASSUME i > 0, EndsWith(c, k, i - 1)
      PROVE  EndsWith(d, k, i)
  <2>1. i - 1 <= Len(c) /\ \A j \in 1..i - 1 : c[Len(c) - (i - 1) + j] = <<k, j>>
    BY <1>5 DEF EndsWith
  <2>2. i <= Len(d)
    BY <1>2, <2>1
  <2> SUFFICES ASSUME NEW j \in 1..i PROVE d[Len(d) - i + j] = <<k, j>>
    BY <2>2 DEF EndsWith
  <2>3. CASE j = i
    <3>1. Len(d) - i + j = Len(c) + 1
      BY <1>2, <2>3
    <3> QED BY <1>2, <2>3, <3>1 DEF p
  <2>4. CASE j # i
    <3>1. /\ j \in 1..i - 1 /\ Len(d) - i + j = Len(c) - (i - 1) + j
          /\ Len(c) - (i - 1) + j \in 1..Len(c)
      BY <1>2, <1>5, <2>1, <2>4
    <3>2. d[Len(c) - (i - 1) + j] = c[Len(c) - (i - 1) + j]
      BY <1>2, <3>1
    <3> QED BY <2>1, <3>1, <3>2
  <2> QED BY <2>3, <2>4
<1> QED BY <1>3, <1>4, <1>5 DEF d, p

(* The entry of a call that writes a chunk.                                *)
LEMMA ChunkEntry ==
  ASSUME TypeInv, NEW f \in Readable, ReceiveChunk(f)
  PROVE  \E e \in ReceiveEntry :
           /\ receives' = [receives EXCEPT ![This] = e]
           /\ e.chunks = Append(receives[This].chunks, Chunk(f))
           /\ e.astray <=> receives[This].astray \/ rest > 0
           /\ IF Ends(f)
                THEN e.result = "ok" /\ e.ended = f.call /\ ~receiver'.active
                ELSE /\ e.result = "open" /\ receiver'.active
                     /\ receiver'.totalReceived = receiver.totalReceived + 1
<1>1. receiver.active /\ Reads(f) /\ receives[This].result = "open"
  BY DEF ReceiveChunk, Reads, TypeInv, ReceiverInv
<1>2. /\ f \in Frames /\ Reading \in ReceiveEntry /\ Reading.result = "open"
      /\ Reading.chunks = receives[This].chunks
      /\ Reading.astray <=> receives[This].astray \/ rest > 0
  BY <1>1, ReadingTypes
<1>3. PICK d : d = Append(receives[This].chunks, Chunk(f))
  OBVIOUS
<1>4. [Reading EXCEPT !.chunks = Append(@, Chunk(f))] \in ReceiveEntry
  BY <1>1, <1>2, ReadingTypes
<1>5. PICK a \in ReceiveEntry : a = [Reading EXCEPT !.chunks = Append(@, Chunk(f))]
  BY <1>4
<1>6. a.chunks = d /\ a.result = "open" /\ a.astray = Reading.astray
  BY <1>1, <1>2, <1>3, <1>5 DEF ReceiveEntry
<1>7. CASE Ends(f)
  <2>1. Returned(a, "ok", f.call) \in ReceiveEntry
    BY <1>2 DEF Returned, ReceiveEntry, Frames, Results
  <2>2. PICK b \in ReceiveEntry : b = Returned(a, "ok", f.call)
    BY <2>1
  <2>3. b.chunks = d /\ b.result = "ok" /\ b.ended = f.call /\ b.astray = a.astray
    BY <1>6, <2>2 DEF Returned, ReceiveEntry
  <2>4. ReceiveReturn(b, Complete(Received(receiver.totalReceived + 1)))
    BY <1>5, <1>7, <2>2 DEF ReceiveChunk
  <2> QED BY <1>2, <1>3, <1>6, <1>7, <2>3, <2>4 DEF ReceiveReturn
<1>8. CASE ~Ends(f)
  <2>1. /\ receiver' = [active |-> TRUE, fragmentStart |-> TRUE,
                        totalReceived |-> receiver.totalReceived + 1]
        /\ receives' = [receives EXCEPT ![This] = a]
    BY <1>5, <1>8 DEF ReceiveChunk
  <2> QED BY <1>2, <1>3, <1>6, <1>8, <2>1
<1> QED BY <1>7, <1>8

(* A call in step writes a chunk: it is the one that follows those of its  *)
(* stream, and the last of its stream if the call returns with it.         *)
LEMMA ChunkInStep ==
  ASSUME TypeInv, StreamInv, NEW f \in Readable, ReceiveChunk(f),
         rest = 0, ~receives[This].astray
  PROVE  StreamInv'
<1>1. receiver.active /\ Reads(f) /\ Starts(f) /\ f.part # 0
  BY DEF ReceiveChunk, Reads
<1>2. /\ WireInv' /\ WireOrder' /\ \A c : BeforeWire(c) => BeforeWire(c)'
      /\ f \in Frames /\ GoodFrame(sends, f) /\ Sent(Chunk(f))
      /\ \A j \in 1..Len(wire') : Ahead(Chunk(f), wire'[j])
      /\ \A r \in InStep : \A j \in 1..Len(receives[r].chunks) :
           Ahead(receives[r].chunks[j], f)
      /\ wire' # <<>> => FrameAfter(sends, f, wire'[1])
      /\ wire' = <<>> /\ ~broken' => LastFrame(f)
      /\ UNCHANGED <<sendVars, connVars>>
  BY <1>1, ReadKeeps
<1>3. receives[This] \in ReceiveEntry /\ wire # <<>> /\ f = wire[1]
  BY <1>1, ReadingTypes, ReadsNext
<1>4. This \in 1..Len(receives) /\ This \in Nat /\ This \in InStep
  <2>1. This \in 1..Len(receives) /\ This \in Nat
    BY <1>1, Elements, EmptySeq DEF TypeInv, TypeOK, ReceiverInv, This
  <2> QED BY <2>1 DEF InStep
<1>5. PICK c \in Seq(Chunks) : c = receives[This].chunks
  BY <1>3 DEF ReceiveEntry
<1>6. PICK k, i \in Nat : k = f.call /\ i = f.part
  BY <1>2 DEF Frames
<1>7. Chunk(f) = <<k, i>> /\ i > 0
  BY <1>1, <1>6 DEF Chunk
<1>8. PICK d : d = Append(c, <<k, i>>)
  OBVIOUS
<1>9. /\ d \in Seq(Chunks) /\ Len(d) = Len(c) + 1 /\ Len(c) \in Nat
      /\ \A j \in 1..Len(c) : d[j] = c[j]
      /\ d[Len(c) + 1] = <<k, i>> /\ <<k, i>> \in Chunks
  <2>1. <<k, i>> \in Chunks
    BY DEF Chunks
  <2> QED BY <1>8, <2>1, Appended, LenProperties
<1>10. \A j \in 1..Len(d) : j \in 1..Len(c) \/ j = Len(c) + 1
  BY <1>9
<1>11. d # <<>> /\ d[Len(d)] = <<k, i>> /\ InRow(d) /\ EndsWith(d, k, i)
  <2>1. (c # <<>> => Follows(c[Len(c)], <<k, i>>)) /\ EndsWith(c, k, i - 1)
    <3>1. CASE receiver.fragmentStart
      <4>1. PICK m, n \in Nat : LastIs(m, n) /\ Held(m, n)
        BY <1>1, <3>1 DEF StreamInv, HeldInv
      <4>2. /\ c # <<>> /\ c[Len(c)] = <<m, n>> /\ EndsWith(c, m, n)
            /\ NextTo(sends, m, n, FALSE, f)
        BY <1>3, <1>5, <4>1 DEF LastIs, Held
      <4>3. CASE k = m /\ i = n + 1
        BY <4>2, <4>3 DEF Follows
      <4>4. CASE k > m /\ i = 1
        <5>1. EndsWith(c, k, i - 1)
          BY <1>9, <4>4 DEF EndsWith
        <5> QED BY <4>2, <4>4, <5>1 DEF Follows
      <4> QED BY <1>1, <1>6, <4>2, <4>3, <4>4 DEF NextTo
    <3>2. CASE ~receiver.fragmentStart
      <4>1. c = <<>> /\ i = 1
        BY <1>1, <1>2, <1>5, <1>6, <3>2 DEF TypeInv, ReceiverInv, Starts, GoodFrame
      <4>2. EndsWith(c, k, i - 1)
        BY <1>9, <4>1 DEF EndsWith
      <4> QED BY <4>1, <4>2
    <3> QED BY <3>1, <3>2
  <2>2. InRow(c)
    BY <1>4, <1>5 DEF StreamInv, ResultInv
  <2> QED BY <1>7, <1>8, <2>1, <2>2, ChunkAppended
<1>12. BeforeWire(d)'
  <2>1. BeforeWire(c)'
    BY <1>2, <1>4, <1>5 DEF StreamInv, OrderInv
  <2>2. Sent(<<k, i>>)'
    BY <1>2, <1>7 DEF Sent, Call, sendVars
  <2>3. \A j \in 1..Len(wire') : Ahead(<<k, i>>, wire'[j])
    BY <1>2, <1>7
  <2>4. \A j \in 1..Len(d) : Sent(d[j])'
    BY <1>9, <1>10, <2>1, <2>2 DEF BeforeWire, Sent
  <2>5. \A j \in 1..Len(d) : \A n \in 1..Len(wire') : Ahead(d[j], wire'[n])
    BY <1>9, <1>10, <2>1, <2>3 DEF BeforeWire, Ahead, Chunk
  <2> QED BY <2>4, <2>5 DEF BeforeWire, Ahead, Chunk
<1>13. ASSUME NEW q \in InStep, q < This PROVE AllBefore(receives[q].chunks, d)
  <2>1. AllBefore(receives[q].chunks, c)
    BY <1>4, <1>5, <1>13 DEF StreamInv, ResultInv
  <2>2. \A j \in 1..Len(receives[q].chunks) : Before(receives[q].chunks[j], <<k, i>>)
    BY <1>1, <1>2, <1>7 DEF Ahead
  <2> QED BY <1>9, <1>10, <2>1, <2>2 DEF AllBefore
<1>14. PICK e \in ReceiveEntry :
         /\ receives' = [receives EXCEPT ![This] = e] /\ e.chunks = d
         /\ Ends(f) => e.result = "ok" /\ e.ended = k /\ ~receiver'.active
         /\ ~Ends(f) => e.result = "open"
  BY <1>5, <1>6, <1>7, <1>8, ChunkEntry
<1>15. Whole(sends, e)
  <2>1. CASE Ends(f)
    <3>1. /\ k \in DOMAIN sends /\ sends[k].result = "ok" /\ i = sends[k].size
      BY <1>1, <1>2, <1>6, <2>1 DEF GoodFrame, Ends
    <3> QED BY <1>11, <1>14, <2>1, <3>1 DEF Whole
  <2> QED BY <1>14, <2>1 DEF Whole
<1>16. HeldInv'
  <2>1. CASE Ends(f)
    BY <1>14, <2>1 DEF HeldInv
  <2>2. CASE ~Ends(f)
    <3>1. /\ Len(receives') = Len(receives) /\ receives'[Len(receives)] = e
      BY <1>1, <1>14, EntryReplaced
    <3>2. receives'[This'].chunks = d
      BY <1>14, <3>1 DEF This
    <3>3. LastIs(k, i)'
      BY <1>11, <3>2 DEF LastIs
    <3>4. wire' # <<>> => NextTo(sends, k, i, FALSE, wire'[1])
      BY <1>2, <1>6, <2>2 DEF FrameAfter, NextTo, Ends
    <3>5. wire' = <<>> /\ ~broken' => SentLast(k, i, FALSE)'
      <4>1. wire' = <<>> /\ ~broken' => SentLast(k, i, FALSE)
        BY <1>2, <1>6, <2>2 DEF LastFrame, SentLast, Ends
      <4> QED BY <1>2, <4>1 DEF SentLast, Call, sendVars
    <3>6. k \in DOMAIN sends /\ sends' = sends
      BY <1>2, <1>6 DEF GoodFrame, sendVars
    <3>7. Held(k, i)'
      BY <1>7, <1>11, <3>2, <3>4, <3>5, <3>6 DEF Held
    <3> QED BY <3>3, <3>7 DEF HeldInv
  <2> QED BY <2>1, <2>2
<1>17. BeforeWire(e.chunks)' /\ InRow(e.chunks)
       /\ \A q \in InStep : q < This => AllBefore(receives[q].chunks, e.chunks)
  BY <1>11, <1>12, <1>13, <1>14
<1> QED BY <1>1, <1>2, <1>14, <1>15, <1>16, <1>17, EntryKeeps

(* A call writes a chunk, in step or not.                                  *)
LEMMA ChunkKeeps ==
  ASSUME TypeInv, StreamInv, NEW f \in Readable, ReceiveChunk(f)
  PROVE  StreamInv'
<1>1. receiver.active /\ Reads(f) /\ UNCHANGED <<sendVars, connVars>> /\ rest \in Nat
  BY DEF ReceiveChunk, Reads, TypeInv, TypeOK
<1>2. CASE rest = 0 /\ ~receives[This].astray
  BY <1>2, ChunkInStep
<1>3. CASE rest > 0 \/ receives[This].astray
  <2>1. PICK e \in ReceiveEntry : receives' = [receives EXCEPT ![This] = e] /\ e.astray
    BY <1>3, ChunkEntry
  <2>2. WireInv' /\ WireOrder' /\ \A c : BeforeWire(c) => BeforeWire(c)'
    BY <1>1, ReadWire
  <2> QED BY <1>1, <2>1, <2>2, AstrayKeeps
<1> QED BY <1>1, <1>2, <1>3

-----------------------------------------------------------------------------
(* Nothing has been sent, nothing is in flight.                            *)
LEMMA InitStream == Init => StreamInv
<1> SUFFICES ASSUME Init PROVE StreamInv
  OBVIOUS
<1>1. Len(sends) = 0 /\ Len(wire) = 0 /\ Len(receives) = 0
  BY EmptySeq DEF Init
<1>2. WireInv /\ OrderInv /\ ResultInv
  BY <1>1 DEF WireInv, OrderInv, WireOrder, ResultInv, InStep, Init
<1>3. HeldInv
  BY DEF Init, HeldInv
<1> QED BY <1>2, <1>3 DEF StreamInv

(* Every step keeps the streams in order.                                  *)
LEMMA NextStream ==
  ASSUME NothingIgnored, TypeInv, StreamInv, [Next]_vars
  PROVE  StreamInv'
<1>1. ASSUME NEW size \in Sizes, NEW known \in BOOLEAN, SendStream(size, known)
      PROVE  StreamInv'
  BY <1>1, BeginIsQuiet, QuietKeeps
<1>2. CASE SendStep
  <2>1. ASSUME NEW isLast \in BOOLEAN, SendChunk(isLast) PROVE StreamInv'
    BY <2>1, ChunkIsSent, SentKeeps
  <2>2. CASE SendEnd
    BY <2>2, EndIsSent, SentKeeps
  <2>3. ASSUME NEW error \in AllFaults, SendFails(error) PROVE StreamInv'
    BY <2>3, FailIsQuiet, QuietKeeps
  <2> QED BY <1>2, <2>1, <2>2, <2>3 DEF SendStep
<1>3. CASE ReceiveStream
  BY <1>3, BeginReceiveKeeps
<1>4. CASE ReceiveStep
  <2>1. rTracker \in Record /\ Fail(rTracker) \in Record
    BY SettledRecord DEF TypeInv, TypeOK
  <2>2. ASSUME NEW f \in Readable, ReceiveViolation(f) PROVE StreamInv'
    BY <2>1, <2>2, ErrorKeeps DEF ReceiveViolation, Reads
  <2>3. ASSUME NEW f \in Readable, ReceiveWriteFails(f) PROVE StreamInv'
    BY <2>1, <2>3, ErrorKeeps DEF ReceiveWriteFails, Reads, AllFaults
  <2>4. ASSUME NEW error \in AllFaults \cup {"garbled"}, ReceiveFails(error)
        PROVE  StreamInv'
    <3>1. LeavesOff
      BY <2>4 DEF ReceiveFails, ReadFails, LeavesOff
    <3> QED BY <2>1, <2>4, <3>1, ErrorKeeps DEF ReceiveFails
  <2> QED BY <1>4, <2>2, <2>3, <2>4, ChunkKeeps, EndKeeps, NothingKeeps DEF ReceiveStep
<1>5. CASE Reset \/ Close
  BY <1>5, ConnectionKeeps
<1>6. CASE UNCHANGED vars
  BY <1>6 DEF vars, sendVars, wireVars, connVars, recvVars, InStep, StreamInv, WireInv,
              OrderInv, WireOrder, BeforeWire,
              HeldInv, Held, LastIs, ResultInv, LastFrame, SentLast, Sent, Ahead, Chunk, Call, This
<1> QED BY <1>1, <1>2, <1>3, <1>4, <1>5, <1>6 DEF Next

(* Whatever goes wrong in SendStream, in ReceiveStream or between them:    *)
(* the calls of ReceiveStream that never read on in the middle of a frame, *)
(* where a deadline has left it, write chunks as they were sent, and one   *)
(* of them that succeeds has written, behind what beginnings of streams    *)
(* there were whose senders failed, the whole of the stream that ended it, *)
(* whose SendStream succeeded; provided that no error passes for a success.*)
THEOREM StreamsWhole ==
  ASSUME NothingIgnored
  PROVE  Spec => []WholeStream
<1> DEFINE Inv == TypeInv /\ StreamInv
<1>1. Init => Inv
  BY InitTypes, InitStream
<1>2. Inv /\ [Next]_vars => Inv'
  BY NextTypes, NextStream
<1>3. Inv => WholeStream
  <2> SUFFICES ASSUME Inv PROVE WholeStream
    OBVIOUS
  <2>1. ChunksInOrder
    BY DEF StreamInv, ResultInv, InRow, AllBefore, Before, ChunksInOrder
  <2>2. ASSUME NEW r \in InStep, receives[r].result = "ok"
        PROVE  LET c == receives[r].chunks
                   k == receives[r].ended
               IN  /\ k \in DOMAIN sends
                   /\ sends[k].result = "ok"
                   /\ Len(c) >= sends[k].size
                   /\ \A i \in 1..sends[k].size : c[Len(c) - sends[k].size + i] = <<k, i>>
    <3>1. Whole(sends, receives[r])
      BY DEF StreamInv, ResultInv
    <3>2. receives \in Seq(ReceiveEntry) /\ sends \in Seq(SendEntry)
      BY DEF TypeInv, TypeOK, ReceiveEntry, SendEntry
    <3>3. receives[r] \in ReceiveEntry
      BY <3>2, ElementOfSeq DEF InStep
    <3>4. PICK c \in Seq(Chunks) : c = receives[r].chunks
      BY <3>3 DEF ReceiveEntry
    <3>5. PICK k : k = receives[r].ended /\ k \in DOMAIN sends
      BY <2>2, <3>1 DEF Whole
    <3>6. sends[k] \in SendEntry
      BY <3>2, <3>5, LenProperties, ElementOfSeq
    <3>7. sends[k].size \in Nat /\ Len(c) \in Nat
      BY <3>6, LenProperties DEF SendEntry
    <3> QED BY <2>2, <3>1, <3>4, <3>5, <3>7 DEF Whole, EndsWith
  <2> QED BY <2>1, <2>2 DEF WholeStream
<1> QED BY <1>1, <1>2, <1>3, PTL DEF Spec

-----------------------------------------------------------------------------
(* The pipe: when nothing fails and no stream is empty, the n-th           *)
(* ReceiveStream receives the n-th stream.                                 *)

(* The calls whose next part is sent or received next.                     *)
Sending == IF sender.active THEN Call ELSE Call + 1
Receiving == IF receiver.active THEN This ELSE This + 1

(* f is what comes after the first i parts of call k, and leads to part    *)
(* NextPart(f) of call NextCall(f).                                        *)
Turn(calls, k, i, f) ==
  /\ GoodFrame(calls, f) /\ f.call = k
  /\ \/ f.part = i + 1
     \/ f.part = 0 /\ i # 0 /\ i = calls[k].size

NextCall(f) == IF f.last THEN f.call + 1 ELSE f.call
NextPart(f) == IF f.last THEN 0 ELSE f.part

(* The frames w lead from part i of call k to part n of call m.            *)
Chain(calls, w, k, i, m, n) ==
  /\ w = <<>> => k = m /\ i = n
  /\ w # <<>> => /\ Turn(calls, k, i, w[1])
                 /\ NextCall(w[Len(w)]) = m /\ NextPart(w[Len(w)]) = n
  /\ \A j \in 1..Len(w) - 1 : Turn(calls, NextCall(w[j]), NextPart(w[j]), w[j + 1])

SendsInv ==
  /\ ~broken /\ ~shut /\ Len(sends) <= MaxSends
  /\ \A k \in DOMAIN sends :
       sends[k].size \in Sizes /\ (sends[k].result = "ok" <=> k < Sending)

ReceivesInv ==
  /\ \A r \in DOMAIN receives : receives[r].result = "ok" <=> r < Receiving
  /\ Receiving <= Sending
  /\ \A r \in 1..Receiving - 1 : receives[r].chunks = Stream(r, sends[r].size)
  /\ receiver.active => receives[This].chunks = Stream(This, receiver.totalReceived)

ChainInv == Chain(sends, wire, Receiving, receiver.totalReceived, Sending, sender.totalSent)

PipeInv == SendsInv /\ ReceivesInv /\ ChainInv /\ rest = 0

(* A frame stays what it was when calls are added.                         *)
LEMMA ChainStays ==
  ASSUME NEW old, NEW new, Grows(old, new), NEW w \in Seq(Frames),
         NEW k, NEW i, NEW m, NEW n, Chain(old, w, k, i, m, n)
  PROVE  Chain(new, w, k, i, m, n)
<1>1. ASSUME NEW a, NEW b, NEW f \in Frames, Turn(old, a, b, f) PROVE Turn(new, a, b, f)
  <2>1. GoodFrame(new, f)
    BY <1>1, Stays DEF Turn
  <2>2. f.call \in DOMAIN old /\ new[f.call].size = old[f.call].size
    BY <1>1 DEF Turn, GoodFrame, Grows
  <2> QED BY <1>1, <2>1, <2>2 DEF Turn
<1>2. Len(w) \in Nat /\ \A j \in 1..Len(w) : w[j] \in Frames
  BY LenProperties, ElementOfSeq
<1>3. w # <<>> => 1 \in 1..Len(w)
  BY <1>2, EmptySeq
<1>4. \A j \in 1..Len(w) - 1 : j + 1 \in 1..Len(w)
  BY <1>2
<1> QED BY <1>1, <1>2, <1>3, <1>4 DEF Chain

(* A frame is sent.                                                        *)
LEMMA ChainAppended ==
  ASSUME NEW calls, NEW w \in Seq(Frames), NEW g \in Frames,
         NEW k, NEW i, NEW m, NEW n, Chain(calls, w, k, i, m, n), Turn(calls, m, n, g)
  PROVE  Chain(calls, Append(w, g), k, i, NextCall(g), NextPart(g))
<1>1. PICK v : v = Append(w, g)
  OBVIOUS
<1>2. /\ v \in Seq(Frames) /\ Len(v) = Len(w) + 1 /\ Len(w) \in Nat
      /\ \A j \in 1..Len(w) : v[j] = w[j]
      /\ v[Len(w) + 1] = g
  BY <1>1, Appended, LenProperties
<1>3. v # <<>> /\ v[Len(v)] = g
  <2>1. Len(v) # 0
    BY <1>2
  <2> QED BY <1>2, <2>1, EmptySeq
<1>4. Turn(calls, k, i, v[1])
  <2>1. CASE w = <<>>
    <3>1. Len(w) + 1 = 1
      BY <2>1, EmptySeq
    <3> QED BY <1>2, <2>1, <3>1 DEF Chain
  <2>2. CASE w # <<>>
    <3>1. 1 \in 1..Len(w)
      BY <1>2, <2>2, EmptySeq
    <3> QED BY <1>2, <2>2, <3>1 DEF Chain
  <2> QED BY <2>1, <2>2
<1>5. ASSUME NEW j \in 1..Len(v) - 1
      PROVE  Turn(calls, NextCall(v[j]), NextPart(v[j]), v[j + 1])
  <2>1. j \in 1..Len(w) /\ v[j] = w[j]
    BY <1>2
  <2>2. CASE j = Len(w)
    <3>1. w # <<>> /\ v[j + 1] = g
      <4>1. Len(w) # 0
        BY <2>1, <2>2
      <4> QED BY <1>2, <2>2, <4>1, EmptySeq
    <3> QED BY <2>1, <2>2, <3>1 DEF Chain
  <2>3. CASE j # Len(w)
    <3>1. j \in 1..Len(w) - 1 /\ j + 1 \in 1..Len(w)
      BY <1>2, <2>1, <2>3
    <3>2. v[j + 1] = w[j + 1]
      BY <1>2, <3>1
    <3> QED BY <2>1, <3>1, <3>2 DEF Chain
  <2> QED BY <2>2, <2>3
<1> QED BY <1>1, <1>3, <1>4, <1>5 DEF Chain

(* A frame is read.                                                        *)
LEMMA ChainRead ==
  ASSUME NEW calls, NEW w \in Seq(Frames), w # <<>>,
         NEW k, NEW i, NEW m, NEW n, Chain(calls, w, k, i, m, n)
  PROVE  /\ Turn(calls, k, i, Head(w))
         /\ Chain(calls, Tail(w), NextCall(Head(w)), NextPart(Head(w)), m, n)
<1>1. PICK v, f : v = Tail(w) /\ f = Head(w)
  OBVIOUS
<1>2. /\ f = w[1] /\ v \in Seq(Frames) /\ Len(v) = Len(w) - 1 /\ Len(w) > 0 /\ Len(w) \in Nat
      /\ \A j \in 1..Len(w) - 1 : v[j] = w[j + 1]
  BY <1>1, HeadRemoved, LenProperties
<1>3. Turn(calls, k, i, f)
  BY <1>2 DEF Chain
<1>4. v = <<>> => NextCall(f) = m /\ NextPart(f) = n
  <2> SUFFICES ASSUME v = <<>> PROVE NextCall(f) = m /\ NextPart(f) = n
    OBVIOUS
  <2>1. Len(w) = 1
    BY <1>2, EmptySeq
  <2> QED BY <1>2, <2>1 DEF Chain
<1>5. ASSUME v # <<>>
      PROVE  /\ Turn(calls, NextCall(f), NextPart(f), v[1])
             /\ NextCall(v[Len(v)]) = m /\ NextPart(v[Len(v)]) = n
  <2>1. Len(v) # 0
    BY <1>2, <1>5, EmptySeq
  <2>2. 1 \in 1..Len(w) - 1 /\ Len(v) \in 1..Len(w) - 1 /\ Len(v) + 1 = Len(w) /\ 1 + 1 = 2
    BY <1>2, <2>1
  <2>3. v[1] = w[1 + 1] /\ v[Len(v)] = w[Len(w)]
    BY <1>2, <2>2
  <2> QED BY <1>2, <2>2, <2>3 DEF Chain
<1>6. ASSUME NEW j \in 1..Len(v) - 1
      PROVE  Turn(calls, NextCall(v[j]), NextPart(v[j]), v[j + 1])
  <2>1. j \in 1..Len(w) - 1 /\ j + 1 \in 1..Len(w) - 1
    BY <1>2
  <2>2. v[j] = w[j + 1] /\ v[j + 1] = w[(j + 1) + 1]
    BY <1>2, <2>1
  <2> QED BY <2>1, <2>2 DEF Chain
<1> QED BY <1>1, <1>3, <1>4, <1>5, <1>6 DEF Chain

(* One part more of a stream.                                              *)
LEMMA StreamGrows ==
  ASSUME NEW k \in Nat, NEW n \in Nat
  PROVE  /\ Stream(k, 0) = <<>> /\ Stream(k, n) \in Seq(Chunks) /\ Len(Stream(k, n)) = n
         /\ Append(Stream(k, n), <<k, n + 1>>) = Stream(k, n + 1)
<1>1. ASSUME NEW j \in Nat
      PROVE  /\ Stream(k, j) \in Seq(Chunks) /\ Len(Stream(k, j)) = j
             /\ \A i \in 1..j : Stream(k, j)[i] = <<k, i>>
  <2>1. Stream(k, j) \in [1..j -> Chunks]
    BY DEF Stream, Chunks
  <2> QED BY <2>1, SeqDef, LenProperties DEF Stream
<1>2. Stream(k, 0) = <<>>
  BY <1>1, EmptySeq
<1>3. PICK s, t \in Seq(Chunks) : s = Stream(k, n) /\ t = Stream(k, n + 1)
  BY <1>1
<1>4. /\ Len(s) = n /\ \A i \in 1..n : s[i] = <<k, i>>
      /\ Len(t) = n + 1 /\ \A i \in 1..n + 1 : t[i] = <<k, i>>
  <2>1. n + 1 \in Nat
    OBVIOUS
  <2> QED BY <1>1, <1>3, <2>1
<1>5. PICK u \in Seq(Chunks) :
        /\ u = Append(s, <<k, n + 1>>) /\ Len(u) = n + 1
        /\ \A i \in 1..n : u[i] = s[i]
        /\ u[n + 1] = <<k, n + 1>>
  <2>1. n + 1 \in Nat
    OBVIOUS
  <2>2. <<k, n + 1>> \in Chunks
    BY <2>1 DEF Chunks
  <2>3. PICK p \in Chunks : p = <<k, n + 1>>
    BY <2>2
  <2>4. /\ Append(s, p) \in Seq(Chunks) /\ Len(Append(s, p)) = n + 1
        /\ \A i \in 1..n : Append(s, p)[i] = s[i]
        /\ Append(s, p)[n + 1] = p
    BY <1>4, Appended
  <2> QED BY <2>3, <2>4
<1>6. \A i \in 1..n + 1 : i \in 1..n \/ i = n + 1
  OBVIOUS
<1>7. \A i \in 1..n + 1 : u[i] = t[i]
  BY <1>4, <1>5, <1>6
<1>8. u = t
  BY <1>4, <1>5, <1>7, SeqEqual
<1> QED BY <1>1, <1>2, <1>3, <1>5, <1>8

(* What a step is for the pipe: nothing, a stream sent or one received.    *)
PipeMoves ==
  /\ Grows(sends, sends')
  /\ \/ Sending' = Sending /\ Receiving' = Receiving
     \/ Sending' = Sending + 1 /\ Receiving' = Receiving
     \/ Sending' = Sending /\ Receiving' = Receiving + 1

PipeStep == PipeInv' /\ PipeMoves

(* The assumptions.                                                        *)
NothingFails == Faults = {} /\ 0 \notin Sizes

(* Where the calls are.                                                    *)
LEMMA Positions ==
  ASSUME TypeInv
  PROVE  /\ Call \in Nat /\ This \in Nat /\ Sending \in Nat /\ Receiving \in Nat
         /\ DOMAIN sends = 1..Call /\ DOMAIN receives = 1..This
         /\ sends \in Seq(SendEntry) /\ receives \in Seq(ReceiveEntry) /\ wire \in Seq(Frames)
         /\ sender.active => Call \in 1..Call
         /\ receiver.active => This \in 1..This
         /\ sender.totalSent \in Nat /\ receiver.totalReceived \in Nat
<1>1. sends \in Seq(SendEntry) /\ receives \in Seq(ReceiveEntry) /\ wire \in Seq(Frames)
  BY DEF TypeInv, TypeOK, SendEntry, ReceiveEntry
<1>2. /\ Call \in Nat /\ This \in Nat
      /\ DOMAIN sends = 1..Call /\ DOMAIN receives = 1..This
  BY <1>1, LenProperties DEF Call, This
<1>3. sender.active => Call \in 1..Call
  <2>1. sender.active => Call # 0
    BY <1>1, EmptySeq DEF TypeInv, SenderInv, Call
  <2> QED BY <1>2, <2>1
<1>4. receiver.active => This \in 1..This
  <2>1. receiver.active => This # 0
    BY <1>1, EmptySeq DEF TypeInv, ReceiverInv, This
  <2> QED BY <1>2, <2>1
<1>5. sender.totalSent \in Nat /\ receiver.totalReceived \in Nat
  BY DEF TypeInv, TypeOK
<1> QED BY <1>1, <1>2, <1>3, <1>4, <1>5 DEF Sending, Receiving

(* What has been received stays what was sent when the sender moves.       *)
LEMMA SenderPipe ==
  ASSUME TypeInv, PipeInv, Grows(sends, sends'), UNCHANGED recvVars,
         Sending' \in Nat, Sending <= Sending'
  PROVE  ReceivesInv' /\ Receiving' = Receiving
<1>1. /\ UNCHANGED <<receiver, receives>> /\ This' = This /\ Receiving' = Receiving
  BY DEF recvVars, This, Receiving
<1>2. \A r \in 1..Receiving - 1 : sends'[r].size = sends[r].size
  <2>1. \A r \in 1..Receiving - 1 : r \in 1..Call
    BY Positions DEF PipeInv, ReceivesInv, Sending
  <2> QED BY <2>1, Positions DEF Grows
<1>3. Receiving <= Sending'
  BY Positions DEF PipeInv, ReceivesInv
<1>4. \A r \in 1..Receiving - 1 : receives[r].chunks = Stream(r, sends'[r].size)
  BY <1>2 DEF PipeInv, ReceivesInv
<1> QED BY <1>1, <1>3, <1>4 DEF PipeInv, ReceivesInv

(* SendStream begins.                                                      *)
LEMMA BeginPipe ==
  ASSUME TypeInv, PipeInv, TypeInv', NEW size \in Sizes, NEW known \in BOOLEAN,
         SendStream(size, known)
  PROVE  PipeStep
<1>1. Grows(sends, sends') /\ UNCHANGED <<wire, rest, connVars, recvVars>>
  BY BeginIsQuiet DEF QuietStep, SenderMoves
<1>2. /\ Len(sends') = Len(sends) + 1 /\ sends'[Len(sends')].size = size
      /\ \A k \in 1..Len(sends) : sends'[k] = sends[k]
  BY BeginSend
<1>3. ~sender.active /\ Len(sends) < MaxSends /\ sender'.active
  BY DEF SendStream, TypeInv, TypeOK
<1>4. sender.totalSent = 0 /\ sender'.totalSent = 0
  BY <1>3 DEF TypeInv, TypeOK, SenderInv, SendStream
<1>5. Sending' = Sending
  BY <1>2, <1>3 DEF Sending, Call
<1>6. SendsInv'
  <2>1. ~broken' /\ ~shut' /\ Len(sends') <= MaxSends
    BY <1>1, <1>2, <1>3, Positions DEF PipeInv, SendsInv, connVars, Call
  <2>2. ASSUME NEW k \in DOMAIN sends'
        PROVE  sends'[k].size \in Sizes /\ (sends'[k].result = "ok" <=> k < Sending')
    <3>1. DOMAIN sends' = 1..Len(sends')
      BY LenProperties DEF TypeInv, TypeOK
    <3>2. CASE k = Len(sends')
      <4>1. sends'[k].result = "open"
        BY <1>3, <3>2 DEF TypeInv, SenderInv, Call
      <4> QED BY <1>2, <1>3, <1>5, <3>2, <4>1, Positions DEF Sending, Call
    <3>3. CASE k # Len(sends')
      <4>1. k \in 1..Len(sends)
        BY <1>2, <3>1, <3>3, Positions DEF Call
      <4>2. sends'[k] = sends[k] /\ k \in DOMAIN sends
        BY <1>2, <4>1, Positions DEF Call
      <4> QED BY <1>5, <4>2 DEF PipeInv, SendsInv
    <3> QED BY <3>2, <3>3
  <2> QED BY <2>1, <2>2 DEF SendsInv
<1>7. ReceivesInv' /\ Receiving' = Receiving
  BY <1>1, <1>5, Positions, SenderPipe
<1>8. ChainInv'
  <2>1. Chain(sends', wire, Receiving, receiver.totalReceived, Sending, sender.totalSent)
    BY <1>1, Positions, ChainStays DEF PipeInv, ChainInv
  <2>2. receiver' = receiver /\ wire' = wire
    BY <1>1 DEF recvVars
  <2> QED BY <1>4, <1>5, <1>7, <2>1, <2>2 DEF ChainInv
<1> QED BY <1>1, <1>5, <1>6, <1>7, <1>8 DEF PipeStep, PipeInv, PipeMoves

(* The call under way sends its next frame.                                *)
LEMMA FramePipe ==
  ASSUME NothingFails, TypeInv, PipeInv, TypeInv',
         NEW g \in Frames, SentStep(g), SentPart(g)
  PROVE  PipeStep
<1>1. /\ Grows(sends, sends') /\ UNCHANGED <<rest, connVars, recvVars>>
      /\ wire' = Append(wire, g) /\ GoodFrame(sends', g)
      /\ sender.active /\ g.call = Call /\ Call' = Call
  BY DEF SentStep, SenderMoves, SentPart
<1>2. /\ DOMAIN sends = 1..Call /\ DOMAIN sends' = 1..Call /\ Call \in 1..Call /\ Call \in Nat
      /\ sends' \in Seq(SendEntry)
  <2>1. sends' \in Seq(SendEntry)
    BY DEF TypeInv, TypeOK, SendEntry
  <2> QED BY <1>1, <2>1, Positions, LenProperties DEF Call
<1>3. Size \in Sizes /\ Size # 0 /\ sends'[Call].size = Size
  BY <1>1, <1>2 DEF NothingFails, PipeInv, SendsInv, Size, Grows
<1>4. /\ Sending = Call
      /\ Sending' = IF g.last THEN Call + 1 ELSE Call
  BY <1>1 DEF Sending, SentPart
<1>5. NextCall(g) = Sending' /\ NextPart(g) = sender'.totalSent
  BY <1>1, <1>4 DEF NextCall, NextPart, SentPart, TypeInv, SenderInv
<1>6. Turn(sends', Sending, sender.totalSent, g)
  BY <1>1, <1>3, <1>4 DEF SentPart, Turn
<1>7. SendsInv'
  <2>1. ~broken' /\ ~shut' /\ Len(sends') <= MaxSends
    BY <1>1 DEF PipeInv, SendsInv, connVars, Call
  <2>2. ASSUME NEW k \in DOMAIN sends'
        PROVE  sends'[k].size \in Sizes /\ (sends'[k].result = "ok" <=> k < Sending')
    <3>1. CASE k = Call
      <4>1. sends'[Call].result = "ok" <=> g.last
        BY <1>1 DEF SentPart, TypeInv, SenderInv
      <4> QED BY <1>2, <1>3, <1>4, <3>1, <4>1
    <3>2. CASE k # Call
      <4>1. k \in DOMAIN sends /\ k < Call
        BY <1>2, <3>2
      <4>2. sends[k].result = "ok" /\ sends[k].size \in Sizes
        BY <1>4, <4>1 DEF PipeInv, SendsInv
      <4>3. sends'[k] = sends[k]
        BY <1>1, <4>1, <4>2 DEF Grows
      <4> QED BY <1>2, <1>4, <4>1, <4>2, <4>3
    <3> QED BY <3>1, <3>2
  <2> QED BY <2>1, <2>2 DEF SendsInv
<1>8. ReceivesInv' /\ Receiving' = Receiving
  BY <1>1, <1>2, <1>4, SenderPipe
<1>9. ChainInv'
  <2>1. Chain(sends', wire, Receiving, receiver.totalReceived, Sending, sender.totalSent)
    BY <1>1, Positions, ChainStays DEF PipeInv, ChainInv
  <2>2. Chain(sends', Append(wire, g), Receiving, receiver.totalReceived,
              NextCall(g), NextPart(g))
    BY <1>6, <2>1, Positions, ChainAppended
  <2>3. receiver' = receiver
    BY <1>1 DEF recvVars
  <2> QED BY <1>1, <1>5, <1>8, <2>2, <2>3 DEF ChainInv
<1> QED BY <1>1, <1>4, <1>7, <1>8, <1>9 DEF PipeStep, PipeInv, PipeMoves

(* ReceiveStream begins.                                                   *)
LEMMA BeginReceivePipe ==
  ASSUME TypeInv, PipeInv, TypeInv', ReceiveStream
  PROVE  PipeStep
<1>1. /\ UNCHANGED <<sendVars, wire, rest, connVars>> /\ ~receiver.active /\ receiver'.active
      /\ receiver.totalReceived = 0 /\ receiver'.totalReceived = 0
  <2>1. receiver \in ReceiveLocals /\ ~receiver.active /\ receiver.totalReceived = 0
    BY DEF ReceiveStream, TypeInv, TypeOK, ReceiverInv, ReceiveLocals
  <2> QED BY <2>1 DEF ReceiveStream, ReceiveLocals, wireVars
<1>2. /\ Len(receives') = Len(receives) + 1 /\ receives'[Len(receives')].chunks = <<>>
      /\ receives'[Len(receives')].result = "open"
      /\ \A r \in 1..Len(receives) : receives'[r] = receives[r]
  BY BeginReceive
<1>3. /\ This' = This + 1 /\ This \in Nat /\ DOMAIN receives = 1..This
      /\ DOMAIN receives' = 1..This + 1
  <2>1. receives' \in Seq(ReceiveEntry)
    BY DEF TypeInv, TypeOK, ReceiveEntry
  <2> QED BY <1>2, <2>1, Positions, LenProperties DEF This
<1>4. Receiving = This + 1 /\ Receiving' = This + 1
  BY <1>1, <1>3 DEF Receiving
<1>5. /\ sends' = sends /\ sender' = sender /\ Call' = Call /\ Sending' = Sending
  BY <1>1 DEF sendVars, Call, Sending
<1>6. SendsInv' /\ Grows(sends, sends')
  BY <1>1, <1>5 DEF PipeInv, SendsInv, Grows, connVars
<1>7. ChainInv'
  BY <1>1, <1>4, <1>5 DEF PipeInv, ChainInv
<1>8. ReceivesInv'
  <2>1. ASSUME NEW r \in DOMAIN receives'
        PROVE  receives'[r].result = "ok" <=> r < Receiving'
    <3>1. CASE r = This + 1
      BY <1>2, <1>3, <1>4, <3>1 DEF This
    <3>2. CASE r # This + 1
      <4>1. r \in 1..This /\ receives'[r] = receives[r]
        BY <1>2, <1>3, <3>2 DEF This
      <4> QED BY <1>3, <1>4, <4>1 DEF PipeInv, ReceivesInv
    <3> QED BY <3>1, <3>2
  <2>2. \A r \in 1..Receiving' - 1 : receives'[r].chunks = Stream(r, sends[r].size)
    <3>1. \A r \in 1..Receiving' - 1 : r \in 1..Receiving - 1 /\ r \in 1..This
      BY <1>3, <1>4
    <3> QED BY <1>2, <3>1 DEF PipeInv, ReceivesInv, This
  <2>3. receives'[This'].chunks = Stream(This', receiver'.totalReceived)
    <3>1. This' \in Nat
      BY <1>3
    <3>2. Stream(This', 0) = <<>>
      BY <3>1, StreamGrows
    <3> QED BY <1>1, <1>2, <3>2 DEF This
  <2>4. Receiving' <= Sending'
    BY <1>4, <1>5 DEF PipeInv, ReceivesInv
  <2> QED BY <1>5, <2>1, <2>2, <2>3, <2>4 DEF ReceivesInv
<1> QED BY <1>1, <1>4, <1>5, <1>6, <1>7, <1>8 DEF PipeStep, PipeInv, PipeMoves

(* The frame that is read is the next one.                                 *)
LEMMA ReadPipe ==
  ASSUME TypeInv, PipeInv, receiver.active, NEW f, Reads(f)
  PROVE  /\ f \in Frames /\ Turn(sends, This, receiver.totalReceived, f) /\ Starts(f)
         /\ Chain(sends, wire', NextCall(f), NextPart(f), Sending, sender.totalSent)
         /\ UNCHANGED <<sendVars, connVars>> /\ rest' = 0
<1>1. f \in Frames /\ UNCHANGED <<sendVars, connVars>>
  BY ReadingTypes
<1>2. wire # <<>> /\ f = Head(wire) /\ wire' = Tail(wire) /\ rest' = 0
  BY ReadsNext DEF PipeInv
<1>3. Receiving = This
  BY DEF Receiving
<1>4. /\ Turn(sends, This, receiver.totalReceived, f)
      /\ Chain(sends, wire', NextCall(f), NextPart(f), Sending, sender.totalSent)
  BY <1>2, <1>3, Positions, ChainRead DEF PipeInv, ChainInv
<1>5. Starts(f)
  <2>1. CASE receiver.totalReceived = 0
    BY <1>4, <2>1 DEF Turn, GoodFrame, Starts
  <2>2. CASE receiver.totalReceived # 0
    <3>1. receives[This] \in ReceiveEntry /\ receiver.totalReceived = Len(receives[This].chunks)
      BY ReadingTypes DEF TypeInv, ReceiverInv
    <3>2. receives[This].chunks # <<>>
      BY <2>2, <3>1, EmptySeq
    <3> QED BY <3>2 DEF TypeInv, ReceiverInv, Starts
  <2> QED BY <2>1, <2>2
<1> QED BY <1>1, <1>2, <1>4, <1>5

(* A frame is received: the stream grows by a part, or ends.               *)
LEMMA ReceiverPipe ==
  ASSUME TypeInv, PipeInv, TypeInv', receiver.active, UNCHANGED <<sendVars, connVars>>,
         rest' = 0,
         NEW e \in ReceiveEntry, receives' = [receives EXCEPT ![This] = e],
         NEW m, NEW n, Chain(sends, wire', m, n, Sending, sender.totalSent),
         receiver'.totalReceived = n,
         \/ /\ receiver'.active /\ e.result # "ok"
            /\ m = This /\ e.chunks = Stream(This, n)
         \/ /\ ~receiver'.active /\ e.result = "ok" /\ This < Sending
            /\ m = This + 1 /\ e.chunks = Stream(This, sends[This].size)
  PROVE  PipeStep
<1>1. /\ Len(receives') = This
      /\ \A r \in 1..This - 1 : receives'[r] = receives[r]
      /\ receives'[This] = e
  BY EntryReplaced DEF This
<1>2. /\ This' = This /\ This \in Nat /\ DOMAIN receives = 1..This /\ DOMAIN receives' = 1..This
      /\ This \in 1..This /\ Sending \in Nat
      /\ \A r \in 1..This : r = This \/ r \in 1..This - 1
  <2>1. receives' \in Seq(ReceiveEntry)
    BY DEF TypeInv, TypeOK, ReceiveEntry
  <2>2. This' = This /\ DOMAIN receives' = 1..This
    BY <1>1, <2>1, LenProperties DEF This
  <2> QED BY <2>2, Positions, UpTo
<1>3. sends' = sends /\ sender' = sender /\ Call' = Call /\ Sending' = Sending
  BY DEF sendVars, Call, Sending
<1>4. SendsInv' /\ Grows(sends, sends')
  BY <1>3 DEF PipeInv, SendsInv, Grows, connVars
<1>5. Receiving = This /\ Receiving' = m /\ (receiver'.active => m = This)
  BY <1>2 DEF Receiving
<1>6. ChainInv'
  BY <1>3, <1>5 DEF ChainInv
<1>7. ReceivesInv'
  <2>1. ASSUME NEW r \in DOMAIN receives'
        PROVE  receives'[r].result = "ok" <=> r < Receiving'
    <3>1. CASE r = This
      BY <1>1, <1>2, <1>5, <3>1
    <3>2. CASE r \in 1..This - 1
      <4>1. receives'[r] = receives[r] /\ r < This /\ r \in DOMAIN receives
        BY <1>1, <1>2, <3>2
      <4> QED BY <1>2, <1>5, <4>1 DEF PipeInv, ReceivesInv
    <3> QED BY <1>2, <3>1, <3>2
  <2>2. ASSUME NEW r \in 1..Receiving' - 1
        PROVE  receives'[r].chunks = Stream(r, sends[r].size)
    <3>1. CASE r = This
      BY <1>1, <1>2, <1>5, <3>1
    <3>2. CASE r # This
      <4>1. r \in 1..This - 1
        BY <1>2, <1>5, <3>2
      <4> QED BY <1>1, <1>5, <4>1 DEF PipeInv, ReceivesInv
    <3> QED BY <3>1, <3>2
  <2>3. receiver'.active => receives'[This].chunks = Stream(This, receiver'.totalReceived)
    BY <1>1, <1>5
  <2>4. Receiving' <= Sending'
    BY <1>2, <1>3, <1>5 DEF PipeInv, ReceivesInv
  <2> QED BY <1>2, <1>3, <2>1, <2>2, <2>3, <2>4 DEF ReceivesInv
<1>8. Receiving' = Receiving \/ Receiving' = Receiving + 1
  BY <1>5
<1> QED BY <1>3, <1>4, <1>6, <1>7, <1>8 DEF PipeStep, PipeInv, PipeMoves

(* A chunk is written.                                                     *)
LEMMA ChunkPipe ==
  ASSUME TypeInv, PipeInv, TypeInv', NEW f \in Readable, ReceiveChunk(f)
  PROVE  PipeStep
<1>1. receiver.active /\ Reads(f) /\ f.part # 0
  BY DEF ReceiveChunk, Reads
<1>2. PICK n \in Nat : n = receiver.totalReceived
  BY Positions
<1>3. /\ f \in Frames /\ Turn(sends, This, n, f) /\ UNCHANGED <<sendVars, connVars>>
      /\ rest' = 0
      /\ Chain(sends, wire', NextCall(f), NextPart(f), Sending, sender.totalSent)
  BY <1>1, <1>2, ReadPipe
<1>4. /\ f.call = This /\ f.part = n + 1 /\ This \in 1..This /\ This \in Nat
      /\ DOMAIN sends = 1..Call
      /\ f.last => n + 1 = sends[This].size /\ sends[This].result = "ok" /\ This \in DOMAIN sends
  BY <1>1, <1>3, Positions DEF Turn, GoodFrame
<1>5. Append(receives[This].chunks, Chunk(f)) = Stream(This, n + 1)
  <2>1. receives[This].chunks = Stream(This, n) /\ Chunk(f) = <<This, n + 1>>
    BY <1>1, <1>2, <1>4 DEF PipeInv, ReceivesInv, Chunk
  <2>2. PICK k \in Nat : k = This
    BY <1>4
  <2>3. Append(Stream(k, n), <<k, n + 1>>) = Stream(k, n + 1)
    BY StreamGrows
  <2> QED BY <2>1, <2>2, <2>3
<1>6. PICK e \in ReceiveEntry :
        /\ receives' = [receives EXCEPT ![This] = e] /\ e.chunks = Stream(This, n + 1)
        /\ IF f.last THEN e.result = "ok" /\ ~receiver'.active
                     ELSE e.result = "open" /\ receiver'.active /\ receiver'.totalReceived = n + 1
  BY <1>2, <1>5, ChunkEntry DEF Ends
<1>7. CASE f.last
  <2>1. /\ NextCall(f) = This + 1 /\ NextPart(f) = 0 /\ receiver'.totalReceived = 0
        /\ This < Sending
    BY <1>4, <1>6, <1>7 DEF NextCall, NextPart, PipeInv, SendsInv, TypeInv, ReceiverInv
  <2>2. Chain(sends, wire', This + 1, 0, Sending, sender.totalSent)
    BY <1>3, <2>1
  <2> QED BY <1>1, <1>3, <1>4, <1>6, <1>7, <2>1, <2>2, ReceiverPipe
<1>8. CASE ~f.last
  <2>1. Chain(sends, wire', This, n + 1, Sending, sender.totalSent)
    BY <1>3, <1>4, <1>8 DEF NextCall, NextPart
  <2> QED BY <1>1, <1>3, <1>6, <1>8, <2>1, ReceiverPipe
<1> QED BY <1>7, <1>8

(* The empty last frame ends the stream.                                   *)
LEMMA EndPipe ==
  ASSUME TypeInv, PipeInv, TypeInv', NEW f \in Readable, ReceiveEnd(f)
  PROVE  PipeStep
<1>1. /\ receiver.active /\ Reads(f) /\ f.part = 0
      /\ ReceiveReturn(Returned(Reading, "ok", f.call), Complete(rTracker))
  BY DEF ReceiveEnd, Reads
<1>2. PICK n \in Nat : n = receiver.totalReceived
  BY Positions
<1>3. /\ f \in Frames /\ Turn(sends, This, n, f) /\ UNCHANGED <<sendVars, connVars>>
      /\ rest' = 0
      /\ Chain(sends, wire', NextCall(f), NextPart(f), Sending, sender.totalSent)
  BY <1>1, <1>2, ReadPipe
<1>4. /\ f.call = This /\ f.last /\ n = sends[This].size
      /\ This \in DOMAIN sends /\ sends[This].result = "ok"
  BY <1>1, <1>2, <1>3 DEF Turn, GoodFrame
<1>5. PICK e \in ReceiveEntry : e = Returned(Reading, "ok", f.call)
  BY <1>1, <1>3, ReadingTypes DEF Frames, Results
<1>6. /\ e.chunks = receives[This].chunks /\ e.result = "ok"
      /\ receives' = [receives EXCEPT ![This] = e]
      /\ ~receiver'.active /\ receiver'.totalReceived = 0
  <2>1. Reading \in ReceiveEntry /\ Reading.chunks = receives[This].chunks
    BY <1>1, ReadingTypes
  <2> QED BY <1>1, <1>5, <2>1 DEF ReceiveReturn, Returned, ReceiveEntry
<1>7. e.chunks = Stream(This, sends[This].size)
  BY <1>1, <1>2, <1>4, <1>6 DEF PipeInv, ReceivesInv
<1>8. This < Sending
  BY <1>4 DEF PipeInv, SendsInv
<1>9. Chain(sends, wire', This + 1, 0, Sending, sender.totalSent)
  BY <1>3, <1>4 DEF NextCall, NextPart
<1> QED BY <1>1, <1>3, <1>6, <1>7, <1>8, <1>9, ReceiverPipe

(* Every step is one of the pipe.                                          *)
LEMMA NextPipe ==
  ASSUME NothingFails, TypeInv, PipeInv, [Next]_vars
  PROVE  PipeStep
<1>1. TypeInv' /\ ~broken /\ ~shut
  BY NextTypes DEF PipeInv, SendsInv
<1>2. ASSUME NEW size \in Sizes, NEW known \in BOOLEAN, SendStream(size, known)
      PROVE  PipeStep
  BY <1>1, <1>2, BeginPipe
<1>3. CASE SendStep
  <2>1. ASSUME NEW isLast \in BOOLEAN, SendChunk(isLast) PROVE PipeStep
    BY <1>1, <2>1, ChunkIsSent, FramePipe
  <2>2. CASE SendEnd
    BY <1>1, <2>2, EndIsSent, FramePipe
  <2>3. ~(\E error \in AllFaults : SendFails(error))
    BY <1>1 DEF SendFails, NothingFails
  <2> QED BY <1>3, <2>1, <2>2, <2>3 DEF SendStep
<1>4. CASE ReceiveStream
  BY <1>1, <1>4, BeginReceivePipe
<1>5. CASE ReceiveStep
  <2>1. ~(\E f \in Readable : ReceiveViolation(f) \/ ReceiveWriteFails(f))
    <3>1. ASSUME NEW f, Reads(f) PROVE Starts(f)
      BY <3>1, ReadPipe DEF Reads
    <3> QED BY <3>1 DEF ReceiveViolation, ReceiveWriteFails, NothingFails
  <2>2. ~ReadsAstray
    BY DEF ReadsAstray, Skips, PipeInv
  <2>3. ~(\E error \in AllFaults \cup {"garbled"} : ReceiveFails(error)) /\ ~ReceiveNothing
    BY <1>1, <2>2 DEF ReceiveFails, ReadFails, ReceiveNothing, NothingFails
  <2> QED BY <1>1, <1>5, <2>1, <2>3, ChunkPipe, EndPipe DEF ReceiveStep
<1>6. ~(Reset \/ Close)
  BY DEF Reset, Close, NothingFails
<1>7. CASE UNCHANGED vars
  BY <1>7 DEF vars, sendVars, wireVars, connVars, recvVars, PipeStep, PipeMoves,
              PipeInv, SendsInv, ReceivesInv,
              ChainInv, Grows, Sending, Receiving, Call, This
<1> QED BY <1>2, <1>3, <1>4, <1>5, <1>6, <1>7 DEF Next

(* The streams of the first n calls.                                       *)
Streams(calls, n) == [i \in 1..n |-> Stream(i, calls[i].size)]

Mapped ==
  /\ SentStreams = Streams(sends, Sending - 1)
  /\ ReceivedStreams = Streams(sends, Receiving - 1)

(* The calls that succeeded, when they are the first ones.                 *)
LEMMA FirstSucceed ==
  ASSUME NEW calls, NEW n \in Nat, {k \in DOMAIN calls : calls[k].result = "ok"} = 1..n
  PROVE  Successful(calls) = [i \in 1..n |-> i] /\ Len(Successful(calls)) = n
<1>1. \A j \in Nat : Cardinality(1..j) = j
  <2> SUFFICES ASSUME NEW j \in Nat PROVE Cardinality(1..j) = j
    OBVIOUS
  <2>1. Cardinality(1..j) = IF 1 > j THEN 0 ELSE j - 1 + 1
    BY FS_Interval
  <2> QED BY <2>1
<1>2. \A k \in 1..n : Cardinality({j \in 1..n : j <= k}) = k
  <2> SUFFICES ASSUME NEW k \in 1..n PROVE Cardinality({j \in 1..n : j <= k}) = k
    OBVIOUS
  <2>1. {j \in 1..n : j <= k} = 1..k /\ k \in Nat
    OBVIOUS
  <2>2. Cardinality(1..k) = k
    BY <1>1, <2>1
  <2> QED BY <2>1, <2>2
<1>3. \A i \in 1..n : (CHOOSE k \in 1..n : Cardinality({j \in 1..n : j <= k}) = i) = i
  BY <1>2
<1>4. Successful(calls) = [i \in 1..n |-> i]
  <2> DEFINE Ordered(ok) ==
        [i \in 1..Cardinality(ok) |-> CHOOSE k \in ok : Cardinality({j \in ok : j <= k}) = i]
  <2>1. Successful(calls) = Ordered({k \in DOMAIN calls : calls[k].result = "ok"})
    BY DEF Successful
  <2>2. Ordered(1..n) = [i \in 1..n |-> i]
    BY <1>1, <1>3
  <2> HIDE DEF Ordered
  <2> QED BY <2>1, <2>2
<1>5. [i \in 1..n |-> i] \in [1..n -> Nat]
  OBVIOUS
<1> QED BY <1>4, <1>5, IsASeq, LenProperties

(* So what was sent and what was received are the first streams.           *)
LEMMA PipeMapped ==
  ASSUME TypeInv, PipeInv
  PROVE  Mapped
<1>1. PICK m, n \in Nat : m = Sending - 1 /\ n = Receiving - 1
  BY Positions DEF Sending, Receiving
<1>2. {k \in DOMAIN sends : sends[k].result = "ok"} = 1..m
  <2>1. \A k \in DOMAIN sends : sends[k].result = "ok" <=> k \in 1..m
    BY <1>1, Positions DEF PipeInv, SendsInv, Sending
  <2>2. 1..m \subseteq DOMAIN sends
    BY <1>1, Positions DEF Sending
  <2> QED BY <2>1, <2>2
<1>3. {r \in DOMAIN receives : receives[r].result = "ok"} = 1..n
  <2>1. \A r \in DOMAIN receives : receives[r].result = "ok" <=> r \in 1..n
    BY <1>1, Positions DEF PipeInv, ReceivesInv, Receiving
  <2>2. 1..n \subseteq DOMAIN receives
    BY <1>1, Positions DEF Receiving
  <2> QED BY <2>1, <2>2
<1>4. SentStreams = Streams(sends, m)
  <2>1. Successful(sends) = [i \in 1..m |-> i] /\ Len(Successful(sends)) = m
    BY <1>2, FirstSucceed
  <2> QED BY <2>1 DEF SentStreams, Streams
<1>5. ReceivedStreams = Streams(sends, n)
  <2>1. Successful(receives) = [i \in 1..n |-> i] /\ Len(Successful(receives)) = n
    BY <1>3, FirstSucceed
  <2>2. \A r \in 1..n : receives[r].chunks = Stream(r, sends[r].size)
    BY <1>1 DEF PipeInv, ReceivesInv
  <2> QED BY <2>1, <2>2 DEF ReceivedStreams, Streams
<1> QED BY <1>1, <1>4, <1>5 DEF Mapped

(* One stream more.                                                        *)
LEMMA StreamsGrow ==
  ASSUME NEW calls, NEW n \in Nat
  PROVE  /\ Len(Streams(calls, n)) = n
         /\ Streams(calls, n + 1) = Append(Streams(calls, n), Stream(n + 1, calls[n + 1].size))
<1> DEFINE S == {Stream(i, calls[i].size) : i \in 1..n + 1}
<1>1. PICK s, t, e : /\ s = Streams(calls, n) /\ t = Streams(calls, n + 1)
                     /\ e = Stream(n + 1, calls[n + 1].size)
  OBVIOUS
<1>2. /\ s \in [1..n -> S] /\ t \in [1..n + 1 -> S] /\ e \in S
      /\ \A i \in 1..n : t[i] = s[i]
      /\ t[n + 1] = e
  BY <1>1 DEF Streams
<1> HIDE DEF S
<1>3. s \in Seq(S) /\ Len(s) = n /\ t \in Seq(S) /\ Len(t) = n + 1
  <2>1. n + 1 \in Nat
    OBVIOUS
  <2> QED BY <1>2, <2>1, IsASeq, LenProperties
<1>4. PICK u \in Seq(S) : /\ u = Append(s, e) /\ Len(u) = n + 1
                          /\ \A i \in 1..n : u[i] = s[i]
                          /\ u[n + 1] = e
  BY <1>2, <1>3, Appended
<1>5. \A i \in 1..n + 1 : i \in 1..n \/ i = n + 1
  OBVIOUS
<1>6. \A i \in 1..n + 1 : u[i] = t[i]
  BY <1>2, <1>4, <1>5
<1>7. u = t
  BY <1>3, <1>4, <1>6, SeqEqual
<1> QED BY <1>1, <1>3, <1>4, <1>7

(* A step of the calls is a step of the pipe.                              *)
LEMMA MappedStep ==
  ASSUME TypeInv, PipeInv, Mapped, TypeInv', PipeInv', Mapped', PipeMoves
  PROVE  [Pipe!Next]_<<SentStreams, ReceivedStreams>>
<1>1. PICK m, n \in Nat : m = Sending - 1 /\ n = Receiving - 1 /\ n <= m /\ m <= Call
  BY Positions DEF Sending, Receiving, PipeInv, ReceivesInv
<1>2. PICK p, q \in Nat : p = Sending' - 1 /\ q = Receiving' - 1 /\ q <= p /\ p <= Call'
  <2>1. /\ Call' \in Nat /\ This' \in Nat
    <3>1. sends' \in Seq(SendEntry) /\ receives' \in Seq(ReceiveEntry)
      BY DEF TypeInv, TypeOK, SendEntry, ReceiveEntry
    <3> QED BY <3>1, LenProperties DEF Call, This
  <2>2. sender'.active => Call' # 0
    BY EmptySeq DEF TypeInv, TypeOK, SenderInv, Call
  <2>3. receiver'.active => This' # 0
    BY EmptySeq DEF TypeInv, TypeOK, ReceiverInv, This
  <2>4. PICK c, d \in Nat : c = Call' /\ d = This'
    BY <2>1
  <2>5. PICK a, b : a = Sending' /\ b = Receiving'
    OBVIOUS
  <2>6. /\ a = IF sender'.active THEN c ELSE c + 1
        /\ b = IF receiver'.active THEN d ELSE d + 1
    BY <2>4, <2>5 DEF Sending, Receiving
  <2>7. b <= a
    BY <2>5 DEF PipeInv, ReceivesInv
  <2>8. (sender'.active => c # 0) /\ (receiver'.active => d # 0)
    BY <2>2, <2>3, <2>4
  <2>9. a - 1 \in Nat /\ b - 1 \in Nat /\ b - 1 <= a - 1 /\ a - 1 <= c
    BY <2>6, <2>7, <2>8
  <2> QED BY <2>4, <2>5, <2>9
<1>3. /\ SentStreams = Streams(sends, m) /\ ReceivedStreams = Streams(sends, n)
      /\ SentStreams' = Streams(sends', p) /\ ReceivedStreams' = Streams(sends', q)
  BY <1>1, <1>2 DEF Mapped
<1>4. Streams(sends', m) = Streams(sends, m) /\ Streams(sends', n) = Streams(sends, n)
  <2>1. \A i \in 1..m : sends'[i].size = sends[i].size
    <3>1. \A i \in DOMAIN sends : sends'[i].size = sends[i].size
      BY DEF PipeMoves, Grows
    <3>2. DOMAIN sends = 1..Call /\ Call \in Nat
      BY Positions
    <3>3. \A i \in 1..m : i \in 1..Call
      BY <1>1, <3>2
    <3> QED BY <3>1, <3>2, <3>3
  <2>2. \A i \in 1..n : i \in 1..m
    BY <1>1
  <2> QED BY <2>1, <2>2 DEF Streams
<1>5. CASE p = m /\ q = n
  BY <1>3, <1>4, <1>5
<1>6. CASE p = m + 1 /\ q = n
  <2>1. /\ m + 1 \in 1..MaxSends /\ sends'[m + 1].size \in Sizes
    <3>1. sends' \in Seq(SendEntry)
      BY DEF TypeInv, TypeOK, SendEntry
    <3>2. Call' <= MaxSends /\ Call' \in Nat /\ DOMAIN sends' = 1..Call'
      BY <3>1, LenProperties DEF PipeInv, SendsInv, Call
    <3>3. m + 1 \in 1..Call'
      BY <1>2, <1>6, <3>2
    <3> QED BY <3>2, <3>3 DEF PipeInv, SendsInv
  <2>2. PICK c : c = Stream(m + 1, sends'[m + 1].size)
    OBVIOUS
  <2>3. c \in {Stream(k, size) : k \in 1..MaxSends, size \in Sizes}
    BY <2>1, <2>2
  <2>4. Streams(sends', m + 1) = Append(Streams(sends', m), c)
    BY <2>2, StreamsGrow
  <2>5. SentStreams' = Append(SentStreams, c) /\ ReceivedStreams' = ReceivedStreams
    BY <1>3, <1>4, <1>6, <2>4
  <2> QED BY <2>3, <2>5 DEF Pipe!Next, Pipe!Send
<1>7. CASE p = m /\ q = n + 1
  <2>1. Len(SentStreams) = m /\ Len(ReceivedStreams) = n /\ n + 1 \in 1..m
    BY <1>2, <1>3, <1>7, StreamsGrow
  <2>2. SentStreams[n + 1] = Stream(n + 1, sends'[n + 1].size)
    BY <1>3, <1>4, <2>1 DEF Streams
  <2>3. Streams(sends', n + 1) = Append(Streams(sends', n), SentStreams[n + 1])
    BY <2>2, StreamsGrow
  <2>4. /\ ReceivedStreams' = Append(ReceivedStreams, SentStreams[Len(ReceivedStreams) + 1])
        /\ SentStreams' = SentStreams
    BY <1>3, <1>4, <1>7, <2>1, <2>3
  <2>5. Len(ReceivedStreams) < Len(SentStreams)
    BY <2>1
  <2> QED BY <2>4, <2>5 DEF Pipe!Next, Pipe!Receive
<1>8. (p = m /\ q = n) \/ (p = m + 1 /\ q = n) \/ (p = m /\ q = n + 1)
  <2>1. PICK a, b \in Nat : a = Sending /\ b = Receiving
    BY Positions
  <2>2. PICK c, d : c = Sending' /\ d = Receiving'
    OBVIOUS
  <2>3. m = a - 1 /\ n = b - 1 /\ p = c - 1 /\ q = d - 1
    BY <1>1, <1>2, <2>1, <2>2
  <2>4. (c = a /\ d = b) \/ (c = a + 1 /\ d = b) \/ (c = a /\ d = b + 1)
    BY <2>1, <2>2 DEF PipeMoves
  <2> QED BY <2>1, <2>3, <2>4
<1> QED BY <1>5, <1>6, <1>7, <1>8

(* At first nothing was sent or received.                                  *)
LEMMA InitPipe == Init => PipeInv /\ Pipe!Init
<1> SUFFICES ASSUME Init PROVE PipeInv /\ Pipe!Init
  OBVIOUS
<1>1. /\ TypeInv /\ Call = 0 /\ This = 0 /\ Sending = 1 /\ Receiving = 1
      /\ DOMAIN sends = {} /\ DOMAIN receives = {} /\ Len(wire) = 0
  <2>1. Call = 0 /\ This = 0 /\ Len(wire) = 0
    BY EmptySeq DEF Init, Call, This
  <2>2. TypeInv
    BY InitTypes
  <2> QED BY <2>1, <2>2, Positions DEF Init, Sending, Receiving
<1>2. PipeInv
  <2>1. Chain(sends, wire, 1, 0, 1, 0)
    BY <1>1 DEF Init, Chain
  <2>2. \A r \in 1..1 - 1 : FALSE
    OBVIOUS
  <2> QED BY <1>1, <2>1, <2>2 DEF Init, PipeInv, SendsInv, ReceivesInv, ChainInv, Call
<1>3. Streams(sends, 0) = <<>>
  <2>1. Streams(sends, 0) \in [1..0 -> {}]
    BY DEF Streams
  <2> QED BY <2>1, IsASeq, EmptySeq, StreamsGrow
<1>4. SentStreams = <<>> /\ ReceivedStreams = <<>>
  BY <1>1, <1>2, <1>3, PipeMapped DEF Mapped
<1> QED BY <1>2, <1>4 DEF Pipe!Init

(* When nothing fails and no stream is empty, SendStream and ReceiveStream *)
(* implement the pipe: whole streams, in the order they were sent, each    *)
(* received once.                                                          *)
THEOREM ImplementsPipe ==
  ASSUME NothingFails
  PROVE  Spec => PipeSpec
<1> DEFINE Inv == TypeInv /\ PipeInv
<1>1. Init => Inv /\ Pipe!Init
  BY InitTypes, InitPipe
<1>2. Inv /\ [Next]_vars => Inv'
  BY NextTypes, NextPipe DEF PipeStep
<1>3. Inv => Mapped
  BY PipeMapped
<1>4. Inv /\ Mapped /\ Inv' /\ Mapped' /\ [Next]_vars
        => [Pipe!Next]_<<SentStreams, ReceivedStreams>>
  BY NextPipe, MappedStep DEF PipeStep
<1> HIDE DEF Inv
<1> QED BY <1>1, <1>2, <1>3, <1>4, PTL DEF Spec, PipeSpec, Pipe!Spec

=============================================================================
