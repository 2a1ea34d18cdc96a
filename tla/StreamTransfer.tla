--------------------------- MODULE StreamTransfer ---------------------------
(***************************************************************************)
(* SendStream and ReceiveStream of the message transporter                 *)
(* (src/message_transporter.go) on the two ends of one connection, each    *)
(* with the progress tracker it reports to.  The application calls them    *)
(* one after the other, again after a failure, never two at once on the    *)
(* same end.                                                               *)
(*                                                                         *)
(* A frame is sent in one step and read in one, unless a deadline passes   *)
(* in the middle of it: what has been read is lost, the rest of the frame  *)
(* stays, and the next call takes what it finds there for a header.  What  *)
(* the frame processor makes of such bytes may be anything.  A reader      *)
(* returns chunks of one unit, and the end of file with its last chunk or  *)
(* after it.                                                               *)
(***************************************************************************)
EXTENDS TransferRecord, ErrorHandler, Sequences, FiniteSets

CONSTANTS
  Sizes,       \* how many chunks a reader may hold
  Window,      \* frames the connection holds before WriteFrame blocks
  Estimate,    \* LargeMessageSize: the total assumed for unknown sizes
  Faults,      \* what may go wrong, of AllFaults
  Strategies,  \* of the two ends' error handlers
  MaxRest,     \* bound: pieces of a frame that a failed read leaves
  MaxSends,    \* bound: calls of SendStream
  MaxReceives  \* bound: calls of ReceiveStream

(* The last two are what a closed connection gives its other end and its   *)
(* own.                                                                    *)
AllFaults == {"readerError", "writerError", "timeout", "reset", "eof", "closed"}

ASSUME SizesAssumption == Sizes \subseteq Nat
ASSUME FaultsAssumption == Faults \subseteq AllFaults
ASSUME StrategiesAssumption == Strategies \in [Severities -> ErrorStrategies]
ASSUME EstimateAssumption == Estimate \in Nat \ {0}
ASSUME BoundsAssumption ==
  Window \in Nat /\ MaxRest \in Nat /\ MaxSends \in Nat /\ MaxReceives \in Nat

VARIABLES
  sender,     \* locals of SendStream
  sTracker,   \* its record in the sender's tracker
  sends,      \* history: size and result of every SendStream
  wire,       \* frames in flight
  rest,       \* pieces left of the first of them, 0 when nothing of it was read
  broken,     \* the connection was reset
  shut,       \* the sending end closed the connection
  receiver,   \* locals of ReceiveStream
  rTracker,   \* its record in the receiver's tracker
  receives    \* history: of every ReceiveStream the chunks written, the send
              \* call whose last frame ended it, its result, and whether it
              \* read on in the middle of a frame

sendVars == <<sender, sTracker, sends>>
recvVars == <<receiver, rTracker, receives>>
wireVars == <<wire, rest>>
connVars == <<broken, shut>>
vars == <<sendVars, wireVars, connVars, recvVars>>

(* A frame of the given call with its part of the stream, 0 for no data.   *)
Frame(call, part, first, last) ==
  [call |-> call, part |-> part, first |-> first, last |-> last]

Chunk(f) == <<f.call, f.part>>

Init ==
  /\ sender = [active |-> FALSE, isFirstChunk |-> TRUE, totalSent |-> 0]
  /\ sTracker = Fresh(0)
  /\ sends = <<>>
  /\ wire = <<>> /\ rest = 0
  /\ broken = FALSE /\ shut = FALSE
  /\ receiver = [active |-> FALSE, fragmentStart |-> FALSE, totalReceived |-> 0]
  /\ rTracker = Fresh(0)
  /\ receives = <<>>

-----------------------------------------------------------------------------
(* Faulty variants, one per property: TLC must reject them.                *)

(* A chunk is marked as the last one although the reader has more to give. *)
AtEof_Early == TRUE

(* A chunk is written whatever came before it.                             *)
Starts_Unchecked(f) == TRUE

(* StopTracking is not called on return.                                   *)
Stop_Forgotten(r) == r

(* The chunk that ends a stream does not end ReceiveStream.                *)
Ends_Never(f) == FALSE

(* Reading has no deadline.                                                *)
ReadFails_NoDeadline(error) == error = "reset" /\ broken /\ UNCHANGED wireVars

(* Errors come back as they are.                                           *)
HandleError_Unwrapped(error) == error

-----------------------------------------------------------------------------
(* The tracker's operations, whose errors the transporter ignores.         *)

Progress(r, bytes) == IF CanProgress(r) THEN AfterProgress(r, bytes, FALSE) ELSE r
Complete(r) == IF ValidTransition(r.status, "Completed")
                 THEN WithStatus(r, "Completed") ELSE r
Fail(r) == IF CanFail(r) THEN WithStatus(r, "Failed") ELSE r
Stop(r) == IF CanCancel(r) THEN WithStatus(r, "Cancelled") ELSE r

(* What the error handler sees of an error.                                *)
ErrorOf(error) ==
  CASE error = "timeout" -> [Unknown EXCEPT !.net = "timeout"]
    [] error = "reset"   -> [Unknown EXCEPT !.net = "other"]
    [] error = "eof"     -> [Unknown EXCEPT !.eof = TRUE]
    [] error = "closed"  -> [Unknown EXCEPT !.text = "use of closed network connection"]
    [] OTHER             -> Unknown

(* handleError: what is to be retried comes back as a RetryableError, what *)
(* is to be ignored as no error, and the rest as it is.                    *)
HandleError(error) ==
  LET strategy == StrategyFor(Strategies, ErrorOf(error)) IN
  CASE strategy = "Retry"  -> "retry"
    [] strategy = "Ignore" -> "ok"
    [] OTHER               -> error

-----------------------------------------------------------------------------
(* SendStream.                                                             *)

Call == Len(sends)
Size == sends[Call].size

(* Return with a result: the deferred StopTracking, the local state gone.  *)
SendReturn(result, tracker) ==
  /\ sender' = [active |-> FALSE, isFirstChunk |-> TRUE, totalSent |-> 0]
  /\ sends' = [sends EXCEPT ![Call].result = result]
  /\ sTracker' = Stop(tracker)

(* The total is the reader's, when it has a Size, or else the estimate.    *)
SendStream(size, known) ==
  /\ ~sender.active /\ Len(sends) < MaxSends
  /\ sends' = Append(sends, [size |-> size, result |-> "open"])
  /\ sender' = [sender EXCEPT !.active = TRUE]
  /\ sTracker' = Fresh(IF known THEN size ELSE Estimate)
  /\ UNCHANGED <<wireVars, connVars, recvVars>>

WriteFrame(f) ==
  /\ ~broken /\ ~shut /\ Len(wire) < Window
  /\ wire' = Append(wire, f)
  /\ UNCHANGED rest

(* A chunk is the last when the reader says so with it.                    *)
AtEof == sender.totalSent + 1 = Size

SendChunk(isLast) ==
  LET sent    == sender.totalSent + 1
      tracker == Progress(sTracker, sent)
  IN
  /\ sender.active /\ sender.totalSent < Size
  /\ isLast => AtEof
  /\ WriteFrame(Frame(Call, sent, sender.isFirstChunk, isLast))
  /\ IF isLast
       THEN SendReturn("ok", Complete(tracker))
       ELSE /\ sender' = [active |-> TRUE, isFirstChunk |-> FALSE, totalSent |-> sent]
            /\ sTracker' = tracker
            /\ UNCHANGED sends
  /\ UNCHANGED <<connVars, recvVars>>

(* The end of file comes without data: an empty last frame.                *)
SendEnd ==
  /\ sender.active /\ sender.totalSent = Size
  /\ WriteFrame(Frame(Call, 0, FALSE, TRUE))
  /\ SendReturn("ok", Complete(sTracker))
  /\ UNCHANGED <<connVars, recvVars>>

(* The reader or WriteFrame fails: nothing tells the receiver.             *)
SendFails(error) ==
  /\ sender.active
  /\ \/ error = "readerError" /\ error \in Faults
     \/ error = "reset" /\ broken
     \/ error = "closed" /\ shut
  /\ SendReturn(HandleError(error), Fail(sTracker))
  /\ UNCHANGED <<wireVars, connVars, recvVars>>

-----------------------------------------------------------------------------
(* ReceiveStream.                                                          *)

This == Len(receives)

(* The history of this call with the read that it is about to end.         *)
Reading == [receives[This] EXCEPT !.astray = @ \/ rest > 0]

(* What the history says when a call returns, having ended with a frame of *)
(* a send call or with none.                                               *)
Returned(receive, result, ended) == [receive EXCEPT !.result = result, !.ended = ended]

ReceiveReturn(receive, tracker) ==
  /\ receiver' = [active |-> FALSE, fragmentStart |-> FALSE, totalReceived |-> 0]
  /\ rTracker' = Stop(tracker)
  /\ receives' = [receives EXCEPT ![This] = receive]

ReceiveStream ==
  /\ ~receiver.active /\ Len(receives) < MaxReceives
  /\ receiver' = [receiver EXCEPT !.active = TRUE]
  /\ rTracker' = Fresh(Estimate)
  /\ receives' = Append(receives,
                 [chunks |-> <<>>, ended |-> 0, result |-> "open", astray |-> FALSE])
  /\ UNCHANGED <<sendVars, wireVars, connVars>>

(* From the middle of a frame a read goes on behind any number of frames,  *)
(* or still inside the first, as the bytes it takes for a header say.      *)
Skips(n, r) ==
  /\ rest > 0 /\ n \in 0..Len(wire)
  /\ IF n = 0 THEN r \in 1..rest - 1
     ELSE r \in 0..MaxRest /\ (n = Len(wire) => r = 0)
  /\ wire' = SubSeq(wire, n + 1, Len(wire))
  /\ rest' = r

ReadsAstray == \E n \in 0..Len(wire), r \in 0..MaxRest : Skips(n, r)

(* The frames that a read may return: the next one, or what the middle of  *)
(* one is taken for.                                                       *)
Junk == [call : {0}, part : {0, 1}, first : BOOLEAN, last : BOOLEAN]
Readable ==
  IF wire = <<>> THEN {} ELSE IF rest > 0 THEN Junk ELSE {Head(wire)}

(* ReadFrameWithFlags returns f.                                           *)
Reads(f) ==
  /\ receiver.active
  /\ f \in Readable
  /\ IF rest > 0 THEN ReadsAstray ELSE wire' = Tail(wire) /\ UNCHANGED rest
  /\ UNCHANGED <<sendVars, connVars>>

(* The frame belongs to a stream whose start this call has seen.           *)
Starts(f) == receiver.fragmentStart \/ f.first

Ends(f) == f.last

(* The protocol error returns without marking the transfer as failed.      *)
ReceiveViolation(f) ==
  /\ Reads(f)
  /\ ~Starts(f)
  /\ ReceiveReturn(Returned(Reading, HandleError("protocol"), 0), rTracker)

(* The total is doubled each time the estimate turns out too small.        *)
Received(n) ==
  Progress(IF n > Estimate THEN WithTotal(rTracker, 2 * n) ELSE rTracker, n)

ReceiveChunk(f) ==
  LET n       == receiver.totalReceived + 1
      receive == [Reading EXCEPT !.chunks = Append(@, Chunk(f))]
  IN
  /\ Reads(f)
  /\ Starts(f) /\ f.part # 0
  /\ IF Ends(f)
       THEN ReceiveReturn(Returned(receive, "ok", f.call), Complete(Received(n)))
       ELSE /\ receiver' = [active |-> TRUE, fragmentStart |-> TRUE, totalReceived |-> n]
            /\ rTracker' = Received(n)
            /\ receives' = [receives EXCEPT ![This] = receive]

(* An empty last frame ends the stream.                                    *)
ReceiveEnd(f) ==
  /\ Reads(f)
  /\ Starts(f) /\ f.part = 0 /\ f.last
  /\ ReceiveReturn(Returned(Reading, "ok", f.call), Complete(rTracker))

(* What the middle of a frame is taken for is empty, or longer than all    *)
(* that has arrived: the call goes on.                                     *)
ReceiveNothing ==
  /\ receiver.active /\ ReadsAstray
  /\ \E first \in BOOLEAN :
       receiver' = [receiver EXCEPT !.fragmentStart = @ \/ first]
  /\ receives' = [receives EXCEPT ![This] = Reading]
  /\ UNCHANGED <<sendVars, connVars, rTracker>>

(* writer.Write fails: the frame is consumed, its data lost.               *)
ReceiveWriteFails(f) ==
  /\ "writerError" \in Faults
  /\ Reads(f)
  /\ Starts(f) /\ f.part # 0
  /\ ReceiveReturn(Returned(Reading, HandleError("writerError"), 0), Fail(rTracker))

(* What a read that fails has taken: nothing, a part of the frame it began *)
(* with, or, astray, what its header said.                                 *)
LeavesOff ==
  \/ UNCHANGED wireVars
  \/ /\ rest = 0 /\ wire # <<>>
     /\ rest' \in 1..MaxRest /\ UNCHANGED wire
  \/ ReadsAstray

(* Reading fails: a deadline passed, for the header or for the data, or    *)
(* the connection was reset; what was read is no frame; or the connection  *)
(* was closed and all it held has been read, maybe half a frame last.      *)
ReadFails(error) ==
  \/ error = "timeout" /\ error \in Faults /\ LeavesOff
  \/ error = "reset" /\ broken /\ LeavesOff
  \/ error = "garbled" /\ ReadsAstray
  \/ /\ error \in {"eof", "garbled"} /\ shut
     /\ wire = <<>> /\ UNCHANGED wireVars

ReceiveFails(error) ==
  /\ receiver.active
  /\ ReadFails(error)
  /\ ReceiveReturn(Returned(Reading, HandleError(error), 0), Fail(rTracker))
  /\ UNCHANGED <<sendVars, connVars>>

-----------------------------------------------------------------------------

(* A reset loses any number of the last frames in flight.                  *)
Reset ==
  /\ "reset" \in Faults /\ ~broken
  /\ broken' = TRUE
  /\ \E n \in 0..Len(wire) :
       wire' = SubSeq(wire, 1, n) /\ rest' = IF n = 0 THEN 0 ELSE rest
  /\ UNCHANGED <<sendVars, shut, recvVars>>

(* The application closes the sending transporter, maybe while SendStream  *)
(* runs in another goroutine.  The frames in flight still arrive.          *)
Close ==
  /\ "closed" \in Faults /\ ~shut
  /\ shut' = TRUE
  /\ UNCHANGED <<sendVars, wireVars, broken, recvVars>>

SendStep ==
  \/ \E isLast \in BOOLEAN : SendChunk(isLast)
  \/ SendEnd
  \/ \E error \in AllFaults : SendFails(error)

ReceiveStep ==
  \/ \E f \in Readable : \/ ReceiveViolation(f) \/ ReceiveChunk(f)
                         \/ ReceiveEnd(f) \/ ReceiveWriteFails(f)
  \/ ReceiveNothing
  \/ \E error \in AllFaults \cup {"garbled"} : ReceiveFails(error)

Next ==
  \/ \E size \in Sizes, known \in BOOLEAN : SendStream(size, known)
  \/ SendStep
  \/ ReceiveStream
  \/ ReceiveStep
  \/ Reset
  \/ Close

Spec == Init /\ [][Next]_vars

(* A call runs in its caller's goroutine until it returns.                 *)
FairSpec == Spec /\ WF_vars(SendStep) /\ WF_vars(ReceiveStep)

-----------------------------------------------------------------------------
(* Properties.                                                             *)

Results ==
  {"open", "ok", "retry", "protocol", "readerError", "writerError", "timeout", "eof",
   "closed", "garbled"}
Frames == [call : Nat, part : Nat, first : BOOLEAN, last : BOOLEAN]
Chunks == Nat \X Nat

(* The locals, records, frames and histories are well formed.              *)
TypeOK ==
  /\ sender \in [active : BOOLEAN, isFirstChunk : BOOLEAN, totalSent : Nat]
  /\ receiver \in [active : BOOLEAN, fragmentStart : BOOLEAN, totalReceived : Nat]
  /\ sTracker \in Record /\ rTracker \in Record
  /\ sends \in Seq([size : Nat, result : Results])
  /\ receives \in Seq([chunks : Seq(Chunks), ended : Nat, result : Results,
                       astray : BOOLEAN])
  /\ wire \in Seq(Frames)
  /\ rest \in 0..MaxRest /\ (rest > 0 => wire # <<>>)
  /\ broken \in BOOLEAN /\ shut \in BOOLEAN

(* d was sent right after c, as the next part of the same stream or as the *)
(* first part of a later one.                                              *)
Follows(c, d) == \/ d = <<c[1], c[2] + 1>>
                 \/ d[1] > c[1] /\ d[2] = 1

(* The calls that never read on in the middle of a frame.                  *)
InStep == {r \in 1..Len(receives) : ~receives[r].astray}

(* A call that is in step writes chunks as they were sent, none left out,  *)
(* repeated or moved, however the calls before and after it ended.         *)
ChunksInOrder ==
  \A r \in InStep :
    LET c == receives[r].chunks IN
    /\ \A i \in 1..Len(c) - 1 : Follows(c[i], c[i + 1])
    /\ \A q \in InStep : q < r =>
         LET b == receives[q].chunks IN
         \A i \in 1..Len(b), j \in 1..Len(c) :
           \/ b[i][1] < c[j][1]
           \/ b[i][1] = c[j][1] /\ b[i][2] < c[j][2]

(* However the calls ended, the chunks of those in step arrive in order;   *)
(* and one of them that succeeds has written the whole of the stream that  *)
(* ended it, as the end of what it wrote, and SendStream succeeded too.    *)
(* What it wrote before that are beginnings of streams whose senders       *)
(* failed.  Of a call astray nothing is said: after a deadline inside a    *)
(* frame a retried ReceiveStream may succeed with any bytes, and a later   *)
(* one is in step again when it happens to begin with a header.            *)
WholeStream ==
  ChunksInOrder /\
  \A r \in InStep : receives[r].result = "ok" =>
    LET c == receives[r].chunks
        k == receives[r].ended
    IN
    /\ k \in DOMAIN sends
    /\ sends[k].result = "ok"
    /\ Len(c) >= sends[k].size
    /\ \A i \in 1..sends[k].size : c[Len(c) - sends[k].size + i] = <<k, i>>

(* When a call has returned its transfer is finished in the tracker, and   *)
(* completed if the call succeeded and moved data.                         *)
TrackerSettled ==
  /\ ~sender.active /\ sends # <<>> =>
       /\ sTracker.status \in Terminal
       /\ sends[Call].result = "ok" /\ Size > 0 => sTracker.status = "Completed"
  /\ ~receiver.active /\ receives # <<>> =>
       /\ rTracker.status \in Terminal
       /\ receives[This].result = "ok" /\ receives[This].chunks # <<>> =>
            rTracker.status = "Completed"

(* The calls that succeeded, in order, and their streams, by their content. *)
Stream(k, size) == [i \in 1..size |-> <<k, i>>]
Successful(calls) ==
  LET ok == {k \in DOMAIN calls : calls[k].result = "ok"} IN
  [i \in 1..Cardinality(ok) |-> CHOOSE k \in ok : Cardinality({j \in ok : j <= k}) = i]
SentStreams ==
  LET ok == Successful(sends) IN
  [i \in 1..Len(ok) |-> Stream(ok[i], sends[ok[i]].size)]
ReceivedStreams ==
  LET ok == Successful(receives) IN
  [i \in 1..Len(ok) |-> receives[ok[i]].chunks]

Pipe == INSTANCE StreamPipe WITH
  Content <- {Stream(k, size) : k \in 1..MaxSends, size \in Sizes},
  sent <- SentStreams,
  received <- ReceivedStreams

(* When nothing fails and no stream is empty, the transfer implements the  *)
(* pipe of whole streams.                                                  *)
PipeSpec == Pipe!Spec

(* Every call of ReceiveStream returns, whatever the sender does: each     *)
(* read has a deadline.                                                    *)
ReceiveReturns == receiver.active ~> ~receiver.active

(* When nothing fails, the n-th SendStream and the n-th ReceiveStream      *)
(* bring each other to an end, through a window smaller than the stream.   *)
HasReturned(calls, n) == Len(calls) >= n /\ calls[n].result # "open"
TransfersEnd ==
  \A n \in 1..MaxSends :
    Len(sends) >= n /\ Len(receives) >= n ~> HasReturned(sends, n) /\ HasReturned(receives, n)

=============================================================================
