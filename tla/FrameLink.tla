------------------------------ MODULE FrameLink ------------------------------
(***************************************************************************)
(* Single messages over one direction of a connection: goroutines in Send  *)
(* of the transporter (src/message_transporter.go), one goroutine reading, *)
(* and between them the default or the advanced frame processor of each    *)
(* end (src/frame_processor.go, src/frame_processor_impl.go).              *)
(*                                                                         *)
(* The connection is the stream of all bytes ever written, kept as pieces: *)
(* a header byte by byte, data as one payload whose bytes are all equal.   *)
(* What a read returns is an interval of the stream.  One Write is one     *)
(* piece, the writes of two goroutines interleave between pieces.          *)
(***************************************************************************)
EXTENDS FrameHeader, TransferRecord, FiniteSets

CONSTANTS
  Writers,     \* goroutines that call Send
  Messages,    \* payloads [size, byte] the application sends
  Packed,      \* what compression makes of those it shrinks by a tenth
  Crc,         \* CRC32 of every payload
  Processors,  \* configurations of the frame processors of the two ends
  LargeMessageThreshold,
  CompressionThreshold,
  NoData,      \* the payload of a header piece
  MaxSends,    \* bound: calls of Send
  MaxReads     \* bound: frames read

Payloads == Messages \cup {Packed[m] : m \in DOMAIN Packed}

ASSUME PayloadAssumption ==
  /\ \A m \in Payloads : m.size \in Nat /\ m.byte \in Bytes
  /\ DOMAIN Packed \subseteq Messages
  /\ \A m \in DOMAIN Packed : m.size > CompressionThreshold /\ 10 * Packed[m].size < 9 * m.size
  (* gzip loses nothing, CRC32 is a uint32.                              *)
  /\ \A m, n \in DOMAIN Packed : Packed[m] = Packed[n] => m = n
  /\ Crc \in [Payloads -> Words] /\ NoData \notin Payloads
ASSUME ProcessorAssumption ==
  \A ends \in Processors :
    /\ DOMAIN ends = {"send", "recv"}
    /\ \A end \in DOMAIN ends : ends[end] \in [advanced : BOOLEAN, compression : BOOLEAN,
                                              recovery : BOOLEAN, maxFrameSize : Nat]
    (* NewAdvancedFrameProcessor gives the processor it wraps no limit.    *)
    /\ \A end \in DOMAIN ends : ends[end].advanced => ends[end].maxFrameSize = 0

VARIABLES
  proc,       \* the frame processors of the two ends
  stream,     \* pieces [at, len, header, body] in the order they were written
  open,       \* the sending end has not closed the connection
  writer,     \* locals of each Send
  frames,     \* history: the frames begun, with the place of header and data
  sends,      \* history: calls of Send
  sendStats,  \* statistics of an advanced sendProc
  pos,        \* how many bytes have been read
  reader,     \* locals of the reading call
  results,    \* history: what each reading call returned
  recvStats   \* statistics of an advanced recvProc

sendVars == <<stream, open, writer, frames, sends, sendStats>>
recvVars == <<pos, reader, results, recvStats>>
vars == <<proc, sendVars, recvVars>>

NoStats == [processed |-> 0, errors |-> 0, checksum |-> 0]
Idle == [pc |-> "idle", message |-> NoData, body |-> NoData, flags |-> 0, frame |-> 0,
         transfer |-> Fresh(0)]
NotReading == [pc |-> "idle", deadline |-> FALSE, start |-> 0, head |-> <<>>]

Init ==
  /\ proc \in Processors
  /\ stream = <<>> /\ open = TRUE
  /\ writer = [w \in Writers |-> Idle]
  /\ frames = <<>> /\ sends = 0 /\ sendStats = NoStats
  /\ pos = 0 /\ reader = NotReading
  /\ results = <<>> /\ recvStats = NoStats

(* An advanced processor counts how its calls end; a default one does not. *)
Count(stats, field) == [stats EXCEPT ![field] = @ + 1]

-----------------------------------------------------------------------------
(* The stream of bytes.                                                    *)

Piece(at, len, header, body) == [at |-> at, len |-> len, header |-> header, body |-> body]

End(p) == p.at + p.len
Written == IF stream = <<>> THEN 0 ELSE End(stream[Len(stream)])

ByteAt(i) ==
  LET k == CHOOSE k \in 1..Len(stream) : stream[k].at <= i /\ i < End(stream[k])
      p == stream[k]
  IN IF p.body = NoData THEN p.header[i - p.at + 1] ELSE p.body.byte

BytesAt(from, n) == [i \in 1..n |-> ByteAt(from + i - 1)]

(* The payloads the bytes of an interval are: at most one.                 *)
PayloadsAt(from, n) ==
  {stream[k].body : k \in {k \in 1..Len(stream) :
     /\ stream[k].body # NoData /\ stream[k].at = from
     /\ stream[k].len = n /\ stream[k].body.size = n}}

(* A Write of which the first n bytes reach the connection.                *)
Wrote(n, header, body) ==
  stream' = IF n = 0 THEN stream ELSE Append(stream, Piece(Written, n, header, body))

-----------------------------------------------------------------------------
(* Faulty variants, one per property: TLC must reject them.                *)

(* The checksum of the header is that of the message before compression.   *)
HeaderOf_StaleChecksum(w) ==
  EncodeHeader(writer[w].body.size, Crc[writer[w].message], writer[w].flags)

-----------------------------------------------------------------------------
(* Send and WriteFrame.                                                    *)

(* compressData: what is long enough, and shrinks.                         *)
Compressed(message) == IF message \in DOMAIN Packed THEN Packed[message] ELSE message

(* The data and the flags the advanced WriteFrame hands to the default one *)
(* and those the default one is called with directly.                      *)
FrameBody(message) ==
  IF proc.send.advanced /\ proc.send.compression THEN Compressed(message) ELSE message
FlagsOf(message) == IF FrameBody(message) # message THEN FlagCompressed ELSE FlagNormal

HeaderOf(w) == EncodeHeader(writer[w].body.size, Crc[writer[w].body], writer[w].flags)

(* Send's end: the transfer of a large message is marked, then stopped.    *)
Tracked(message) == message.size > LargeMessageThreshold
Settled(r, total, ok) ==
  LET marked == IF ok THEN AfterProgress(r, total, FALSE) ELSE WithStatus(r, "Failed")
  IN IF CanCancel(marked) THEN WithStatus(marked, "Cancelled") ELSE marked

SendReturns(w, ok) ==
  LET m == writer[w].message IN
  /\ writer' = [writer EXCEPT ![w] =
       [Idle EXCEPT !.transfer = IF Tracked(m) THEN Settled(writer[w].transfer, m.size, ok)
                                 ELSE @]]
  /\ sendStats' = IF proc.send.advanced
                     THEN Count(sendStats, IF ok THEN "processed" ELSE "errors")
                     ELSE sendStats

(* Send, and WriteFrame up to its first Write.                             *)
Send(w, message) ==
  LET body == FrameBody(message) IN
  /\ writer[w].pc = "idle" /\ sends < MaxSends
  /\ sends' = sends + 1
  /\ ~TooBig(body.size, proc.send.maxFrameSize)
  /\ writer' = [writer EXCEPT ![w] =
       [pc |-> "header", message |-> message, body |-> body,
        flags |-> FrameFlags(body.size, FlagsOf(message)), frame |-> 0,
        transfer |-> IF Tracked(message) THEN Fresh(message.size) ELSE Fresh(0)]]
  /\ UNCHANGED <<proc, stream, open, frames, sendStats, recvVars>>

(* EncodeHeader refuses the frame: ErrFrameTooBig, before anything is      *)
(* written; the error is none that may be retried.                         *)
SendTooBig(w, message) ==
  /\ writer[w].pc = "idle" /\ sends < MaxSends
  /\ sends' = sends + 1
  /\ TooBig(message.size, proc.send.maxFrameSize)
  /\ writer' = [writer EXCEPT ![w] =
       [Idle EXCEPT !.transfer = IF Tracked(message) THEN Settled(Fresh(message.size), 0, FALSE)
                                 ELSE @]]
  /\ UNCHANGED <<proc, stream, open, frames, sendStats, recvVars>>

Frame(w, hlen) ==
  [message |-> writer[w].message, body |-> writer[w].body, at |-> Written, hlen |-> hlen,
   dataAt |-> IF writer[w].body.size = 0 THEN Written + hlen ELSE -1]

WriteHeader(w) ==
  LET header == HeaderOf(w) IN
  /\ writer[w].pc = "header" /\ open
  /\ Wrote(Len(header), header, NoData)
  /\ frames' = Append(frames, Frame(w, Len(header)))
  /\ IF writer[w].body.size > 0
       THEN /\ writer' = [writer EXCEPT ![w].pc = "data", ![w].frame = Len(frames) + 1]
            /\ UNCHANGED sendStats
       ELSE SendReturns(w, TRUE)
  /\ UNCHANGED <<proc, open, sends, recvVars>>

WriteData(w) ==
  /\ writer[w].pc = "data" /\ open
  /\ Wrote(writer[w].body.size, <<>>, writer[w].body)
  /\ frames' = [frames EXCEPT ![writer[w].frame].dataAt = Written]
  /\ SendReturns(w, TRUE)
  /\ UNCHANGED <<proc, open, sends, recvVars>>

(* A Write fails: the connection is closed, or the deadline the advanced   *)
(* processor sets expires after some of the bytes, half of them here.      *)
WriteFails(w) ==
  /\ writer[w].pc \in {"header", "data"}
  /\ LET header == HeaderOf(w)
         hlen   == Len(header) \div 2
     IN \/ ~open /\ UNCHANGED <<stream, frames>>
        \/ open /\ proc.send.advanced /\ UNCHANGED <<stream, frames>>
        \/ /\ open /\ proc.send.advanced /\ writer[w].pc = "header"
           /\ Wrote(hlen, SubSeq(header, 1, hlen), NoData)
           /\ frames' = Append(frames, [Frame(w, hlen) EXCEPT !.dataAt = -1])
        \/ /\ open /\ proc.send.advanced /\ writer[w].pc = "data"
           /\ writer[w].body.size > 1
           /\ Wrote(writer[w].body.size \div 2, <<>>, writer[w].body)
           /\ UNCHANGED frames
  /\ SendReturns(w, FALSE)
  /\ UNCHANGED <<proc, open, sends, recvVars>>

Close ==
  /\ open /\ open' = FALSE
  /\ UNCHANGED <<proc, stream, writer, frames, sends, sendStats, recvVars>>

-----------------------------------------------------------------------------
(* Receive, ReadFrame and ReadFrameWithFlags.                              *)

(* Receive calls ReadFrame, ReceiveStream calls ReadFrameWithFlags.  In    *)
(* the default processor only the latter sets deadlines.                   *)
BeginRead(withFlags) ==
  /\ ~proc.recv.advanced
  /\ reader.pc = "idle" /\ Len(results) < MaxReads
  /\ reader' = [pc |-> "head", deadline |-> withFlags, start |-> pos, head |-> <<>>]
  /\ UNCHANGED <<proc, sendVars, pos, results, recvStats>>

(* In the advanced processor both are one, with deadlines.                 *)
BeginAdvancedRead ==
  /\ proc.recv.advanced
  /\ reader.pc = "idle" /\ Len(results) < MaxReads
  /\ reader' = [pc |-> "head", deadline |-> TRUE, start |-> pos, head |-> <<>>]
  /\ UNCHANGED <<proc, sendVars, pos, results, recvStats>>

(* Faulty: the data is awaited with one byte more than the frame has.      *)
Wanted_OffByOne ==
  IF reader.pc = "data" THEN DecodeHeader(reader.head).size + 1
  ELSE IF reader.pc = "rest" THEN DefaultHeaderSize - CompactHeaderSize
  ELSE CompactHeaderSize

(* How many bytes the io.ReadFull under way asks for.                      *)
Wanted ==
  IF reader.pc = "data" THEN DecodeHeader(reader.head).size
  ELSE IF reader.pc = "rest" THEN DefaultHeaderSize - CompactHeaderSize
  ELSE CompactHeaderSize

Available == Written - pos

(* ReadFull succeeds.                                                      *)
Reads == pos + Wanted <= Written /\ pos' = pos + Wanted

ReadReturns(result, at, size, message) ==
  /\ results' = Append(results, [start |-> reader.start, result |-> result, at |-> at,
                                 size |-> size, message |-> message])
  /\ reader' = NotReading

AwaitData(head) ==
  /\ reader' = [reader EXCEPT !.pc = "data", !.head = head]
  /\ UNCHANGED <<results, recvStats>>

(* Faulty: the bytes asked for are taken for the bytes read.               *)
ReadFullFails_AllRead(error, lost) ==
  error = "timeout" /\ reader.deadline /\ lost < Wanted /\ pos' = pos + Wanted

(* ReadFull fails with a part of its bytes, which are lost: at the end of  *)
(* a closed connection with all there are, at a deadline with any number.  *)
ReadFullFails(error, lost) ==
  /\ \/ error = "eof" /\ ~open /\ Available < Wanted /\ lost = Available
     \/ error = "timeout" /\ reader.deadline /\ lost < Wanted
        /\ lost \in {0, IF Available < Wanted THEN Available ELSE Wanted - 1}
  /\ pos' = pos + lost

(* The checksums the data read may have: bytes that are no payload may     *)
(* have any, and are taken for their own message.                          *)
Outcomes(header, payloads) ==
  LET compact == Len(reader.head) = CompactHeaderSize IN
  IF payloads # {} THEN {Verifies(Crc[m], header, compact) : m \in payloads}
  ELSE IF header.checksum = 0 THEN {TRUE} ELSE BOOLEAN

The(messages) == IF messages = {} THEN NoData ELSE CHOOSE m \in messages : TRUE

-----------------------------------------------------------------------------
(* The default processor.                                                  *)

(* The header is complete: a frame that is too big ends the call and       *)
(* leaves its data in the stream, an empty frame ends it with success.     *)
DefaultHeaderRead(head) ==
  LET size == DecodeHeader(head).size IN
  IF TooBig(size, proc.recv.maxFrameSize)
    THEN ReadReturns("tooBig", pos', 0, NoData) /\ UNCHANGED recvStats
  ELSE IF size = 0
    THEN ReadReturns("ok", pos', 0, NoData) /\ UNCHANGED recvStats
  ELSE AwaitData(head)

ReadData ==
  LET header   == DecodeHeader(reader.head)
      payloads == PayloadsAt(pos, header.size)
  IN
  /\ reader.pc = "data" /\ Reads
  /\ \E verified \in Outcomes(header, payloads) :
       IF verified THEN ReadReturns("ok", pos, header.size, The(payloads))
                   ELSE ReadReturns("checksum", pos, header.size, NoData)
  /\ UNCHANGED <<proc, sendVars, recvStats>>

ReadFails(error, lost) ==
  /\ reader.pc # "idle" /\ ReadFullFails(error, lost)
  /\ ReadReturns(error, pos', 0, NoData)
  /\ UNCHANGED <<proc, sendVars, recvStats>>

ReadFrame ==
  /\ ~proc.recv.advanced
  /\ \/ ReadData
     \/ \E lost \in {0, Available, Wanted - 1} : ReadFails("eof", lost) \/ ReadFails("timeout", lost)

-----------------------------------------------------------------------------
(* The advanced processor: it has no limit, counts, may go on after a      *)
(* checksum mismatch and undoes the compression.                           *)

AdvancedHeaderRead(head) ==
  IF DecodeHeader(head).size = 0
    THEN ReadReturns("ok", pos', 0, NoData) /\ recvStats' = Count(recvStats, "processed")
    ELSE AwaitData(head)

(* Faulty: a mismatch that ends the call is a processing error as well.    *)
Mismatch_Twice(stats) ==
  IF proc.recv.recovery THEN Count(stats, "checksum")
  ELSE Count(Count(stats, "checksum"), "errors")

Mismatch(stats) == Count(stats, "checksum")

(* decompressData: only what compression made comes out again.             *)
Decompressed(payloads) == {m \in DOMAIN Packed : Packed[m] \in payloads}

AdvancedReadData ==
  LET header     == DecodeHeader(reader.head)
      payloads   == PayloadsAt(pos, header.size)
      compressed == HasFlag(header.flags, FlagCompressed)
      messages   == IF compressed THEN Decompressed(payloads) ELSE payloads
  IN
  /\ reader.pc = "data" /\ Reads
  /\ \E verified \in Outcomes(header, payloads) :
       LET stats == IF verified THEN recvStats ELSE Mismatch(recvStats) IN
       IF ~verified /\ ~proc.recv.recovery
         THEN /\ ReadReturns("checksum", pos, header.size, NoData)
              /\ recvStats' = stats
       ELSE IF compressed /\ messages = {}
         THEN /\ ReadReturns("gzip", pos, header.size, NoData)
              /\ recvStats' = Count(stats, "errors")
       ELSE /\ ReadReturns("ok", pos, header.size, The(messages))
            /\ recvStats' = Count(stats, "processed")
  /\ UNCHANGED <<proc, sendVars>>

AdvancedReadFails(error, lost) ==
  /\ reader.pc # "idle" /\ ReadFullFails(error, lost)
  /\ ReadReturns(error, pos', 0, NoData)
  /\ recvStats' = Count(recvStats, "errors")
  /\ UNCHANGED <<proc, sendVars>>

AdvancedReadFrame ==
  /\ proc.recv.advanced
  /\ \/ AdvancedReadData
     \/ \E lost \in {0, Available, Wanted - 1} :
          AdvancedReadFails("eof", lost) \/ AdvancedReadFails("timeout", lost)

-----------------------------------------------------------------------------

(* Both read the header in the same way: the first four bytes tell whether *)
(* there is a rest of it.                                                  *)
HeaderRead(head) ==
  IF proc.recv.advanced THEN AdvancedHeaderRead(head) ELSE DefaultHeaderRead(head)

ReadHead ==
  LET head == BytesAt(pos, CompactHeaderSize) IN
  /\ reader.pc = "head" /\ Reads
  /\ IF IsCompact(head)
       THEN HeaderRead(head)
       ELSE /\ reader' = [reader EXCEPT !.pc = "rest", !.head = head]
            /\ UNCHANGED <<results, recvStats>>
  /\ UNCHANGED <<proc, sendVars>>

ReadRest ==
  /\ reader.pc = "rest" /\ Reads
  /\ HeaderRead(reader.head \o BytesAt(pos, DefaultHeaderSize - CompactHeaderSize))
  /\ UNCHANGED <<proc, sendVars>>

WriteStep == \E w \in Writers : WriteHeader(w) \/ WriteData(w) \/ WriteFails(w)

ReadStep == ReadHead \/ ReadRest \/ ReadFrame \/ AdvancedReadFrame

Next ==
  \/ \E w \in Writers, m \in Messages : Send(w, m) \/ SendTooBig(w, m)
  \/ WriteStep
  \/ Close
  \/ \E withFlags \in BOOLEAN : BeginRead(withFlags)
  \/ BeginAdvancedRead
  \/ ReadStep

Spec == Init /\ [][Next]_vars

(* A reading call runs on in its goroutine.                                *)
FairSpec == Spec /\ WF_vars(ReadStep)

-----------------------------------------------------------------------------
(* Properties.                                                             *)

WriterSteps == {"idle", "header", "data"}
ReaderSteps == {"idle", "head", "rest", "data"}
ReadResults == {"ok", "checksum", "gzip", "tooBig", "eof", "timeout"}

(* The pieces tile the stream, and every local is of its type.             *)
TypeOK ==
  /\ proc \in Processors /\ open \in BOOLEAN
  /\ \A k \in 1..Len(stream) :
       /\ stream[k].at = (IF k = 1 THEN 0 ELSE End(stream[k - 1])) /\ stream[k].len > 0
       /\ \/ stream[k].body = NoData /\ stream[k].len = Len(stream[k].header)
          \/ stream[k].body \in Payloads /\ stream[k].len <= stream[k].body.size
  /\ \A w \in Writers :
       /\ writer[w].pc \in WriterSteps /\ writer[w].transfer \in Record
       /\ writer[w].pc # "idle" => writer[w].body \in Payloads /\ writer[w].frame \in 0..Len(frames)
  /\ pos \in 0..Written /\ reader.pc \in ReaderSteps
  /\ \A i \in 1..Len(results) : results[i].result \in ReadResults

(* Frame i stands in one piece in the stream, right behind frame i - 1.    *)
Whole(i) ==
  /\ i \in 1..Len(frames)
  /\ frames[i].dataAt = frames[i].at + frames[i].hlen
  /\ frames[i].at = IF i = 1 THEN 0 ELSE frames[i - 1].dataAt + frames[i - 1].body.size

(* What a reader can make of frame i when it starts at its first byte.     *)
Readable(i) ==
  /\ Whole(i)
  /\ ~Misread(frames[i].body.size)
  /\ ~TooBig(frames[i].body.size, proc.recv.maxFrameSize)

(* No deadline and no end of the stream cut the i-th reading call short.   *)
Uncut(i) == i \in 1..Len(results) /\ results[i].result \notin {"timeout", "eof"}

InStepUpTo(i) == \A j \in 1..i : Readable(j) /\ Uncut(j)

(* The message the i-th call must return: an advanced reader undoes the    *)
(* compression, a default one hands out the compressed data.               *)
Expected(i) == IF proc.recv.advanced THEN frames[i].message ELSE frames[i].body

Delivers(i) ==
  /\ results[i].result = "ok"
  /\ results[i].start = frames[i].at
  /\ results[i].at = frames[i].dataAt /\ results[i].size = frames[i].body.size
  /\ results[i].size > 0 => results[i].message = Expected(i)

(* Reader and writers stay in step: as long as no two Sends mixed their    *)
(* header and data, no write and no read was cut off, no size was misread  *)
(* and none over the reader's limit, the i-th read returns the message of  *)
(* the i-th frame and not a byte more or less.                             *)
InStep == \A i \in 1..Len(results) : InStepUpTo(i) => Delivers(i)

(* Every call of an advanced processor is counted once, whichever way it   *)
(* ends; only a mismatch that was recovered from is counted beside it.     *)
InSend == {w \in Writers : writer[w].pc # "idle"}
CallsCounted ==
  /\ proc.send.advanced => sendStats.processed + sendStats.errors + Cardinality(InSend) = sends
  /\ proc.recv.advanced =>
       recvStats.processed + recvStats.errors
         + (IF proc.recv.recovery THEN 0 ELSE recvStats.checksum) = Len(results)

(* A reader in step is never left waiting for a whole frame.               *)
FrameReadEnds ==
  \A i \in 1..MaxReads :
    (Len(results) = i - 1 /\ reader.pc # "idle" /\ InStepUpTo(i - 1) /\ Readable(i))
      ~> Len(results) >= i

=============================================================================
