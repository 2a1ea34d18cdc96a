-------------------------- MODULE FrameLink_proofs --------------------------
(***************************************************************************)
(* Proofs about the frame headers, for all numbers of 32 bits, and about   *)
(* FrameLink, for any writers, messages and processors.                    *)
(***************************************************************************)
EXTENDS FrameLink, FiniteSetTheorems, WellFoundedInduction, TLAPS

-----------------------------------------------------------------------------
(* The headers.                                                            *)

(* Four bytes give back the word that was put into them.                   *)
LEMMA WordRoundTrip ==
  ASSUME NEW x \in Words
  PROVE  /\ Uint32(PutUint32(x)) = x
         /\ PutUint32(x)[4] = x % 256
         /\ DOMAIN PutUint32(x) = 1..4 /\ PutUint32(x) \in Seq(Int)
<1>1. /\ PutUint32(x)[1] = (x \div 16777216) % 256
      /\ PutUint32(x)[2] = (x \div 65536) % 256
      /\ PutUint32(x)[3] = (x \div 256) % 256
      /\ PutUint32(x)[4] = x % 256
      /\ DOMAIN PutUint32(x) = 1..4 /\ PutUint32(x) \in Seq(Int)
  BY SMT DEF PutUint32, Words
<1>2. ((x \div 16777216) % 256) * 16777216 + ((x \div 65536) % 256) * 65536
        + ((x \div 256) % 256) * 256 + (x % 256) = x
  BY SMT DEF Words
<1> QED BY <1>1, <1>2, SMT DEF Uint32

(* Two bytes do so for a size below the limit of the compact header.       *)
LEMMA HalfRoundTrip ==
  ASSUME NEW x \in Nat, x < 65536
  PROVE  ((x \div 256) % 256) * 256 + (x % 256) = x
BY SMT

(* The elements of two sequences in a row.                                 *)
LEMMA Concatenated ==
  ASSUME NEW a \in Seq(Int), NEW b \in Seq(Int)
  PROVE  /\ a \o b \in Seq(Int) /\ Len(a \o b) = Len(a) + Len(b)
         /\ \A i \in 1..Len(a) : (a \o b)[i] = a[i]
         /\ \A i \in 1..Len(b) : (a \o b)[i + Len(a)] = b[i]
OBVIOUS

FourBytes(a) == a \in Seq(Int) /\ DOMAIN a = 1..4
InARow(a, b, c) == a \o b \o c

(* Three words in a row, and each of them again.                           *)
LEMMA ThreeWords ==
  ASSUME NEW a, NEW b, NEW c, FourBytes(a), FourBytes(b), FourBytes(c)
  PROVE  /\ Len(InARow(a, b, c)) = 12 /\ InARow(a, b, c)[4] = a[4]
         /\ Uint32(Field(InARow(a, b, c), 1, 4)) = Uint32(a)
         /\ Uint32(Field(InARow(a, b, c), 5, 8)) = Uint32(b)
         /\ Uint32(Field(InARow(a, b, c), 9, 12)) = Uint32(c)
<1> DEFINE s == a \o b \o c
<1>1. /\ a \in Seq(Int) /\ b \in Seq(Int) /\ c \in Seq(Int)
      /\ Len(a) = 4 /\ Len(b) = 4 /\ Len(c) = 4
  BY DEF FourBytes
<1>2. /\ s \in Seq(Int) /\ Len(s) = 12
      /\ \A i \in 1..4 : s[i] = a[i] /\ s[i + 4] = b[i] /\ s[i + 8] = c[i]
  <2> DEFINE t == a \o b
  <2>1. /\ t \in Seq(Int) /\ Len(t) = Len(a) + Len(b)
        /\ \A i \in 1..Len(a) : t[i] = a[i]
        /\ \A i \in 1..Len(b) : t[i + Len(a)] = b[i]
    BY <1>1, Concatenated
  <2> HIDE DEF t
  <2>2. t \in Seq(Int) /\ Len(t) = 8
    BY <1>1, <2>1
  <2>3. \A i \in 1..4 : t[i] = a[i] /\ t[i + 4] = b[i]
    BY <1>1, <2>1
  <2>4. t \o c \in Seq(Int) /\ Len(t \o c) = Len(t) + Len(c)
    BY <1>1, <2>2, Concatenated
  <2>5. \A i \in 1..Len(t) : (t \o c)[i] = t[i]
    BY <1>1, <2>2, Concatenated
  <2>6. \A i \in 1..Len(c) : (t \o c)[i + Len(t)] = c[i]
    BY <1>1, <2>2, Concatenated
  <2>7. \A i \in 1..4 : i \in 1..8 /\ i + 4 \in 1..8
    OBVIOUS
  <2>8. s = t \o c
    BY DEF t
  <2>9. Len(s) = 12 /\ \A i \in 1..4 : s[i + 8] = c[i]
    <3>1. Len(s) = Len(t) + Len(c) /\ \A i \in 1..Len(c) : s[i + Len(t)] = c[i]
      BY <2>4, <2>6, <2>8
    <3> HIDE DEF s
    <3> QED BY <1>1, <2>2, <3>1
  <2>10. \A i \in 1..8 : (t \o c)[i] = t[i]
    BY <2>2, <2>5
  <2>11. \A i \in 1..4 : (t \o c)[i] = a[i] /\ (t \o c)[i + 4] = b[i]
    BY <2>3, <2>7, <2>10
  <2>12. s \in Seq(Int) /\ \A i \in 1..4 : s[i] = a[i] /\ s[i + 4] = b[i]
    BY <2>4, <2>8, <2>11
  <2> HIDE DEF s
  <2> QED BY <2>9, <2>12
<1>3. /\ s[1] = a[1] /\ s[2] = a[2] /\ s[3] = a[3] /\ s[4] = a[4]
      /\ s[5] = b[1] /\ s[6] = b[2] /\ s[7] = b[3] /\ s[8] = b[4]
      /\ s[9] = c[1] /\ s[10] = c[2] /\ s[11] = c[3] /\ s[12] = c[4]
  <2>1. 1 \in 1..4 /\ 2 \in 1..4 /\ 3 \in 1..4 /\ 4 \in 1..4
    OBVIOUS
  <2>2. /\ s[1 + 4] = b[1] /\ s[2 + 4] = b[2] /\ s[3 + 4] = b[3] /\ s[4 + 4] = b[4]
        /\ s[1 + 8] = c[1] /\ s[2 + 8] = c[2] /\ s[3 + 8] = c[3] /\ s[4 + 8] = c[4]
    BY <1>2, <2>1
  <2> HIDE DEF s
  <2> QED BY <1>2, <2>1, <2>2
<1> HIDE DEF s
<1>4. Uint32(Field(s, 1, 4)) = Uint32(a)
  <2>1. /\ Field(s, 1, 4)[1] = a[1] /\ Field(s, 1, 4)[2] = a[2]
        /\ Field(s, 1, 4)[3] = a[3] /\ Field(s, 1, 4)[4] = a[4]
    BY <1>2, <1>3, SMT DEF Field
  <2> QED BY <2>1, SMT DEF Uint32
<1>5. Uint32(Field(s, 5, 8)) = Uint32(b)
  <2>1. /\ Field(s, 5, 8)[1] = b[1] /\ Field(s, 5, 8)[2] = b[2]
        /\ Field(s, 5, 8)[3] = b[3] /\ Field(s, 5, 8)[4] = b[4]
    BY <1>2, <1>3, SMT DEF Field
  <2> QED BY <2>1, SMT DEF Uint32
<1>6. Uint32(Field(s, 9, 12)) = Uint32(c)
  <2>1. /\ Field(s, 9, 12)[1] = c[1] /\ Field(s, 9, 12)[2] = c[2]
        /\ Field(s, 9, 12)[3] = c[3] /\ Field(s, 9, 12)[4] = c[4]
    BY <1>2, <1>3, SMT DEF Field
  <2> QED BY <2>1, SMT DEF Uint32
<1>7. Len(s) = 12 /\ s[4] = a[4]
  BY <1>2, <1>3
<1>8. s = InARow(a, b, c)
  BY DEF s, InARow
<1> QED BY <1>4, <1>5, <1>6, <1>7, <1>8

(* The compact flag of a number is that of its lowest byte.                *)
LEMMA CompactBit ==
  ASSUME NEW x \in Nat
  PROVE  /\ HasFlag(x, FlagCompact) <=> HasFlag(x % 256, FlagCompact)
         /\ HasFlag(WithFlag(x, FlagCompact), FlagCompact)
BY SMT DEF HasFlag, WithFlag, FlagCompact

(* A compact header gives the size back, the flags up to their lowest byte *)
(* and the lowest byte of the checksum, and is told as compact.            *)
THEOREM CompactRoundTrip ==
  ASSUME NEW size \in Words, NEW checksum \in Words, NEW flags \in Words, UsesCompact(size, flags)
  PROVE  /\ Len(EncodeHeader(size, checksum, flags)) = CompactHeaderSize
         /\ IsCompact(EncodeHeader(size, checksum, flags))
         /\ DecodeHeader(EncodeHeader(size, checksum, flags))
              = Header(size, checksum % 256, flags % 256)
<1> DEFINE h == PutUint16(size) \o <<checksum % 256, flags % 256>>
<1>1. size \in Nat /\ checksum \in Nat /\ flags \in Nat
  BY SMT DEF Words
<1>2. EncodeHeader(size, checksum, flags) = h
  BY DEF EncodeHeader
<1>3. /\ Len(h) = 4 /\ h \in Seq(Int)
      /\ h[1] = (size \div 256) % 256 /\ h[2] = size % 256
      /\ h[3] = checksum % 256 /\ h[4] = flags % 256
  <2> DEFINE a == PutUint16(size)  b == <<checksum % 256, flags % 256>>
  <2>1. /\ a \in Seq(Int) /\ Len(a) = 2 /\ a[1] = (size \div 256) % 256 /\ a[2] = size % 256
        /\ b \in Seq(Int) /\ Len(b) = 2 /\ b[1] = checksum % 256 /\ b[2] = flags % 256
    BY <1>1 DEF PutUint16
  <2>2. h = a \o b
    OBVIOUS
  <2> HIDE DEF a, b, h
  <2>3. /\ a \o b \in Seq(Int) /\ Len(a \o b) = Len(a) + Len(b)
        /\ \A i \in 1..Len(a) : (a \o b)[i] = a[i]
        /\ \A i \in 1..Len(b) : (a \o b)[i + Len(a)] = b[i]
    <3>1. a \in Seq(Int) /\ b \in Seq(Int)
      BY <2>1
    <3> QED BY <3>1, Concatenated
  <2>4. h \in Seq(Int) /\ Len(h) = 4 /\ h[1] = a[1] /\ h[2] = a[2]
    BY <2>1, <2>2, <2>3
  <2>5. h[1 + 2] = b[1] /\ h[2 + 2] = b[2]
    BY <2>1, <2>2, <2>3
  <2> QED BY <2>1, <2>4, <2>5
<1> HIDE DEF h
<1>4. size < 65536 /\ HasFlag(flags % 256, FlagCompact)
  BY <1>1, CompactBit DEF UsesCompact, CompactLimit
<1>5. Uint16(Field(h, 1, 2)) = size
  <2>1. Field(h, 1, 2)[1] = h[1] /\ Field(h, 1, 2)[2] = h[2]
    BY <1>3 DEF Field
  <2>2. Uint16(Field(h, 1, 2)) = h[1] * 256 + h[2]
    BY <2>1 DEF Uint16
  <2>3. ((size \div 256) % 256) * 256 + (size % 256) = size
    BY <1>1, <1>4, HalfRoundTrip
  <2> QED BY <1>3, <2>2, <2>3
<1>6. WithFlag(h[4], FlagCompact) = flags % 256
  BY <1>3, <1>4 DEF WithFlag
<1>7. DecodeHeader(h) = Header(size, checksum % 256, flags % 256)
  BY <1>3, <1>5, <1>6 DEF DecodeHeader, CompactHeaderSize
<1> QED BY <1>2, <1>3, <1>4, <1>7 DEF CompactHeaderSize, IsCompact

(* A standard header gives everything back, but it is told as compact when *)
(* the lowest byte of the size has the bit of the compact flag.            *)
THEOREM StandardRoundTrip ==
  ASSUME NEW size \in Words, NEW checksum \in Words, NEW flags \in Words, ~UsesCompact(size, flags)
  PROVE  /\ Len(EncodeHeader(size, checksum, flags)) = DefaultHeaderSize
         /\ IsCompact(EncodeHeader(size, checksum, flags)) <=> HasFlag(size % 256, FlagCompact)
         /\ DecodeHeader(EncodeHeader(size, checksum, flags)) = Header(size, checksum, flags)
<1> DEFINE h == PutUint32(size) \o PutUint32(checksum) \o PutUint32(flags)
<1>1. EncodeHeader(size, checksum, flags) = h
  BY DEF EncodeHeader
<1>2. /\ Len(h) = 12 /\ h[4] = PutUint32(size)[4]
      /\ Uint32(Field(h, 1, 4)) = Uint32(PutUint32(size))
      /\ Uint32(Field(h, 5, 8)) = Uint32(PutUint32(checksum))
      /\ Uint32(Field(h, 9, 12)) = Uint32(PutUint32(flags))
  <2>1. FourBytes(PutUint32(size)) /\ FourBytes(PutUint32(checksum)) /\ FourBytes(PutUint32(flags))
    BY WordRoundTrip DEF FourBytes
  <2>2. h = InARow(PutUint32(size), PutUint32(checksum), PutUint32(flags))
    BY DEF InARow
  <2> HIDE DEF h
  <2> QED BY <2>1, <2>2, ThreeWords
<1> HIDE DEF h
<1>3. /\ Uint32(Field(h, 1, 4)) = size /\ Uint32(Field(h, 5, 8)) = checksum
      /\ Uint32(Field(h, 9, 12)) = flags /\ h[4] = size % 256
  BY <1>2, WordRoundTrip
<1>4. DecodeHeader(h) = Header(size, checksum, flags)
  BY <1>2, <1>3 DEF DecodeHeader, CompactHeaderSize
<1> QED BY <1>1, <1>2, <1>3, <1>4 DEF DefaultHeaderSize, IsCompact

(* A reader tells the two headers of WriteFrame apart by the fourth byte,  *)
(* for every size but those that Misread names.                            *)
THEOREM ToldApart ==
  ASSUME NEW size \in Words, NEW checksum \in Words, NEW flags \in Nat,
         FrameFlags(size, flags) \in Words
  PROVE  LET header == EncodeHeader(size, checksum, FrameFlags(size, flags)) IN
         IsCompact(header) <=> (Len(header) = CompactHeaderSize \/ Misread(size))
<1> DEFINE f == FrameFlags(size, flags)
           h == EncodeHeader(size, checksum, f)
<1>1. f \in Words
  OBVIOUS
<1>2. CASE size < CompactLimit
  <2>1. UsesCompact(size, f)
    BY <1>2, CompactBit DEF UsesCompact, FrameFlags
  <2> HIDE DEF f
  <2>2. Len(h) = CompactHeaderSize /\ IsCompact(h)
    BY <1>1, <2>1, CompactRoundTrip
  <2> HIDE DEF h
  <2> QED BY <2>2 DEF h, f
<1>3. CASE ~(size < CompactLimit)
  <2>1. ~UsesCompact(size, f)
    BY <1>3 DEF UsesCompact
  <2>2. Misread(size) <=> HasFlag(size % 256, FlagCompact)
    BY <1>3, SMT DEF Misread, CompactLimit, Words
  <2> HIDE DEF f
  <2>3. /\ Len(h) = DefaultHeaderSize
        /\ IsCompact(h) <=> HasFlag(size % 256, FlagCompact)
    BY <1>1, <2>1, StandardRoundTrip
  <2>4. DefaultHeaderSize # CompactHeaderSize
    BY DEF DefaultHeaderSize, CompactHeaderSize
  <2> QED BY <2>2, <2>3, <2>4 DEF h, f
<1> QED BY <1>2, <1>3

-----------------------------------------------------------------------------
(* The counters.  What the reader makes of the bytes plays no part.  The   *)
(* inductive invariant: the counters are numbers, finitely many calls  *)
(* of Send are under way, and each end counts every call that returned.    *)

StatsType == [processed : Nat, errors : Nat, checksum : Nat]

(* An advanced processor refuses no frame for its size.                    *)
ProcFits == proc.send.advanced => proc.send.maxFrameSize = 0

WritersFit == DOMAIN writer = Writers /\ \A w \in Writers : "pc" \in DOMAIN writer[w]

SendInv ==
  /\ sends \in Nat /\ sendStats \in StatsType /\ WritersFit /\ IsFiniteSet(InSend)
  /\ proc.send.advanced => sendStats.processed + sendStats.errors + Cardinality(InSend) = sends

(* The calls of the reader that are counted.                               *)
Ended(s) == s.processed + s.errors + (IF proc.recv.recovery THEN 0 ELSE s.checksum)

RecvInv ==
  /\ (\E S : results \in Seq(S)) /\ recvStats \in StatsType
  /\ proc.recv.advanced => Ended(recvStats) = Len(results)

IInv == ProcFits /\ SendInv /\ RecvInv

-----------------------------------------------------------------------------
(* The counters.                                                           *)

(* Counting one call more.                                                 *)
LEMMA Counting ==
  ASSUME NEW s \in StatsType
  PROVE  /\ Count(s, "processed") \in StatsType /\ Count(s, "errors") \in StatsType
         /\ Count(s, "checksum") \in StatsType
         /\ Ended(Count(s, "processed")) = Ended(s) + 1
         /\ Ended(Count(s, "errors")) = Ended(s) + 1
         /\ Ended(Count(s, "checksum")) = Ended(s) + (IF proc.recv.recovery THEN 0 ELSE 1)
<1>1. /\ Count(s, "processed") \in StatsType /\ Count(s, "errors") \in StatsType
      /\ Count(s, "checksum") \in StatsType
  BY DEF StatsType, Count
<1>2. Ended(Count(s, "processed")) = Ended(s) + 1
  BY DEF StatsType, Count, Ended
<1>3. Ended(Count(s, "errors")) = Ended(s) + 1
  BY DEF StatsType, Count, Ended
<1>4. Ended(Count(s, "checksum")) = Ended(s) + (IF proc.recv.recovery THEN 0 ELSE 1)
  BY DEF StatsType, Count, Ended
<1> QED BY <1>1, <1>2, <1>3, <1>4

(* A writer that goes on with the locals r.                                *)
LEMMA WriterStep ==
  ASSUME WritersFit, IsFiniteSet(InSend), NEW w \in Writers, NEW r, "pc" \in DOMAIN r,
         writer' = [writer EXCEPT ![w] = r]
  PROVE  /\ WritersFit' /\ IsFiniteSet(InSend') /\ Cardinality(InSend) \in Nat
         /\ Cardinality(InSend') =
              IF (r.pc = "idle") = (writer[w].pc = "idle") THEN Cardinality(InSend)
              ELSE IF r.pc = "idle" THEN Cardinality(InSend) - 1 ELSE Cardinality(InSend) + 1
<1>1. \A v \in Writers : writer'[v] = IF v = w THEN r ELSE writer[v]
  BY DEF WritersFit
<1>2. WritersFit'
  BY <1>1 DEF WritersFit
<1>3. Cardinality(InSend) \in Nat
  BY FS_CardinalityType
<1>4. CASE r.pc = "idle" /\ writer[w].pc # "idle"
  <2>1. InSend' = InSend \ {w} /\ w \in InSend
    BY <1>1, <1>4 DEF InSend
  <2>2. IsFiniteSet(InSend \ {w}) /\ Cardinality(InSend \ {w}) = Cardinality(InSend) - 1
    BY <2>1, FS_RemoveElement
  <2> QED BY <1>2, <1>3, <1>4, <2>1, <2>2
<1>5. CASE r.pc # "idle" /\ writer[w].pc = "idle"
  <2>1. InSend' = InSend \cup {w} /\ w \notin InSend
    BY <1>1, <1>5 DEF InSend
  <2>2. IsFiniteSet(InSend \cup {w}) /\ Cardinality(InSend \cup {w}) = Cardinality(InSend) + 1
    BY <2>1, FS_AddElement
  <2> QED BY <1>2, <1>3, <1>5, <2>1, <2>2
<1>6. CASE (r.pc = "idle") = (writer[w].pc = "idle")
  <2>1. InSend' = InSend
    BY <1>1, <1>6 DEF InSend
  <2> QED BY <1>2, <1>3, <1>6, <2>1
<1> QED BY <1>4, <1>5, <1>6

-----------------------------------------------------------------------------
(* The sending end.                                                        *)

(* The locals of a writer outside Send.                                    *)
LEMMA IdleWriter ==
  ASSUME NEW t
  PROVE  /\ "pc" \in DOMAIN [Idle EXCEPT !.transfer = t]
         /\ [Idle EXCEPT !.transfer = t].pc = "idle"
BY DEF Idle

(* A call of Send that begins is one call more under way.                  *)
LEMMA BeginSend ==
  ASSUME ProcFits, SendInv, NEW w \in Writers, NEW m \in Messages, Send(w, m) \/ SendTooBig(w, m)
  PROVE  SendInv' /\ UNCHANGED <<proc, recvVars>>
<1>1. /\ writer[w].pc = "idle" /\ sends' = sends + 1 /\ sendStats' = sendStats
      /\ UNCHANGED <<proc, recvVars>>
  BY DEF Send, SendTooBig
<1>2. WritersFit /\ IsFiniteSet(InSend) /\ sends \in Nat /\ sendStats \in StatsType
  BY DEF SendInv
<1>3. CASE Send(w, m)
  <2> DEFINE body == FrameBody(m)
             r == [pc |-> "header", message |-> m, body |-> body,
                   flags |-> FrameFlags(body.size, FlagsOf(m)), frame |-> 0,
                   transfer |-> IF Tracked(m) THEN Fresh(m.size) ELSE Fresh(0)]
  <2>1. writer' = [writer EXCEPT ![w] = r]
    BY <1>3 DEF Send
  <2>2. "pc" \in DOMAIN r /\ r.pc = "header"
    OBVIOUS
  <2> HIDE DEF r
  <2>3. /\ WritersFit' /\ IsFiniteSet(InSend') /\ Cardinality(InSend) \in Nat
        /\ Cardinality(InSend') = Cardinality(InSend) + 1
    BY <1>1, <1>2, <2>1, <2>2, WriterStep
  <2>4. proc.send.advanced =>
          sendStats.processed + sendStats.errors + Cardinality(InSend) = sends
    BY DEF SendInv
  <2>5. sendStats.processed \in Nat /\ sendStats.errors \in Nat
    BY <1>2 DEF StatsType
  <2> QED BY <1>1, <1>2, <2>3, <2>4, <2>5 DEF SendInv
<1>4. CASE SendTooBig(w, m)
  <2>1. ~proc.send.advanced
    BY <1>4 DEF SendTooBig, TooBig, ProcFits
  <2>2. PICK t : writer' = [writer EXCEPT ![w] = [Idle EXCEPT !.transfer = t]]
    BY <1>4 DEF SendTooBig
  <2>3. WritersFit' /\ IsFiniteSet(InSend')
    BY <1>2, <2>2, IdleWriter, WriterStep
  <2> QED BY <1>1, <1>2, <2>1, <2>3 DEF SendInv
<1> QED BY <1>1, <1>3, <1>4

(* A call of Send that returns is counted.                                 *)
LEMMA SendReturned ==
  ASSUME SendInv, NEW w \in Writers, writer[w].pc # "idle", NEW ok \in BOOLEAN,
         SendReturns(w, ok), UNCHANGED <<proc, sends>>
  PROVE  SendInv'
<1>1. PICK t : writer' = [writer EXCEPT ![w] = [Idle EXCEPT !.transfer = t]]
  BY DEF SendReturns
<1>2. WritersFit /\ IsFiniteSet(InSend) /\ sends \in Nat /\ sendStats \in StatsType
  BY DEF SendInv
<1>3. /\ WritersFit' /\ IsFiniteSet(InSend') /\ Cardinality(InSend) \in Nat
      /\ Cardinality(InSend') = Cardinality(InSend) - 1
  <2> DEFINE r == [Idle EXCEPT !.transfer = t]
  <2>1. "pc" \in DOMAIN r /\ r.pc = "idle"
    BY IdleWriter
  <2> HIDE DEF r
  <2>2. writer' = [writer EXCEPT ![w] = r]
    BY <1>1 DEF r
  <2> QED BY <1>2, <2>1, <2>2, WriterStep
<1>4. CASE ~proc.send.advanced
  <2>1. sendStats' = sendStats
    BY <1>4 DEF SendReturns
  <2> QED BY <1>2, <1>3, <1>4, <2>1 DEF SendInv
<1>5. CASE proc.send.advanced
  <2>1. sendStats' = Count(sendStats, "processed") \/ sendStats' = Count(sendStats, "errors")
    BY <1>5 DEF SendReturns
  <2>2. sendStats' \in StatsType
    BY <1>2, <2>1, Counting
  <2>3. sendStats'.processed + sendStats'.errors = sendStats.processed + sendStats.errors + 1
    BY <1>2, <2>1 DEF Count, StatsType
  <2>4. sendStats.processed + sendStats.errors + Cardinality(InSend) = sends
    BY <1>5 DEF SendInv
  <2>5. /\ sendStats.processed \in Nat /\ sendStats.errors \in Nat
        /\ sendStats'.processed \in Nat /\ sendStats'.errors \in Nat
    BY <1>2, <2>2 DEF StatsType
  <2>6. sendStats'.processed + sendStats'.errors + Cardinality(InSend') = sends
    BY <1>3, <2>3, <2>4, <2>5
  <2> QED BY <1>2, <1>3, <2>2, <2>6 DEF SendInv
<1> QED BY <1>4, <1>5

(* What a writer does keeps the sending end in order.                      *)
LEMMA WritesInv ==
  ASSUME SendInv, NEW w \in Writers, WriteHeader(w) \/ WriteData(w) \/ WriteFails(w)
  PROVE  SendInv' /\ UNCHANGED <<proc, recvVars>>
<1>1. writer[w].pc # "idle" /\ UNCHANGED <<proc, sends, recvVars>>
  BY DEF WriteHeader, WriteData, WriteFails
<1>2. CASE \E ok \in BOOLEAN : SendReturns(w, ok)
  BY <1>1, <1>2, SendReturned
<1>3. CASE ~\E ok \in BOOLEAN : SendReturns(w, ok)
  <2> DEFINE r == [writer[w] EXCEPT !.pc = "data", !.frame = Len(frames) + 1]
  <2>1. /\ sendStats' = sendStats
        /\ writer' = [writer EXCEPT ![w].pc = "data", ![w].frame = Len(frames) + 1]
    BY <1>3 DEF WriteHeader, WriteData, WriteFails
  <2>2. WritersFit /\ IsFiniteSet(InSend) /\ sends \in Nat /\ sendStats \in StatsType
    BY DEF SendInv
  <2>3. "pc" \in DOMAIN r /\ r.pc = "data"
    BY <2>2 DEF WritersFit
  <2>4. writer' = [writer EXCEPT ![w] = r]
    BY <2>1
  <2> HIDE DEF r
  <2>5. /\ WritersFit' /\ IsFiniteSet(InSend') /\ Cardinality(InSend') = Cardinality(InSend)
    BY <1>1, <2>2, <2>3, <2>4, WriterStep
  <2> QED BY <1>1, <2>1, <2>2, <2>5 DEF SendInv
<1> QED BY <1>1, <1>2, <1>3

-----------------------------------------------------------------------------
(* The receiving end.                                                      *)

(* A call of the reader that returns leaves one result.                    *)
LEMMA OneResult ==
  ASSUME \E S : results \in Seq(S), NEW r, NEW at, NEW size, NEW m, ReadReturns(r, at, size, m)
  PROVE  (\E S : results' \in Seq(S)) /\ Len(results') = Len(results) + 1
<1>1. PICK e : results' = Append(results, e)
  BY DEF ReadReturns
<1>2. PICK S : results \in Seq(S)
  OBVIOUS
<1>3. results \in Seq(S \cup {e})
  BY <1>2
<1>4. Append(results, e) \in Seq(S \cup {e}) /\ Len(Append(results, e)) = Len(results) + 1
  BY <1>3
<1> QED BY <1>1, <1>4

(* A call that returns is counted, when its processor counts.              *)
LEMMA Returned ==
  ASSUME RecvInv, NEW r, NEW at, NEW size, NEW m, ReadReturns(r, at, size, m),
         recvStats' \in StatsType, proc' = proc,
         proc.recv.advanced => Ended(recvStats') = Ended(recvStats) + 1
  PROVE  RecvInv'
<1>1. (\E S : results' \in Seq(S)) /\ Len(results') = Len(results) + 1
  BY OneResult DEF RecvInv
<1>2. proc.recv.advanced => Ended(recvStats') = Len(results')
  BY <1>1 DEF RecvInv
<1>3. Ended(recvStats)' = Ended(recvStats')
  BY DEF Ended
<1> QED BY <1>1, <1>2, <1>3 DEF RecvInv

(* A header that is complete ends the call, or the data is awaited.        *)
LEMMA HeaderReadInv ==
  ASSUME RecvInv, NEW head, HeaderRead(head), proc' = proc
  PROVE  RecvInv'
<1>1. recvStats \in StatsType
  BY DEF RecvInv
<1>2. CASE AwaitData(head)
  BY <1>2 DEF AwaitData, RecvInv, Ended
<1>3. CASE proc.recv.advanced /\ ~AwaitData(head)
  <2>1. ReadReturns("ok", pos', 0, NoData) /\ recvStats' = Count(recvStats, "processed")
    BY <1>3 DEF HeaderRead, AdvancedHeaderRead
  <2> QED BY <1>1, <2>1, Counting, Returned
<1>4. CASE ~proc.recv.advanced /\ ~AwaitData(head)
  <2>1. /\ ReadReturns("tooBig", pos', 0, NoData) \/ ReadReturns("ok", pos', 0, NoData)
        /\ recvStats' = recvStats
    BY <1>4 DEF HeaderRead, DefaultHeaderRead
  <2> QED BY <1>1, <1>4, <2>1, Returned
<1> QED BY <1>2, <1>3, <1>4

(* The data is complete, in the advanced processor: the call ends, and a   *)
(* mismatch that does not end it is not counted as its end.                *)
LEMMA AdvancedReadDataInv ==
  ASSUME RecvInv, proc.recv.advanced, AdvancedReadData
  PROVE  RecvInv'
<1>1. recvStats \in StatsType /\ proc' = proc
  BY DEF RecvInv, AdvancedReadData
<1>2. PICK verified, r, at, size, m :
        verified \in BOOLEAN /\
        LET s == IF verified THEN recvStats ELSE Mismatch(recvStats) IN
        /\ ReadReturns(r, at, size, m)
        /\ \/ ~verified /\ ~proc.recv.recovery /\ recvStats' = s
           \/ /\ verified \/ proc.recv.recovery
              /\ recvStats' = Count(s, "errors") \/ recvStats' = Count(s, "processed")
  <2> DEFINE header     == DecodeHeader(reader.head)
             payloads   == PayloadsAt(pos, header.size)
             compressed == HasFlag(header.flags, FlagCompressed)
             messages   == IF compressed THEN Decompressed(payloads) ELSE payloads
             After(v)   == IF v THEN recvStats ELSE Mismatch(recvStats)
  <2>1. PICK v \in Outcomes(header, payloads) :
          IF ~v /\ ~proc.recv.recovery
            THEN ReadReturns("checksum", pos, header.size, NoData) /\ recvStats' = After(v)
          ELSE IF compressed /\ messages = {}
            THEN /\ ReadReturns("gzip", pos, header.size, NoData)
                 /\ recvStats' = Count(After(v), "errors")
          ELSE /\ ReadReturns("ok", pos, header.size, The(messages))
               /\ recvStats' = Count(After(v), "processed")
    BY DEF AdvancedReadData
  <2>2. v \in BOOLEAN
    BY DEF Outcomes, Verifies
  <2> HIDE DEF header, payloads, compressed, messages
  <2>3. CASE ~v /\ ~proc.recv.recovery
    BY <2>1, <2>2, <2>3
  <2>4. CASE (v \/ proc.recv.recovery) /\ compressed /\ messages = {}
    BY <2>1, <2>2, <2>4
  <2>5. CASE (v \/ proc.recv.recovery) /\ ~(compressed /\ messages = {})
    BY <2>1, <2>2, <2>5
  <2> QED BY <2>2, <2>3, <2>4, <2>5
<1> DEFINE s == IF verified THEN recvStats ELSE Mismatch(recvStats)
<1>3. s \in StatsType
  BY <1>1, Counting DEF Mismatch
<1>4. Ended(s) = Ended(recvStats) + (IF verified \/ proc.recv.recovery THEN 0 ELSE 1)
  <2>1. Ended(recvStats) \in Int
    BY <1>1 DEF StatsType, Ended
  <2> QED BY <1>1, <2>1, Counting DEF Mismatch
<1>5. Ended(recvStats) \in Int /\ Ended(s) \in Int
  BY <1>1, <1>3 DEF StatsType, Ended
<1> HIDE DEF s
<1>6. recvStats' \in StatsType /\ Ended(recvStats') = Ended(recvStats) + 1
  <2>1. CASE ~verified /\ ~proc.recv.recovery /\ recvStats' = s
    BY <1>3, <1>4, <2>1
  <2>2. CASE /\ verified \/ proc.recv.recovery
             /\ recvStats' = Count(s, "errors") \/ recvStats' = Count(s, "processed")
    BY <1>3, <1>4, <1>5, <2>2, Counting
  <2> QED BY <1>2, <2>1, <2>2 DEF s
<1> QED BY <1>1, <1>2, <1>6, Returned

(* What the reader does keeps the receiving end in order.                  *)
LEMMA ReadsInv ==
  ASSUME RecvInv,
         (\E withFlags \in BOOLEAN : BeginRead(withFlags)) \/ BeginAdvancedRead \/ ReadStep
  PROVE  RecvInv' /\ UNCHANGED <<proc, sendVars>>
<1>1. recvStats \in StatsType
  BY DEF RecvInv
<1>2. CASE (\E withFlags \in BOOLEAN : BeginRead(withFlags)) \/ BeginAdvancedRead
  BY <1>2 DEF BeginRead, BeginAdvancedRead, RecvInv, Ended
<1>3. CASE ReadHead \/ ReadRest
  <2>1. UNCHANGED <<proc, sendVars>>
    BY <1>3 DEF ReadHead, ReadRest
  <2>2. \/ \E head : HeaderRead(head)
        \/ results' = results /\ recvStats' = recvStats
    BY <1>3 DEF ReadHead, ReadRest
  <2>3. CASE \E head : HeaderRead(head)
    BY <2>1, <2>3, HeaderReadInv
  <2>4. CASE results' = results /\ recvStats' = recvStats
    BY <2>1, <2>4 DEF RecvInv, Ended
  <2> QED BY <2>1, <2>2, <2>3, <2>4
<1>4. CASE ReadFrame
  <2>1. UNCHANGED <<proc, sendVars, recvStats>> /\ ~proc.recv.advanced
    BY <1>4 DEF ReadFrame, ReadData, ReadFails
  <2>2. \E r, at, size, m : ReadReturns(r, at, size, m)
    BY <1>4 DEF ReadFrame, ReadData, ReadFails
  <2> QED BY <1>1, <2>1, <2>2, Returned
<1>5. CASE AdvancedReadFrame
  <2>1. CASE AdvancedReadData
    <3>1. proc.recv.advanced /\ UNCHANGED <<proc, sendVars>>
      BY <1>5, <2>1 DEF AdvancedReadFrame, AdvancedReadData
    <3> QED BY <2>1, <3>1, AdvancedReadDataInv
  <2>2. CASE \E error, lost : AdvancedReadFails(error, lost)
    <3>1. PICK error, lost : AdvancedReadFails(error, lost)
      BY <2>2
    <3>2. /\ UNCHANGED <<proc, sendVars>> /\ recvStats' = Count(recvStats, "errors")
          /\ ReadReturns(error, pos', 0, NoData)
      BY <3>1 DEF AdvancedReadFails
    <3> QED BY <1>1, <3>2, Counting, Returned
  <2> QED BY <1>5, <2>1, <2>2 DEF AdvancedReadFrame
<1> QED BY <1>2, <1>3, <1>4, <1>5 DEF ReadStep

-----------------------------------------------------------------------------
(* The theorem.                                                            *)

(* Nothing has been called yet.                                            *)
LEMMA InitIInv == Init => IInv
<1> SUFFICES ASSUME Init PROVE IInv
  OBVIOUS
<1>1. ProcFits
  BY ProcessorAssumption DEF Init, ProcFits
<1>2. NoStats \in StatsType /\ NoStats.processed = 0 /\ NoStats.errors = 0 /\ NoStats.checksum = 0
  BY DEF NoStats, StatsType
<1>3. WritersFit /\ InSend = {}
  BY DEF Init, WritersFit, InSend, Idle
<1>4. IsFiniteSet(InSend) /\ Cardinality(InSend) = 0
  BY <1>3, FS_EmptySet
<1>5. SendInv
  BY <1>2, <1>3, <1>4 DEF Init, SendInv
<1>6. results \in Seq({}) /\ Len(results) = 0 /\ recvStats = NoStats
  BY DEF Init
<1>7. RecvInv
  BY <1>2, <1>6 DEF RecvInv, Ended
<1> QED BY <1>1, <1>5, <1>7 DEF IInv

(* A step of one end leaves the counters of the other alone.               *)
LEMMA OtherEnd ==
  ASSUME IInv, proc' = proc
  PROVE  /\ ProcFits'
         /\ UNCHANGED recvVars => RecvInv'
         /\ UNCHANGED sendVars => SendInv'
<1>1. ProcFits'
  BY DEF IInv, ProcFits
<1>2. UNCHANGED recvVars => RecvInv'
  BY DEF IInv, RecvInv, Ended, recvVars
<1>3. UNCHANGED sendVars => SendInv'
  BY DEF IInv, SendInv, WritersFit, InSend, sendVars
<1> QED BY <1>1, <1>2, <1>3

(* Every step keeps the invariant.                                         *)
LEMMA NextIInv == IInv /\ [Next]_vars => IInv'
<1> SUFFICES ASSUME IInv, [Next]_vars PROVE IInv'
  OBVIOUS
<1>1. ProcFits /\ SendInv /\ RecvInv
  BY DEF IInv
<1>2. ASSUME NEW w \in Writers, NEW m \in Messages, Send(w, m) \/ SendTooBig(w, m) PROVE IInv'
  BY <1>1, <1>2, BeginSend, OtherEnd DEF IInv
<1>3. CASE WriteStep
  BY <1>1, <1>3, WritesInv, OtherEnd DEF WriteStep, IInv
<1>4. CASE Close
  <2>1. UNCHANGED <<proc, writer, sends, sendStats, recvVars>>
    BY <1>4 DEF Close
  <2>2. SendInv'
    BY <1>1, <2>1 DEF SendInv, WritersFit, InSend
  <2> QED BY <2>1, <2>2, OtherEnd DEF IInv
<1>5. CASE (\E withFlags \in BOOLEAN : BeginRead(withFlags)) \/ BeginAdvancedRead \/ ReadStep
  BY <1>1, <1>5, ReadsInv, OtherEnd DEF IInv
<1>6. CASE UNCHANGED vars
  BY <1>6, OtherEnd DEF vars, IInv
<1> QED BY <1>2, <1>3, <1>4, <1>5, <1>6 DEF Next

(* Every call of an advanced processor is counted once, whichever way it   *)
(* ends, and a mismatch that was recovered from is not counted as its end. *)
THEOREM CallsAreCounted == Spec => []CallsCounted
<1>1. IInv /\ [Next]_vars => IInv'
  BY NextIInv
<1>2. IInv => CallsCounted
  BY DEF IInv, SendInv, RecvInv, Ended, CallsCounted
<1> QED BY InitIInv, <1>1, <1>2, PTL DEF Spec

-----------------------------------------------------------------------------
(* The bytes of the connection.  The operators of FrameLink, of any pieces *)
(* s: of those before a step and of those after it.                        *)

PieceType == [at : Nat, len : Nat \ {0}, header : Seq(Nat), body : Payloads \cup {NoData}]

Top(s) == IF s = <<>> THEN 0 ELSE End(s[Len(s)])
Holds(p, i) == p.at <= i /\ i < End(p)
PieceByte(p, i) == IF p.body = NoData THEN p.header[i - p.at + 1] ELSE p.body.byte

Byte(s, i) == PieceByte(s[CHOOSE k \in 1..Len(s) : s[k].at <= i /\ i < End(s[k])], i)
BytesOf(s, from, n) == [i \in 1..n |-> Byte(s, from + i - 1)]
PayloadsOf(s, from, n) ==
  {s[k].body : k \in {k \in 1..Len(s) :
     s[k].body # NoData /\ s[k].at = from /\ s[k].len = n /\ s[k].body.size = n}}

(* A piece is a header, or a payload or its beginning.                     *)
Filled(p) ==
  \/ p.body = NoData /\ p.len = Len(p.header)
  \/ p.body \in Payloads /\ p.len <= p.body.size

(* The pieces tile the bytes below Top: in order, without a hole.          *)
InOrder(s) ==
  /\ \A k \in 1..Len(s) : s[k].at = IF k = 1 THEN 0 ELSE End(s[k - 1])
  /\ \A j, k \in 1..Len(s) : j < k => End(s[j]) <= s[k].at
  /\ \A k \in 1..Len(s) : End(s[k]) <= Top(s)
Covered(s) == \A i \in Nat : i < Top(s) => \E k \in 1..Len(s) : Holds(s[k], i)
Tiling(s) ==
  /\ s \in Seq(PieceType) /\ \A k \in 1..Len(s) : Filled(s[k])
  /\ InOrder(s) /\ Covered(s)

(* The sizes and bytes of the payloads are numbers, their checksums words. *)
LEMMA PayloadNumbers ==
  /\ \A m \in Payloads : m.size \in Nat /\ m.byte \in Nat /\ Crc[m] \in Words /\ Crc[m] \in Nat
  /\ Messages \subseteq Payloads /\ NoData \notin Payloads
  /\ \A m \in DOMAIN Packed : Packed[m] \in Payloads
<1>1. \A m \in Payloads : m.size \in Nat /\ m.byte \in Bytes /\ Crc[m] \in Words
  BY PayloadAssumption
<1>2. \A m \in Payloads : m.byte \in Nat
  BY <1>1 DEF Bytes
<1>3. \A m \in Payloads : Crc[m] \in Nat
  BY <1>1 DEF Words
<1>4. Messages \subseteq Payloads /\ \A m \in DOMAIN Packed : Packed[m] \in Payloads
  BY DEF Payloads
<1> QED BY <1>1, <1>2, <1>3, <1>4, PayloadAssumption

(* The places of the pieces are numbers.                                   *)
LEMMA Places ==
  ASSUME NEW s \in Seq(PieceType)
  PROVE  /\ \A k \in 1..Len(s) : /\ s[k] \in PieceType
                                 /\ s[k].at \in Nat /\ s[k].len \in Nat \ {0} /\ End(s[k]) \in Nat
                                 /\ s[k].at < End(s[k])
         /\ Top(s) \in Nat /\ Len(s) \in Nat
<1>1. \A k \in 1..Len(s) : s[k] \in PieceType
  OBVIOUS
<1>2. \A p \in PieceType : /\ p.at \in Nat /\ p.len \in Nat \ {0} /\ End(p) \in Nat
                           /\ p.at < End(p)
  BY DEF PieceType, End
<1>3. Len(s) \in Nat
  OBVIOUS
<1>4. s # <<>> => Len(s) \in 1..Len(s)
  OBVIOUS
<1> QED BY <1>1, <1>2, <1>3, <1>4 DEF Top

(* A byte belongs to the one piece that holds it.                          *)
LEMMA ByteIs ==
  ASSUME NEW s, Tiling(s), NEW i \in Nat, NEW k \in 1..Len(s), Holds(s[k], i)
  PROVE  Byte(s, i) = PieceByte(s[k], i)
<1> DEFINE h == CHOOSE h \in 1..Len(s) : s[h].at <= i /\ i < End(s[h])
<1>1. h \in 1..Len(s) /\ s[h].at <= i /\ i < End(s[h])
  BY DEF Holds
<1>2. Byte(s, i) = PieceByte(s[h], i)
  BY DEF Byte
<1> HIDE DEF h
<1>3. \A j \in 1..Len(s) : s[j].at \in Nat /\ End(s[j]) \in Nat
  BY Places DEF Tiling
<1>4. \A j, l \in 1..Len(s) : j < l => End(s[j]) <= s[l].at
  BY DEF Tiling, InOrder
<1>5. ~(h < k) /\ ~(k < h)
  BY <1>1, <1>3, <1>4 DEF Holds
<1>6. h = k
  BY <1>1, <1>5
<1> QED BY <1>2, <1>6

(* The bytes below Top are numbers.                                        *)
LEMMA BytesAreNumbers ==
  ASSUME NEW s, Tiling(s), NEW i \in Nat, i < Top(s)
  PROVE  Byte(s, i) \in Nat
<1>1. PICK k \in 1..Len(s) : Holds(s[k], i)
  BY DEF Tiling, Covered
<1>2. Byte(s, i) = PieceByte(s[k], i)
  BY <1>1, ByteIs
<1>3. s[k] \in PieceType /\ Filled(s[k])
  BY DEF Tiling
<1>4. PICK p \in PieceType : p = s[k]
  BY <1>3
<1>5. p.at \in Nat /\ p.len \in Nat /\ p.header \in Seq(Nat) /\ p.at <= i /\ i < p.at + p.len
  BY <1>1, <1>4 DEF PieceType, Holds, End
<1>6. CASE p.body = NoData
  <2>1. p.len = Len(p.header)
    BY <1>3, <1>4, <1>6, PayloadNumbers DEF Filled
  <2>2. i - p.at + 1 \in 1..Len(p.header)
    BY <1>5, <2>1
  <2>3. p.header[i - p.at + 1] \in Nat
    BY <1>5, <2>2
  <2> QED BY <1>2, <1>4, <1>6, <2>3 DEF PieceByte
<1>7. CASE p.body # NoData
  <2>1. p.body \in Payloads
    BY <1>3, <1>4, <1>7 DEF Filled
  <2> QED BY <1>2, <1>4, <1>7, <2>1, PayloadNumbers DEF PieceByte
<1> QED BY <1>6, <1>7

(* What is read again after a step is what was read before it.             *)
Keeps(s, t) ==
  /\ Top(s) <= Top(t) /\ Len(s) <= Len(t)
  /\ \A k \in 1..Len(s) : t[k] = s[k]
  /\ \A from, n \in Nat : from + n <= Top(s) => BytesOf(t, from, n) = BytesOf(s, from, n)
  /\ \A from, n \in Nat : n > 0 /\ from + n <= Top(s) =>
       PayloadsOf(t, from, n) = PayloadsOf(s, from, n)

(* One piece more at the top.                                              *)
LEMMA OneMore ==
  ASSUME NEW s, Tiling(s), NEW p \in PieceType, Filled(p), p.at = Top(s),
         NEW t, t = Append(s, p)
  PROVE  /\ Len(t) = Len(s) + 1 /\ t[Len(t)] = p
         /\ \A k \in 1..Len(s) : t[k] = s[k]
         /\ Top(t) = End(p) /\ Tiling(t)
<1>1. s \in Seq(PieceType)
  BY DEF Tiling
<1>2. /\ t \in Seq(PieceType) /\ Len(t) = Len(s) + 1 /\ t[Len(t)] = p
      /\ \A k \in 1..Len(s) : t[k] = s[k]
      /\ Len(s) \in Nat
  BY <1>1
<1>3. /\ p.at \in Nat /\ p.len \in Nat \ {0} /\ End(p) = Top(s) + p.len
  BY DEF PieceType, End
<1>4. Top(t) = Top(s) + p.len
  <2>1. t # <<>>
    BY <1>2
  <2> QED BY <1>2, <1>3, <2>1 DEF Top
<1>5. /\ \A k \in 1..Len(s) : s[k].at \in Nat /\ End(s[k]) \in Nat
      /\ Top(s) \in Nat
  BY <1>1, Places
<1>6. \A k \in 1..Len(t) : k \in 1..Len(s) \/ k = Len(t)
  BY <1>2
<1>7. \A k \in 1..Len(t) : Filled(t[k])
  BY <1>2, <1>6 DEF Tiling
<1>8. \A k \in 1..Len(s) : End(s[k]) <= Top(s)
  BY DEF Tiling, InOrder
<1>9. \A k \in 1..Len(t) : End(t[k]) <= Top(t)
  <2>1. \A k \in 1..Len(s) : End(t[k]) <= Top(t)
    BY <1>2, <1>3, <1>4, <1>5, <1>8
  <2> QED BY <1>2, <1>3, <1>4, <1>6, <2>1
<1>10. \A j, k \in 1..Len(t) : j < k => End(t[j]) <= t[k].at
  <2> TAKE j, k \in 1..Len(t)
  <2>1. CASE k \in 1..Len(s)
    BY <1>2, <2>1 DEF Tiling, InOrder
  <2>2. CASE k = Len(t)
    BY <1>2, <1>6, <1>8, <2>2
  <2> QED BY <1>6, <2>1, <2>2
<1>11. \A k \in 1..Len(t) : t[k].at = IF k = 1 THEN 0 ELSE End(t[k - 1])
  <2> TAKE k \in 1..Len(t)
  <2>1. CASE k \in 1..Len(s)
    <3>1. s[k].at = IF k = 1 THEN 0 ELSE End(s[k - 1])
      BY <2>1 DEF Tiling, InOrder
    <3>2. k # 1 => k - 1 \in 1..Len(s)
      BY <1>2, <2>1
    <3> QED BY <1>2, <2>1, <3>1, <3>2
  <2>2. CASE k = Len(t)
    <3>1. CASE s = <<>>
      BY <1>1, <1>2, <2>2, <3>1 DEF Top
    <3>2. CASE s # <<>>
      <4>1. Len(s) \in 1..Len(s) /\ k - 1 = Len(s) /\ k # 1
        BY <1>1, <1>2, <2>2, <3>2
      <4>2. End(t[k - 1]) = Top(s)
        BY <1>2, <3>2, <4>1 DEF Top
      <4> QED BY <1>2, <2>2, <4>1, <4>2
    <3> QED BY <3>1, <3>2
  <2> QED BY <1>6, <2>1, <2>2
<1>12. Covered(t)
  <2> SUFFICES ASSUME NEW i \in Nat, i < Top(t) PROVE \E k \in 1..Len(t) : Holds(t[k], i)
    BY DEF Covered
  <2>1. CASE i < Top(s)
    <3>1. PICK k \in 1..Len(s) : Holds(s[k], i)
      BY <2>1 DEF Tiling, Covered
    <3>2. k \in 1..Len(t) /\ t[k] = s[k]
      BY <1>2
    <3> QED BY <3>1, <3>2
  <2>2. CASE ~(i < Top(s))
    <3>1. Holds(p, i)
      BY <1>3, <1>4, <1>5, <2>2 DEF Holds
    <3>2. Len(t) \in 1..Len(t)
      BY <1>2
    <3> QED BY <1>2, <3>1, <3>2
  <2> QED BY <2>1, <2>2
<1>13. Top(t) = End(p)
  BY <1>3, <1>4
<1> QED BY <1>2, <1>7, <1>9, <1>10, <1>11, <1>12, <1>13 DEF Tiling, InOrder

(* It changes nothing of what is below.                                    *)
LEMMA OneMoreKeeps ==
  ASSUME NEW s, Tiling(s), NEW p \in PieceType, Filled(p), p.at = Top(s),
         NEW t, t = Append(s, p)
  PROVE  Keeps(s, t)
<1>1. s \in Seq(PieceType) /\ Len(s) \in Nat /\ Top(s) \in Nat
  BY Places DEF Tiling
<1>2. /\ Len(t) = Len(s) + 1 /\ t[Len(t)] = p
      /\ \A k \in 1..Len(s) : t[k] = s[k]
      /\ Top(t) = End(p) /\ Tiling(t)
  <2>1. Len(t) = Len(s) + 1 /\ t[Len(t)] = p
    BY OneMore
  <2>2. \A k \in 1..Len(s) : t[k] = s[k]
    BY OneMore
  <2>3. Top(t) = End(p) /\ Tiling(t)
    BY OneMore
  <2> QED BY <2>1, <2>2, <2>3
<1>3. \A i \in Nat : i < Top(s) => Byte(t, i) = Byte(s, i)
  <2> TAKE i \in Nat
  <2> HAVE i < Top(s)
  <2>1. PICK k \in 1..Len(s) : Holds(s[k], i)
    BY DEF Tiling, Covered
  <2>2. k \in 1..Len(t) /\ t[k] = s[k]
    BY <1>1, <1>2
  <2>3. Byte(s, i) = PieceByte(s[k], i)
    BY <2>1, ByteIs
  <2>4. Byte(t, i) = PieceByte(t[k], i)
    BY <1>2, <2>1, <2>2, ByteIs
  <2> QED BY <2>2, <2>3, <2>4
<1>4. \A from, n \in Nat : from + n <= Top(s) => BytesOf(t, from, n) = BytesOf(s, from, n)
  <2> TAKE from, n \in Nat
  <2> HAVE from + n <= Top(s)
  <2>1. \A i \in 1..n : from + i - 1 \in Nat /\ from + i - 1 < Top(s)
    BY <1>1
  <2>2. \A i \in 1..n : Byte(t, from + i - 1) = Byte(s, from + i - 1)
    BY <1>3, <2>1
  <2> QED BY <2>2 DEF BytesOf
<1>5. \A from, n \in Nat : n > 0 /\ from + n <= Top(s) =>
        PayloadsOf(t, from, n) = PayloadsOf(s, from, n)
  <2> TAKE from, n \in Nat
  <2> HAVE n > 0 /\ from + n <= Top(s)
  <2> DEFINE At(q) == q.body # NoData /\ q.at = from /\ q.len = n /\ q.body.size = n
  <2>1. ~At(p)
    BY <1>1
  <2>2. \A k \in 1..Len(t) : k \in 1..Len(s) \/ k = Len(t)
    BY <1>1, <1>2
  <2>3. {k \in 1..Len(t) : At(t[k])} = {k \in 1..Len(s) : At(s[k])}
    BY <1>1, <1>2, <2>1, <2>2
  <2>4. PayloadsOf(t, from, n) = {t[k].body : k \in {k \in 1..Len(t) : At(t[k])}}
    BY DEF PayloadsOf
  <2>5. PayloadsOf(s, from, n) = {s[k].body : k \in {k \in 1..Len(s) : At(s[k])}}
    BY DEF PayloadsOf
  <2>6. \A k \in {k \in 1..Len(s) : At(s[k])} : t[k].body = s[k].body
    BY <1>2
  <2> HIDE DEF At
  <2> QED BY <2>3, <2>4, <2>5, <2>6
<1>6. Top(s) <= Top(t) /\ Len(s) <= Len(t)
  <2>1. p.len \in Nat /\ End(p) = p.at + p.len
    BY DEF PieceType, End
  <2> QED BY <1>1, <1>2, <2>1
<1> QED BY <1>2, <1>4, <1>5, <1>6 DEF Keeps

(* Nothing changes.                                                        *)
LEMMA KeepsItself ==
  ASSUME NEW s, Tiling(s)
  PROVE  Keeps(s, s)
<1>1. Top(s) \in Nat /\ Len(s) \in Nat
  BY Places DEF Tiling
<1> QED BY <1>1 DEF Keeps

(* What a Write leaves in the stream.                                      *)
LEMMA WroteStream ==
  ASSUME Tiling(stream), NEW n \in Nat, NEW h \in Seq(Nat), NEW b \in Payloads \cup {NoData},
         Filled(Piece(Top(stream), n, h, b)), Wrote(n, h, b)
  PROVE  /\ Tiling(stream') /\ Keeps(stream, stream') /\ Top(stream') = Top(stream) + n
         /\ n > 0 => \E k \in 1..Len(stream') : stream'[k] = Piece(Top(stream), n, h, b)
<1>1. Top(stream) \in Nat
  BY Places DEF Tiling
<1>2. CASE n = 0
  <2>1. stream' = stream
    BY <1>2 DEF Wrote
  <2> QED BY <1>1, <1>2, <2>1, KeepsItself
<1>3. CASE n # 0
  <2> DEFINE p == Piece(Top(stream), n, h, b)
  <2>1. stream' = Append(stream, p)
    BY <1>3 DEF Wrote, Written, Top
  <2>2. p \in PieceType /\ p.at = Top(stream) /\ p.len = n /\ End(p) = Top(stream) + n
    BY <1>1, <1>3 DEF Piece, PieceType, End
  <2>3. Filled(p)
    OBVIOUS
  <2> HIDE DEF p
  <2>4. Keeps(stream, stream')
    BY <2>1, <2>2, <2>3, OneMoreKeeps
  <2>5. Len(stream') = Len(stream) + 1 /\ stream'[Len(stream')] = p
    BY <2>1, <2>2, <2>3, OneMore
  <2>6. Top(stream') = End(p) /\ Tiling(stream')
    BY <2>1, <2>2, <2>3, OneMore
  <2>7. Len(stream) \in Nat
    BY Places DEF Tiling
  <2>8. Len(stream') \in 1..Len(stream')
    BY <2>5, <2>7
  <2> QED BY <2>2, <2>4, <2>5, <2>6, <2>8 DEF p
<1> QED BY <1>2, <1>3

-----------------------------------------------------------------------------
(* The headers in the stream.                                              *)

(* Two sequences of numbers in a row.                                      *)
LEMMA InARowOfNumbers ==
  ASSUME NEW a \in Seq(Nat), NEW b \in Seq(Nat)
  PROVE  a \o b \in Seq(Nat) /\ Len(a \o b) = Len(a) + Len(b)
OBVIOUS

(* A header is a sequence of 4 or 12 numbers.                              *)
LEMMA EncodedHeader ==
  ASSUME NEW size \in Nat, NEW checksum \in Nat, NEW flags \in Nat
  PROVE  /\ EncodeHeader(size, checksum, flags) \in Seq(Nat)
         /\ Len(EncodeHeader(size, checksum, flags)) \in {CompactHeaderSize, DefaultHeaderSize}
<1>1. \A x \in Nat : PutUint32(x) \in Seq(Nat) /\ Len(PutUint32(x)) = 4
  BY DEF PutUint32
<1>2. PutUint16(size) \in Seq(Nat) /\ Len(PutUint16(size)) = 2
  BY DEF PutUint16
<1>3. <<checksum % 256, flags % 256>> \in Seq(Nat) /\ Len(<<checksum % 256, flags % 256>>) = 2
  OBVIOUS
<1>4. CASE UsesCompact(size, flags)
  <2> DEFINE a == PutUint16(size)  b == <<checksum % 256, flags % 256>>
  <2>1. EncodeHeader(size, checksum, flags) = a \o b
    BY <1>4 DEF EncodeHeader
  <2>2. a \in Seq(Nat) /\ Len(a) = 2 /\ b \in Seq(Nat) /\ Len(b) = 2
    BY <1>2, <1>3
  <2> HIDE DEF a, b
  <2>3. a \o b \in Seq(Nat) /\ Len(a \o b) = 4
    <3>1. a \in Seq(Nat) /\ b \in Seq(Nat)
      BY <2>2
    <3>2. a \o b \in Seq(Nat) /\ Len(a \o b) = Len(a) + Len(b)
      BY <3>1, InARowOfNumbers
    <3> QED BY <2>2, <3>2
  <2> QED BY <2>1, <2>3 DEF CompactHeaderSize
<1>5. CASE ~UsesCompact(size, flags)
  <2> DEFINE a == PutUint32(size)  b == PutUint32(checksum)  c == PutUint32(flags)
  <2>1. EncodeHeader(size, checksum, flags) = (a \o b) \o c
    BY <1>5 DEF EncodeHeader
  <2>2. /\ a \in Seq(Nat) /\ Len(a) = 4 /\ b \in Seq(Nat) /\ Len(b) = 4
        /\ c \in Seq(Nat) /\ Len(c) = 4
    BY <1>1
  <2> HIDE DEF a, b, c
  <2>3. a \o b \in Seq(Nat) /\ Len(a \o b) = 8
    <3>1. a \in Seq(Nat) /\ b \in Seq(Nat)
      BY <2>2
    <3>2. a \o b \in Seq(Nat) /\ Len(a \o b) = Len(a) + Len(b)
      BY <3>1, InARowOfNumbers
    <3> QED BY <2>2, <3>2
  <2> DEFINE d == a \o b
  <2> HIDE DEF d
  <2>4. d \o c \in Seq(Nat) /\ Len(d \o c) = 12
    BY <2>2, <2>3, InARowOfNumbers DEF d
  <2> QED BY <2>1, <2>4 DEF DefaultHeaderSize, d
<1> QED BY <1>4, <1>5

(* A decoded size is a number.                                             *)
LEMMA DecodedSize ==
  ASSUME NEW h \in Seq(Nat), Len(h) \in {CompactHeaderSize, DefaultHeaderSize}
  PROVE  DecodeHeader(h).size \in Nat
<1>1. \A i \in 1..Len(h) : h[i] \in Nat
  OBVIOUS
<1>2. CASE Len(h) = 4
  <2>1. h[1] \in Nat /\ h[2] \in Nat
    BY <1>1, <1>2
  <2>2. Field(h, 1, 2)[1] = h[1] /\ Field(h, 1, 2)[2] = h[2]
    BY <1>2 DEF Field
  <2>3. Uint16(Field(h, 1, 2)) \in Nat
    BY <2>1, <2>2 DEF Uint16
  <2> QED BY <1>2, <2>3 DEF DecodeHeader, Header, CompactHeaderSize
<1>3. CASE Len(h) = 12
  <2>1. h[1] \in Nat /\ h[2] \in Nat /\ h[3] \in Nat /\ h[4] \in Nat
    BY <1>1, <1>3
  <2>2. /\ Field(h, 1, 4)[1] = h[1] /\ Field(h, 1, 4)[2] = h[2]
        /\ Field(h, 1, 4)[3] = h[3] /\ Field(h, 1, 4)[4] = h[4]
    BY <1>3 DEF Field
  <2>3. Uint32(Field(h, 1, 4)) \in Nat
    <3>1. Uint32(Field(h, 1, 4)) = h[1] * 16777216 + h[2] * 65536 + h[3] * 256 + h[4]
      BY <2>2 DEF Uint32
    <3>2. PICK a, b, c, d \in Nat : a = h[1] /\ b = h[2] /\ c = h[3] /\ d = h[4]
      BY <2>1
    <3>3. a * 16777216 + b * 65536 + c * 256 + d \in Nat
      OBVIOUS
    <3> QED BY <3>1, <3>2, <3>3
  <2> QED BY <1>3, <2>3 DEF DecodeHeader, Header, CompactHeaderSize
<1> QED BY <1>2, <1>3 DEF CompactHeaderSize, DefaultHeaderSize

(* The header that begins at a byte: its first four bytes tell its length. *)
HeadOf(s, start) ==
  LET h == BytesOf(s, start, CompactHeaderSize) IN
  IF IsCompact(h) THEN h
  ELSE h \o BytesOf(s, start + CompactHeaderSize, DefaultHeaderSize - CompactHeaderSize)

(* What is read is a sequence of numbers.                                  *)
LEMMA BytesRead ==
  ASSUME NEW s, Tiling(s), NEW from \in Nat, NEW n \in Nat, from + n <= Top(s)
  PROVE  BytesOf(s, from, n) \in Seq(Nat) /\ Len(BytesOf(s, from, n)) = n
<1>1. Top(s) \in Nat
  BY Places DEF Tiling
<1>2. \A i \in 1..n : from + i - 1 \in Nat /\ from + i - 1 < Top(s)
  BY <1>1
<1>3. \A i \in 1..n : Byte(s, from + i - 1) \in Nat
  BY <1>2, BytesAreNumbers
<1> QED BY <1>3 DEF BytesOf

(* Both forms of header.                                                   *)
LEMMA HeadRead ==
  ASSUME NEW s, Tiling(s), NEW start \in Nat, NEW h, h = BytesOf(s, start, 4), start + 4 <= Top(s)
  PROVE  /\ h \in Seq(Nat) /\ Len(h) = 4
         /\ IsCompact(h) => HeadOf(s, start) = h
         /\ ~IsCompact(h) /\ start + 12 <= Top(s) =>
              /\ HeadOf(s, start) = h \o BytesOf(s, start + 4, 8)
              /\ HeadOf(s, start) \in Seq(Nat) /\ Len(HeadOf(s, start)) = 12
<1>1. h \in Seq(Nat) /\ Len(h) = 4
  BY BytesRead
<1>2. IsCompact(h) => HeadOf(s, start) = h
  BY DEF HeadOf, CompactHeaderSize
<1>3. ASSUME ~IsCompact(h), start + 12 <= Top(s)
      PROVE  /\ HeadOf(s, start) = h \o BytesOf(s, start + 4, 8)
             /\ HeadOf(s, start) \in Seq(Nat) /\ Len(HeadOf(s, start)) = 12
  <2>1. HeadOf(s, start) = h \o BytesOf(s, start + 4, 8)
    BY <1>3 DEF HeadOf, CompactHeaderSize, DefaultHeaderSize
  <2> DEFINE r == BytesOf(s, start + 4, 8)
  <2>2. start + 4 \in Nat /\ (start + 4) + 8 <= Top(s)
    BY <1>3, Places DEF Tiling
  <2>3. r \in Seq(Nat) /\ Len(r) = 8
    BY <2>2, BytesRead
  <2> HIDE DEF r
  <2>4. h \o r \in Seq(Nat) /\ Len(h \o r) = 12
    <3>1. h \in Seq(Nat) /\ r \in Seq(Nat)
      BY <1>1, <2>3
    <3>2. h \o r \in Seq(Nat) /\ Len(h \o r) = Len(h) + Len(r)
      BY <3>1, InARowOfNumbers
    <3>3. Len(h) = 4
      BY <1>1
    <3>4. Len(r) = 8
      BY <2>3
    <3>5. 4 + 8 = 12
      OBVIOUS
    <3> QED BY <3>2, <3>3, <3>4, <3>5
  <2> QED BY <2>1, <2>4 DEF r
<1> QED BY <1>1, <1>2, <1>3

-----------------------------------------------------------------------------
(* The sending end: where the frames are in the stream, and what each      *)
(* writer knows of its own.                                                *)

WriterType == [pc : WriterSteps, message : Messages \cup {NoData}, body : Payloads \cup {NoData},
               flags : Nat, frame : Nat, transfer : Record]
FrameType == [message : Messages, body : Payloads, at : Nat, hlen : Nat, dataAt : Int]

(* Body, flags and header of the frame of a message, with processors p.    *)
BodyOf(p, m) == IF p.send.advanced /\ p.send.compression THEN Compressed(m) ELSE m
MarkOf(p, m) ==
  FrameFlags(BodyOf(p, m).size, IF BodyOf(p, m) # m THEN FlagCompressed ELSE FlagNormal)
HeaderFor(p, m) == EncodeHeader(BodyOf(p, m).size, Crc[BodyOf(p, m)], MarkOf(p, m))

(* The locals x of a writer fit its message and, when only its data is     *)
(* left to be written, its frame.                                          *)
WriterFits(p, x) ==
  x.pc # "idle" => /\ x.message \in Messages /\ x.body = BodyOf(p, x.message)
                   /\ x.flags = MarkOf(p, x.message)
Pending(p, fs, x) ==
  x.pc = "data" => /\ x.frame \in 1..Len(fs)
                   /\ fs[x.frame].dataAt = -1 /\ x.body.size > 0
                   /\ fs[x.frame].message = x.message
                   /\ fs[x.frame].hlen = Len(HeaderFor(p, x.message))
Alone(ws) ==
  \A v, w \in Writers :
    ws[v].pc = "data" /\ ws[w].pc = "data" /\ ws[v].frame = ws[w].frame => v = w

(* The header of frame f stands at its place in the stream s, and so does  *)
(* its data, unless a Write failed or is still to come.                    *)
Placed(p, s, f) ==
  /\ f.body = BodyOf(p, f.message) /\ f.at + f.hlen <= Top(s)
  /\ f.hlen = Len(HeaderFor(p, f.message)) =>
       \E k \in 1..Len(s) : s[k] = Piece(f.at, f.hlen, HeaderFor(p, f.message), NoData)
  /\ f.dataAt # -1 => f.hlen = Len(HeaderFor(p, f.message))
  /\ f.dataAt # -1 /\ f.body.size > 0 =>
       \E k \in 1..Len(s) : s[k] = Piece(f.dataAt, f.body.size, <<>>, f.body)

WritersInv ==
  /\ writer \in [Writers -> WriterType] /\ Alone(writer)
  /\ \A w \in Writers : /\ WriterFits(proc, writer[w]) /\ Pending(proc, frames, writer[w])
                        /\ writer[w].frame <= Len(frames)
FramesInv == frames \in Seq(FrameType) /\ \A i \in 1..Len(frames) : Placed(proc, stream, frames[i])
WritingInv == proc \in Processors /\ open \in BOOLEAN /\ Tiling(stream) /\ WritersInv /\ FramesInv

(* What compression makes of a message, and the header of its frame.       *)
LEMMA BodyType ==
  ASSUME NEW p, NEW m \in Messages
  PROVE  /\ BodyOf(p, m) \in Payloads /\ BodyOf(p, m).size \in Nat /\ MarkOf(p, m) \in Nat
         /\ HeaderFor(p, m) \in Seq(Nat)
         /\ Len(HeaderFor(p, m)) \in {CompactHeaderSize, DefaultHeaderSize}
<1>1. BodyOf(p, m) \in Payloads
  BY PayloadNumbers DEF BodyOf, Compressed
<1>2. BodyOf(p, m).size \in Nat /\ Crc[BodyOf(p, m)] \in Nat
  BY <1>1, PayloadNumbers
<1>3. \A size, flags \in Nat : FrameFlags(size, flags) \in Nat
  BY DEF FrameFlags, WithFlag, FlagCompact
<1>4. MarkOf(p, m) \in Nat
  BY <1>2, <1>3 DEF MarkOf, FlagCompressed, FlagNormal
<1> QED BY <1>1, <1>2, <1>4, EncodedHeader DEF HeaderFor

(* The names of the model for them.                                        *)
LEMMA HeaderNames ==
  /\ \A m : FrameBody(m) = BodyOf(proc, m)
  /\ \A m : FrameFlags(FrameBody(m).size, FlagsOf(m)) = MarkOf(proc, m)
  /\ \A w \in Writers : writer[w].pc # "idle" /\ WriterFits(proc, writer[w]) =>
       HeaderOf(w) = HeaderFor(proc, writer[w].message)
  /\ Written = Top(stream)
<1>1. \A m : FrameBody(m) = BodyOf(proc, m)
  BY DEF FrameBody, BodyOf
<1>2. \A m : FrameFlags(FrameBody(m).size, FlagsOf(m)) = MarkOf(proc, m)
  BY <1>1 DEF MarkOf, FlagsOf
<1>3. \A w \in Writers : writer[w].pc # "idle" /\ WriterFits(proc, writer[w]) =>
        HeaderOf(w) = HeaderFor(proc, writer[w].message)
  BY DEF HeaderOf, HeaderFor, WriterFits
<1>4. Written = Top(stream)
  BY DEF Written, Top
<1> QED BY <1>1, <1>2, <1>3, <1>4

(* The records of the tracker that Send leaves.                            *)
LEMMA SettledType ==
  ASSUME NEW r \in Record, NEW n \in Nat, NEW ok \in BOOLEAN
  PROVE  Settled(r, n, ok) \in Record /\ Fresh(n) \in Record
<1>1. \A q \in Record, s \in {"Failed", "Cancelled"} : WithStatus(q, s) \in Record
  BY DEF WithStatus, Record, Statuses
<1>2. AfterProgress(r, n, FALSE) \in Record
  <2>1. r.total \in Nat /\ r.notified \in Nat /\ r.speed \in Int /\ r.completionSent \in BOOLEAN
    BY DEF Record
  <2>2. Percent(n, r.total) \in Nat
    BY <2>1 DEF Percent
  <2>3. Reaches(r, n) \in BOOLEAN
    BY DEF Reaches
  <2> QED BY <2>1, <2>2, <2>3 DEF AfterProgress, Record, Statuses
<1>3. Fresh(n) \in Record
  BY DEF Fresh, Record, Statuses
<1> DEFINE marked == IF ok THEN AfterProgress(r, n, FALSE) ELSE WithStatus(r, "Failed")
<1>4. marked \in Record
  BY <1>1, <1>2
<1>5. Settled(r, n, ok) = IF CanCancel(marked) THEN WithStatus(marked, "Cancelled") ELSE marked
  BY DEF Settled
<1> HIDE DEF marked
<1> QED BY <1>1, <1>3, <1>4, <1>5

(* The locals outside Send.                                                *)
LEMMA IdleType ==
  ASSUME NEW t \in Record
  PROVE  /\ [Idle EXCEPT !.transfer = t] \in WriterType
         /\ [Idle EXCEPT !.transfer = t].pc = "idle" /\ [Idle EXCEPT !.transfer = t].frame = 0
BY DEF Idle, WriterType, WriterSteps

(* The locals when only the data of frame n is left to be written.         *)
LEMMA DataLeft ==
  ASSUME NEW r \in WriterType, NEW n \in Nat
  PROVE  LET x == [r EXCEPT !.pc = "data", !.frame = n + 1] IN
         /\ x \in WriterType /\ x.pc = "data" /\ x.frame = n + 1
         /\ x.message = r.message /\ x.body = r.body /\ x.flags = r.flags
<1> DEFINE x == [r EXCEPT !.pc = "data", !.frame = n + 1]
<1>1. n + 1 \in Nat /\ "data" \in WriterSteps
  BY DEF WriterSteps
<1>2. /\ x.pc = "data" /\ x.frame = n + 1
      /\ x.message = r.message /\ x.body = r.body /\ x.flags = r.flags
  BY DEF WriterType
<1>3. x \in WriterType
  BY <1>1 DEF WriterType
<1> QED BY <1>2, <1>3

(* A call of Send that returns leaves them.                                *)
LEMMA ReturnsIdle ==
  ASSUME WritersInv, NEW w \in Writers, writer[w].pc # "idle", NEW ok \in BOOLEAN,
         SendReturns(w, ok)
  PROVE  \E t \in Record : writer' = [writer EXCEPT ![w] = [Idle EXCEPT !.transfer = t]]
<1>1. writer[w] \in WriterType /\ writer[w].message \in Messages
  BY DEF WritersInv, WriterFits
<1>2. writer[w].transfer \in Record /\ writer[w].message.size \in Nat
  BY <1>1, PayloadNumbers DEF WriterType
<1>3. Settled(writer[w].transfer, writer[w].message.size, ok) \in Record
  BY <1>2, SettledType
<1>4. Idle.transfer \in Record
  BY SettledType DEF Idle, Fresh, Record, Statuses
<1> DEFINE t == IF Tracked(writer[w].message)
                  THEN Settled(writer[w].transfer, writer[w].message.size, ok) ELSE Idle.transfer
<1>5. t \in Record
  BY <1>3, <1>4
<1>6. writer' = [writer EXCEPT ![w] = [Idle EXCEPT !.transfer = t]]
  BY DEF SendReturns
<1> QED BY <1>5, <1>6

(* A frame stays where it is.                                              *)
LEMMA StaysPlaced ==
  ASSUME NEW p, NEW s, NEW t, Tiling(s), Tiling(t), Keeps(s, t), NEW f \in FrameType, Placed(p, s, f)
  PROVE  Placed(p, t, f)
<1>1. Top(s) \in Nat /\ Top(t) \in Nat /\ Len(s) \in Nat /\ Len(t) \in Nat
  BY Places DEF Tiling
<1>2. Top(s) <= Top(t) /\ \A k \in 1..Len(s) : k \in 1..Len(t) /\ t[k] = s[k]
  BY <1>1 DEF Keeps
<1>3. f.at + f.hlen \in Nat
  BY DEF FrameType
<1>4. f.at + f.hlen <= Top(t)
  BY <1>1, <1>2, <1>3 DEF Placed
<1> QED BY <1>2, <1>4 DEF Placed

(* A writer w goes on with the locals x, and the frames of the others stay *)
(* as they are.                                                            *)
LEMMA WriterGoesOn ==
  ASSUME WritersInv, proc' = proc, Len(frames) \in Nat, Len(frames') \in Nat,
         Len(frames) <= Len(frames'), NEW w \in Writers, NEW x \in WriterType,
         writer' = [writer EXCEPT ![w] = x],
         WriterFits(proc, x), Pending(proc, frames', x), x.frame <= Len(frames'),
         \A v \in Writers : v # w /\ writer[v].pc = "data" =>
           /\ frames'[writer[v].frame] = frames[writer[v].frame]
           /\ x.pc = "data" => writer[v].frame # x.frame
  PROVE  WritersInv'
<1>1. \A v \in Writers : writer'[v] = IF v = w THEN x ELSE writer[v]
  BY DEF WritersInv
<1>2. writer' \in [Writers -> WriterType]
  BY DEF WritersInv
<1>3. Alone(writer')
  <2> SUFFICES ASSUME NEW u \in Writers, NEW v \in Writers, writer'[u].pc = "data",
                      writer'[v].pc = "data", writer'[u].frame = writer'[v].frame, u # v
               PROVE  FALSE
    BY DEF Alone
  <2>1. CASE u # w /\ v # w
    BY <1>1, <2>1 DEF WritersInv, Alone
  <2>2. CASE u = w
    BY <1>1, <2>2
  <2>3. CASE v = w
    BY <1>1, <2>3
  <2> QED BY <2>1, <2>2, <2>3
<1>4. ASSUME NEW v \in Writers
      PROVE  /\ WriterFits(proc, writer'[v]) /\ Pending(proc, frames', writer'[v])
             /\ writer'[v].frame <= Len(frames')
  <2>1. CASE v = w
    BY <1>1, <2>1
  <2>2. CASE v # w
    <3>1. writer'[v] = writer[v] /\ writer[v] \in WriterType
      BY <1>1, <2>2 DEF WritersInv
    <3>2. /\ WriterFits(proc, writer[v]) /\ Pending(proc, frames, writer[v])
          /\ writer[v].frame <= Len(frames)
      BY DEF WritersInv
    <3>3. Pending(proc, frames', writer[v])
      <4>1. CASE writer[v].pc = "data"
        <5>1. frames'[writer[v].frame] = frames[writer[v].frame]
          BY <2>2, <4>1
        <5> QED BY <3>2, <4>1, <5>1 DEF Pending
      <4>2. CASE writer[v].pc # "data"
        BY <4>2 DEF Pending
      <4> QED BY <4>1, <4>2
    <3>4. writer[v].frame \in Nat
      BY <3>1 DEF WriterType
    <3> QED BY <3>1, <3>2, <3>3, <3>4
  <2> QED BY <2>1, <2>2
<1> QED BY <1>2, <1>3, <1>4 DEF WritersInv

(* A writer w leaves Send, and the frames of the others stay.              *)
LEMMA WriterLeaves ==
  ASSUME WritersInv, proc' = proc, Len(frames) \in Nat, Len(frames') \in Nat,
         Len(frames) <= Len(frames'), NEW w \in Writers, NEW t \in Record,
         writer' = [writer EXCEPT ![w] = [Idle EXCEPT !.transfer = t]],
         \A v \in Writers : v # w /\ writer[v].pc = "data" =>
           frames'[writer[v].frame] = frames[writer[v].frame]
  PROVE  WritersInv'
<1> DEFINE x == [Idle EXCEPT !.transfer = t]
<1>1. x \in WriterType /\ x.pc = "idle" /\ x.frame = 0
  BY IdleType
<1>2. writer' = [writer EXCEPT ![w] = x]
  OBVIOUS
<1> HIDE DEF x
<1>3. WriterFits(proc, x) /\ Pending(proc, frames', x)
  BY <1>1 DEF WriterFits, Pending
<1>4. x.frame <= Len(frames') /\ x.pc # "data"
  BY <1>1
<1> QED BY <1>1, <1>2, <1>3, <1>4, WriterGoesOn

(* Frames that are added, or not, leave those of the writers alone.        *)
LEMMA OthersFrames ==
  ASSUME WritersInv, NEW g, frames \in Seq(FrameType),
         frames' = frames \/ frames' = Append(frames, g)
  PROVE  /\ Len(frames) \in Nat /\ Len(frames') \in Nat /\ Len(frames) <= Len(frames')
         /\ \A i \in 1..Len(frames) : frames'[i] = frames[i]
         /\ \A v \in Writers : writer[v].pc = "data" =>
              frames'[writer[v].frame] = frames[writer[v].frame]
<1>1. /\ Len(frames) \in Nat /\ Len(frames') \in Nat /\ Len(frames) <= Len(frames')
      /\ \A i \in 1..Len(frames) : frames'[i] = frames[i]
  OBVIOUS
<1>2. \A v \in Writers : writer[v].pc = "data" => writer[v].frame \in 1..Len(frames)
  BY DEF WritersInv, Pending
<1> QED BY <1>1, <1>2

(* Frames stay placed when the stream grows, and so does one that is       *)
(* placed and added.                                                       *)
LEMMA FramesStay ==
  ASSUME FramesInv, Tiling(stream), Tiling(stream'), Keeps(stream, stream'), proc' = proc,
         NEW g \in FrameType,
         frames' = frames \/ (frames' = Append(frames, g) /\ Placed(proc, stream', g))
  PROVE  FramesInv'
<1>1. frames \in Seq(FrameType) /\ Len(frames) \in Nat
  BY DEF FramesInv
<1>2. \A i \in 1..Len(frames) : frames[i] \in FrameType /\ Placed(proc, stream', frames[i])
  <2> TAKE i \in 1..Len(frames)
  <2>1. frames[i] \in FrameType /\ Placed(proc, stream, frames[i])
    BY DEF FramesInv
  <2> QED BY <2>1, StaysPlaced
<1>3. CASE frames' = frames
  BY <1>1, <1>2, <1>3 DEF FramesInv
<1>4. CASE frames' = Append(frames, g) /\ Placed(proc, stream', g)
  <2>1. /\ frames' \in Seq(FrameType) /\ Len(frames') = Len(frames) + 1
        /\ frames'[Len(frames')] = g /\ \A i \in 1..Len(frames) : frames'[i] = frames[i]
    BY <1>1, <1>4
  <2>2. \A i \in 1..Len(frames') : i \in 1..Len(frames) \/ i = Len(frames')
    BY <1>1, <2>1
  <2>3. \A i \in 1..Len(frames') : Placed(proc, stream', frames'[i])
    BY <1>2, <1>4, <2>1, <2>2
  <2> QED BY <2>1, <2>3 DEF FramesInv
<1> QED BY <1>3, <1>4

(* The message of a writer under way, and the header of its frame.         *)
LEMMA UnderWay ==
  ASSUME WritingInv, NEW w \in Writers, writer[w].pc # "idle"
  PROVE  /\ writer[w].message \in Messages /\ writer[w].body = BodyOf(proc, writer[w].message)
         /\ writer[w].body \in Payloads /\ writer[w].body.size \in Nat
         /\ HeaderOf(w) = HeaderFor(proc, writer[w].message) /\ HeaderOf(w) \in Seq(Nat)
         /\ Len(HeaderOf(w)) \in {4, 12}
         /\ Written = Top(stream) /\ Top(stream) \in Nat
<1>1. writer[w] \in WriterType /\ WriterFits(proc, writer[w])
  BY DEF WritingInv, WritersInv
<1>2. writer[w].message \in Messages /\ writer[w].body = BodyOf(proc, writer[w].message)
  BY <1>1 DEF WriterFits
<1>3. writer[w].body \in Payloads /\ writer[w].body.size \in Nat
  BY <1>2, BodyType
<1>4. HeaderOf(w) = HeaderFor(proc, writer[w].message)
  BY <1>1, HeaderNames
<1>5. HeaderOf(w) \in Seq(Nat) /\ Len(HeaderOf(w)) \in {4, 12}
  BY <1>2, <1>4, BodyType DEF CompactHeaderSize, DefaultHeaderSize
<1>6. Top(stream) \in Nat /\ Written = Top(stream)
  BY Places, HeaderNames DEF WritingInv, Tiling
<1> QED BY <1>2, <1>3, <1>4, <1>5, <1>6

(* Its frame, when n bytes of the header are written.                      *)
LEMMA FrameOf ==
  ASSUME NEW w \in Writers, writer[w].message \in Messages, writer[w].body \in Payloads,
         writer[w].body.size \in Nat, Written \in Nat, NEW n \in Nat
  PROVE  LET g == Frame(w, n) IN
         /\ g \in FrameType /\ [g EXCEPT !.dataAt = -1] \in FrameType
         /\ g.message = writer[w].message /\ g.body = writer[w].body
         /\ g.at = Written /\ g.hlen = n
         /\ g.dataAt = IF writer[w].body.size = 0 THEN Written + n ELSE -1
<1>1. (IF writer[w].body.size = 0 THEN Written + n ELSE -1) \in Int
  OBVIOUS
<1> QED BY <1>1 DEF Frame, FrameType

(* A call of Send begins.                                                  *)
LEMMA SendsWriting ==
  ASSUME WritingInv, NEW w \in Writers, NEW m \in Messages, Send(w, m) \/ SendTooBig(w, m)
  PROVE  WritingInv' /\ Keeps(stream, stream')
<1>1. UNCHANGED <<proc, stream, open, frames>> /\ writer[w].pc = "idle"
  BY DEF Send, SendTooBig
<1>2. WritersInv /\ frames \in Seq(FrameType) /\ m.size \in Nat
  BY PayloadNumbers DEF WritingInv, FramesInv
<1>3. /\ Len(frames) \in Nat /\ Len(frames') \in Nat /\ Len(frames) <= Len(frames')
      /\ \A v \in Writers : writer[v].pc = "data" =>
           frames'[writer[v].frame] = frames[writer[v].frame]
  BY <1>1, <1>2, OthersFrames
<1>4. CASE Send(w, m)
  <2> DEFINE x == [pc |-> "header", message |-> m, body |-> FrameBody(m),
                   flags |-> FrameFlags(FrameBody(m).size, FlagsOf(m)), frame |-> 0,
                   transfer |-> IF Tracked(m) THEN Fresh(m.size) ELSE Fresh(0)]
  <2>1. writer' = [writer EXCEPT ![w] = x]
    BY <1>4 DEF Send
  <2>2. /\ FrameBody(m) = BodyOf(proc, m) /\ FrameBody(m) \in Payloads
        /\ FrameFlags(FrameBody(m).size, FlagsOf(m)) = MarkOf(proc, m)
        /\ FrameFlags(FrameBody(m).size, FlagsOf(m)) \in Nat
    BY HeaderNames, BodyType
  <2>3. (IF Tracked(m) THEN Fresh(m.size) ELSE Fresh(0)) \in Record
    BY <1>2 DEF Fresh, Record, Statuses
  <2>4. x \in WriterType /\ x.pc = "header" /\ x.frame = 0
    BY <2>2, <2>3 DEF WriterType, WriterSteps
  <2>5. WriterFits(proc, x)
    BY <2>2 DEF WriterFits
  <2> HIDE DEF x
  <2>6. Pending(proc, frames', x) /\ x.pc # "data" /\ x.frame <= Len(frames')
    BY <1>3, <2>4 DEF Pending
  <2>7. WritersInv'
    BY <1>1, <1>2, <1>3, <2>1, <2>4, <2>5, <2>6, WriterGoesOn
  <2> QED BY <1>1, <1>2, <2>7, KeepsItself DEF WritingInv, FramesInv
<1>5. CASE SendTooBig(w, m)
  <2> DEFINE t == IF Tracked(m) THEN Settled(Fresh(m.size), 0, FALSE) ELSE Idle.transfer
  <2>1. writer' = [writer EXCEPT ![w] = [Idle EXCEPT !.transfer = t]]
    BY <1>5 DEF SendTooBig
  <2>2. t \in Record
    <3>1. Fresh(m.size) \in Record /\ Idle.transfer \in Record
      BY <1>2 DEF Idle, Fresh, Record, Statuses
    <3>2. Settled(Fresh(m.size), 0, FALSE) \in Record
      BY <3>1, SettledType
    <3> QED BY <3>1, <3>2
  <2> HIDE DEF t
  <2>3. WritersInv'
    BY <1>1, <1>2, <1>3, <2>1, <2>2, WriterLeaves
  <2> QED BY <1>1, <1>2, <2>3, KeepsItself DEF WritingInv, FramesInv
<1> QED BY <1>4, <1>5

(* The header is written.                                                  *)
LEMMA HeaderWriting ==
  ASSUME WritingInv, NEW w \in Writers, WriteHeader(w)
  PROVE  WritingInv' /\ Keeps(stream, stream')
<1> DEFINE h == HeaderOf(w)  n == Len(HeaderOf(w))  g == Frame(w, Len(HeaderOf(w)))
<1>1. /\ writer[w].pc = "header" /\ Wrote(n, h, NoData) /\ frames' = Append(frames, g)
      /\ proc' = proc /\ open' = open
  BY DEF WriteHeader
<1>2. \/ /\ writer[w].body.size > 0
         /\ writer' = [writer EXCEPT ![w].pc = "data", ![w].frame = Len(frames) + 1]
      \/ SendReturns(w, TRUE)
  BY DEF WriteHeader
<1>3. /\ writer[w].message \in Messages /\ writer[w].body = BodyOf(proc, writer[w].message)
      /\ writer[w].body \in Payloads /\ writer[w].body.size \in Nat
      /\ h = HeaderFor(proc, writer[w].message) /\ h \in Seq(Nat) /\ n \in {4, 12}
      /\ Written = Top(stream) /\ Top(stream) \in Nat
  BY <1>1, UnderWay
<1>4. g = Frame(w, n) /\ n = Len(h)
  OBVIOUS
<1> HIDE DEF h, n, g
<1>5. n \in Nat /\ n > 0
  <2>1. n \in {4, 12}
    BY <1>3
  <2> QED BY <2>1
<1>6. n = Len(h) /\ n \in Nat /\ n > 0
  BY <1>4, <1>5
<1>7. /\ g \in FrameType
      /\ g.message = writer[w].message /\ g.body = writer[w].body
      /\ g.at = Top(stream) /\ g.hlen = n
      /\ g.dataAt = IF writer[w].body.size = 0 THEN Top(stream) + n ELSE -1
  BY <1>3, <1>6, <1>4, FrameOf
<1>8. Tiling(stream) /\ WritersInv /\ FramesInv /\ frames \in Seq(FrameType)
  BY DEF WritingInv, FramesInv
<1>9. /\ Tiling(stream') /\ Keeps(stream, stream') /\ Top(stream') = Top(stream) + n
      /\ \E k \in 1..Len(stream') : stream'[k] = Piece(Top(stream), n, h, NoData)
  <2>1. Filled(Piece(Top(stream), n, h, NoData))
    BY <1>6 DEF Filled, Piece
  <2> QED BY <1>1, <1>3, <1>6, <1>8, <2>1, WroteStream
<1>10. Placed(proc, stream', g)
  <2>1. g.at + g.hlen <= Top(stream')
    BY <1>3, <1>6, <1>9, <1>7
  <2>2. n = Len(HeaderFor(proc, g.message)) /\ h = HeaderFor(proc, g.message)
    BY <1>3, <1>6, <1>7
  <2>3. g.body.size > 0 => g.dataAt = -1
    BY <1>3, <1>7
  <2> QED BY <1>3, <1>9, <1>7, <2>1, <2>2, <2>3 DEF Placed
<1>11. FramesInv'
  BY <1>1, <1>8, <1>9, <1>10, <1>7, FramesStay
<1>12. /\ Len(frames) \in Nat /\ Len(frames') = Len(frames) + 1 /\ frames'[Len(frames) + 1] = g
       /\ \A v \in Writers : writer[v].pc = "data" =>
            frames'[writer[v].frame] = frames[writer[v].frame]
  <2>1. Len(frames) \in Nat /\ Len(frames') = Len(frames) + 1 /\ frames'[Len(frames) + 1] = g
    BY <1>1, <1>8
  <2> QED BY <1>1, <1>8, <2>1, OthersFrames
<1>13. Len(frames') \in Nat /\ Len(frames) <= Len(frames')
  BY <1>12
<1>14. WritersInv'
  <2>1. CASE SendReturns(w, TRUE)
    <3>1. PICK t \in Record : writer' = [writer EXCEPT ![w] = [Idle EXCEPT !.transfer = t]]
      BY <1>1, <1>8, <2>1, ReturnsIdle
    <3> QED BY <1>1, <1>8, <1>12, <1>13, <3>1, WriterLeaves
  <2>2. CASE /\ writer[w].body.size > 0
             /\ writer' = [writer EXCEPT ![w].pc = "data", ![w].frame = Len(frames) + 1]
    <3> DEFINE x == [writer[w] EXCEPT !.pc = "data", !.frame = Len(frames) + 1]
    <3>1. writer[w] \in WriterType
      BY <1>8 DEF WritersInv
    <3>2. /\ x \in WriterType /\ x.pc = "data" /\ x.frame = Len(frames) + 1
          /\ x.message = writer[w].message /\ x.body = writer[w].body /\ x.flags = writer[w].flags
      BY <1>12, <3>1, DataLeft
    <3>3. writer' = [writer EXCEPT ![w] = x]
      BY <1>8, <2>2 DEF WritersInv
    <3> HIDE DEF x
    <3>4. WriterFits(proc, x)
      <4>1. WriterFits(proc, writer[w])
        BY <1>8 DEF WritersInv
      <4> QED BY <1>1, <3>2, <4>1 DEF WriterFits
    <3>5. Pending(proc, frames', x)
      <4>1. x.frame \in 1..Len(frames') /\ frames'[x.frame] = g
        BY <1>12, <3>2
      <4>2. g.dataAt = -1 /\ g.message = x.message /\ x.body.size > 0
        BY <1>3, <1>7, <2>2, <3>2
      <4>3. g.hlen = Len(HeaderFor(proc, x.message))
        BY <1>3, <1>6, <1>7, <3>2
      <4> QED BY <4>1, <4>2, <4>3 DEF Pending
    <3>6. \A v \in Writers : writer[v].pc = "data" => writer[v].frame # x.frame
      <4>1. \A v \in Writers : writer[v].frame <= Len(frames)
        BY <1>8 DEF WritersInv
      <4> QED BY <1>12, <3>2, <4>1
    <3>7. x.frame <= Len(frames')
      BY <1>12, <3>2
    <3> QED BY <1>1, <1>8, <1>12, <1>13, <3>2, <3>3, <3>4, <3>5, <3>6, <3>7, WriterGoesOn
  <2> QED BY <1>2, <2>1, <2>2
<1> QED BY <1>1, <1>9, <1>11, <1>14 DEF WritingInv

(* The data is written: that of the frame the writer is in.                *)
LEMMA DataWriting ==
  ASSUME WritingInv, NEW w \in Writers, WriteData(w)
  PROVE  WritingInv' /\ Keeps(stream, stream')
<1> DEFINE b == writer[w].body  f == writer[w].frame  g == [frames[f] EXCEPT !.dataAt = Written]
<1>1. /\ writer[w].pc = "data" /\ Wrote(b.size, <<>>, b)
      /\ frames' = [frames EXCEPT ![f].dataAt = Written]
      /\ SendReturns(w, TRUE) /\ proc' = proc /\ open' = open
  BY DEF WriteData
<1>2. /\ writer[w].message \in Messages /\ b = BodyOf(proc, writer[w].message)
      /\ b \in Payloads /\ b.size \in Nat
      /\ Written = Top(stream) /\ Top(stream) \in Nat
  BY <1>1, UnderWay
<1>3. Tiling(stream) /\ WritersInv /\ FramesInv /\ frames \in Seq(FrameType)
  BY DEF WritingInv, FramesInv
<1>4. /\ f \in 1..Len(frames) /\ frames[f].dataAt = -1 /\ b.size > 0
      /\ frames[f].message = writer[w].message
      /\ frames[f].hlen = Len(HeaderFor(proc, writer[w].message))
  BY <1>1, <1>3 DEF WritersInv, Pending
<1>5. frames[f] \in FrameType /\ Placed(proc, stream, frames[f])
  BY <1>3, <1>4 DEF FramesInv
<1>6. /\ g \in FrameType /\ g.dataAt = Top(stream) /\ g.at = frames[f].at
      /\ g.hlen = frames[f].hlen /\ g.body = frames[f].body /\ g.message = frames[f].message
  BY <1>2, <1>5 DEF FrameType
<1>7. /\ Len(frames) \in Nat /\ Len(frames') = Len(frames) /\ frames' \in Seq(FrameType)
      /\ \A i \in 1..Len(frames) : frames'[i] = IF i = f THEN g ELSE frames[i]
  <2>1. frames' = [frames EXCEPT ![f] = g]
    BY <1>1, <1>3, <1>4
  <2>2. frames \in Seq(FrameType) /\ f \in 1..Len(frames) /\ g \in FrameType
    BY <1>3, <1>4, <1>6
  <2> HIDE DEF f, g
  <2> QED BY <2>1, <2>2
<1> HIDE DEF b, f, g
<1>8. /\ Tiling(stream') /\ Keeps(stream, stream') /\ Top(stream') = Top(stream) + b.size
      /\ \E k \in 1..Len(stream') : stream'[k] = Piece(Top(stream), b.size, <<>>, b)
  <2>1. Filled(Piece(Top(stream), b.size, <<>>, b))
    BY <1>2 DEF Filled, Piece
  <2>2. <<>> \in Seq(Nat)
    OBVIOUS
  <2> QED BY <1>1, <1>2, <1>3, <1>4, <2>1, <2>2, WroteStream
<1>9. Placed(proc, stream', g)
  <2>1. Placed(proc, stream', frames[f])
    BY <1>3, <1>5, <1>8, StaysPlaced
  <2>2. g.body = b
    BY <1>2, <1>4, <1>5, <1>6 DEF Placed
  <2> QED BY <1>4, <1>6, <1>8, <2>1, <2>2 DEF Placed
<1>10. FramesInv'
  <2>1. \A i \in 1..Len(frames) : Placed(proc, stream', frames'[i])
    <3> TAKE i \in 1..Len(frames)
    <3>1. frames[i] \in FrameType /\ Placed(proc, stream, frames[i])
      BY <1>3 DEF FramesInv
    <3>2. Placed(proc, stream', frames[i])
      BY <1>3, <1>8, <3>1, StaysPlaced
    <3> QED BY <1>7, <1>9, <3>2
  <2> QED BY <1>1, <1>7, <2>1 DEF FramesInv
<1>11. WritersInv'
  <2>1. PICK t \in Record : writer' = [writer EXCEPT ![w] = [Idle EXCEPT !.transfer = t]]
    BY <1>1, <1>3, ReturnsIdle
  <2>2. \A v \in Writers : v # w /\ writer[v].pc = "data" =>
          frames'[writer[v].frame] = frames[writer[v].frame]
    <3> TAKE v \in Writers
    <3> HAVE v # w /\ writer[v].pc = "data"
    <3>1. writer[v].frame \in 1..Len(frames)
      BY <1>3 DEF WritersInv, Pending
    <3>2. writer[v].frame # f
      BY <1>1, <1>3 DEF WritersInv, Alone, f
    <3> QED BY <1>7, <3>1, <3>2
  <2>3. Len(frames') \in Nat /\ Len(frames) <= Len(frames')
    BY <1>7
  <2> QED BY <1>1, <1>3, <1>7, <2>1, <2>2, <2>3, WriterLeaves
<1> QED BY <1>1, <1>8, <1>10, <1>11 DEF WritingInv

(* A Write fails, with a part of the header or of the data in the stream.  *)
LEMMA FailedWriting ==
  ASSUME WritingInv, NEW w \in Writers, WriteFails(w)
  PROVE  WritingInv' /\ Keeps(stream, stream')
<1> DEFINE b == writer[w].body  h == HeaderOf(w)  n == Len(HeaderOf(w)) \div 2
           g == [Frame(w, Len(HeaderOf(w)) \div 2) EXCEPT !.dataAt = -1]
           half == SubSeq(HeaderOf(w), 1, Len(HeaderOf(w)) \div 2)
<1>1. /\ writer[w].pc # "idle" /\ SendReturns(w, FALSE) /\ proc' = proc /\ open' = open
      /\ \/ UNCHANGED <<stream, frames>>
         \/ Wrote(n, half, NoData) /\ frames' = Append(frames, g)
         \/ Wrote(b.size \div 2, <<>>, b) /\ frames' = frames
  BY DEF WriteFails
<1>2. /\ writer[w].message \in Messages /\ b = BodyOf(proc, writer[w].message)
      /\ b \in Payloads /\ b.size \in Nat
      /\ h = HeaderFor(proc, writer[w].message) /\ h \in Seq(Nat) /\ Len(h) \in {4, 12}
      /\ Written = Top(stream) /\ Top(stream) \in Nat
  BY <1>1, UnderWay
<1>3. Tiling(stream) /\ WritersInv /\ FramesInv /\ frames \in Seq(FrameType)
  BY DEF WritingInv, FramesInv
<1>4. n \in Nat /\ n > 0 /\ n # Len(h) /\ half \in Seq(Nat) /\ Len(half) = n
  <2>1. n = Len(h) \div 2 /\ half = SubSeq(h, 1, n)
    OBVIOUS
  <2> HIDE DEF h, n, half
  <2>2. PICK m \in {4, 12} : m = Len(h)
    BY <1>2
  <2>3. m \div 2 \in Nat /\ m \div 2 > 0 /\ m \div 2 < m
    BY <2>2
  <2>4. n \in Nat /\ n > 0 /\ n # Len(h) /\ n <= Len(h)
    BY <2>1, <2>2, <2>3
  <2>5. half \in Seq(Nat) /\ Len(half) = n
    BY <1>2, <2>1, <2>4
  <2> QED BY <2>4, <2>5
<1>5. g \in FrameType /\ g.message = writer[w].message /\ g.body = b /\ g.at = Top(stream)
      /\ g.hlen = n /\ g.dataAt = -1
  <2>1. n \in Nat
    BY <1>4
  <2> DEFINE d == Frame(w, n)
  <2>2. /\ [d EXCEPT !.dataAt = -1] \in FrameType
        /\ d.message = writer[w].message /\ d.body = writer[w].body
        /\ d.at = Written /\ d.hlen = n
    BY <1>2, <2>1, FrameOf
  <2>3. d \in FrameType
    BY <1>2, <2>1, FrameOf
  <2>4. g = [d EXCEPT !.dataAt = -1]
    OBVIOUS
  <2> HIDE DEF d, g, n, h, half
  <2> QED BY <1>2, <2>2, <2>3, <2>4 DEF FrameType
<1> HIDE DEF b, h, n, g, half
<1>6. /\ Tiling(stream') /\ Keeps(stream, stream')
      /\ frames' = frames \/ (frames' = Append(frames, g) /\ Placed(proc, stream', g))
  <2>1. CASE UNCHANGED <<stream, frames>>
    BY <1>3, <2>1, KeepsItself
  <2>2. CASE Wrote(n, half, NoData) /\ frames' = Append(frames, g)
    <3>1. Filled(Piece(Top(stream), n, half, NoData))
      BY <1>4 DEF Filled, Piece
    <3>2. Tiling(stream') /\ Keeps(stream, stream') /\ Top(stream') = Top(stream) + n
      BY <1>2, <1>3, <1>4, <2>2, <3>1, WroteStream
    <3>3. g.at + g.hlen <= Top(stream')
      BY <1>2, <1>4, <1>5, <3>2
    <3>4. g.hlen # Len(HeaderFor(proc, g.message))
      BY <1>2, <1>4, <1>5
    <3>5. Placed(proc, stream', g)
      BY <1>2, <1>5, <3>3, <3>4 DEF Placed
    <3> QED BY <2>2, <3>2, <3>5
  <2>3. CASE Wrote(b.size \div 2, <<>>, b) /\ frames' = frames
    <3>1. b.size \div 2 \in Nat /\ b.size \div 2 <= b.size /\ <<>> \in Seq(Nat)
      BY <1>2
    <3>2. Filled(Piece(Top(stream), b.size \div 2, <<>>, b))
      BY <1>2, <3>1 DEF Filled, Piece
    <3>3. Tiling(stream') /\ Keeps(stream, stream')
      BY <1>2, <1>3, <2>3, <3>1, <3>2, WroteStream
    <3> QED BY <2>3, <3>3
  <2> QED BY <1>1, <2>1, <2>2, <2>3
<1>7. FramesInv'
  BY <1>1, <1>3, <1>5, <1>6, FramesStay
<1>8. WritersInv'
  <2>1. PICK t \in Record : writer' = [writer EXCEPT ![w] = [Idle EXCEPT !.transfer = t]]
    BY <1>1, <1>3, ReturnsIdle
  <2>2. /\ Len(frames) \in Nat /\ Len(frames') \in Nat /\ Len(frames) <= Len(frames')
        /\ \A v \in Writers : writer[v].pc = "data" =>
             frames'[writer[v].frame] = frames[writer[v].frame]
    BY <1>3, <1>6, OthersFrames
  <2> QED BY <1>1, <1>3, <2>1, <2>2, WriterLeaves
<1> QED BY <1>1, <1>6, <1>7, <1>8 DEF WritingInv

-----------------------------------------------------------------------------
(* The receiving end: what each call made of the bytes it read.            *)

ReaderType == [pc : ReaderSteps, deadline : BOOLEAN, start : Nat, head : Seq(Nat)]
ResultType == [start : Nat, result : ReadResults, at : Nat, size : Nat,
               message : Payloads \cup {NoData}]

HeadThere(s, start) ==
  start + (IF IsCompact(BytesOf(s, start, CompactHeaderSize)) THEN 4 ELSE 12) <= Top(s)

(* Outcomes and messages of the model, of a header.                        *)
OutcomesOf(head, payloads) ==
  LET header == DecodeHeader(head) IN
  IF payloads # {} THEN {Verifies(Crc[m], header, Len(head) = CompactHeaderSize) : m \in payloads}
  ELSE IF header.checksum = 0 THEN {TRUE} ELSE BOOLEAN
MessagesOf(p, head, payloads) ==
  IF p.recv.advanced /\ HasFlag(DecodeHeader(head).flags, FlagCompressed)
    THEN Decompressed(payloads) ELSE payloads

(* The data that follows a header decided on the result of a call.         *)
DataFits(p, s, head, e) ==
  LET payloads == PayloadsOf(s, e.at, e.size) IN
  /\ e.at + e.size <= Top(s)
  /\ e.size = 0 => e.result = "ok"
  /\ e.size > 0 =>
       /\ e.result = "checksum" => FALSE \in OutcomesOf(head, payloads)
       /\ e.result = "gzip" => MessagesOf(p, head, payloads) = {}
       /\ e.result = "ok" => e.message = The(MessagesOf(p, head, payloads))

(* A call that was not cut off read a header, and its data unless that was *)
(* too big.                                                                *)
Fits(p, s, e) ==
  e.result \notin {"timeout", "eof"} =>
    LET head == HeadOf(s, e.start)
        size == DecodeHeader(head).size
    IN
    /\ HeadThere(s, e.start) /\ e.at = e.start + Len(head)
    /\ e.result = "tooBig" => TooBig(size, p.recv.maxFrameSize)
    /\ e.result # "tooBig" => e.size = size /\ DataFits(p, s, head, e)

(* Where the reader is: between two calls, or in one that began where the  *)
(* last one ended.                                                         *)
LastEnd(rs) == IF rs = <<>> THEN 0 ELSE rs[Len(rs)].at + rs[Len(rs)].size
AtPlace(s, r, place, at) ==
  /\ r.pc = "idle" => at = place
  /\ r.pc # "idle" => r.start = place
  /\ r.pc = "head" => at = place
  /\ r.pc = "rest" => /\ r.head = BytesOf(s, place, CompactHeaderSize) /\ ~IsCompact(r.head)
                      /\ at = place + 4
  /\ r.pc = "data" => /\ HeadThere(s, place) /\ r.head = HeadOf(s, place)
                      /\ at = place + Len(r.head) /\ DecodeHeader(r.head).size > 0

ReadingInv ==
  /\ reader \in ReaderType /\ results \in Seq(ResultType) /\ pos \in Nat /\ pos <= Top(stream)
  /\ AtPlace(stream, reader, LastEnd(results), pos)
  /\ \A i \in 1..Len(results) :
       /\ Fits(proc, stream, results[i])
       /\ results[i].start = IF i = 1 THEN 0 ELSE results[i - 1].at + results[i - 1].size

(* A header that is there is a sequence of 4 or 12 numbers.                *)
LEMMA HeadIsThere ==
  ASSUME NEW s, Tiling(s), NEW start \in Nat, HeadThere(s, start)
  PROVE  /\ HeadOf(s, start) \in Seq(Nat) /\ Len(HeadOf(s, start)) \in {4, 12}
         /\ start + 4 <= Top(s) /\ start + Len(HeadOf(s, start)) <= Top(s)
         /\ Len(HeadOf(s, start)) = IF IsCompact(BytesOf(s, start, 4)) THEN 4 ELSE 12
         /\ DecodeHeader(HeadOf(s, start)).size \in Nat
<1> DEFINE h == BytesOf(s, start, 4)  d == HeadOf(s, start)
<1>1. Top(s) \in Nat
  BY Places DEF Tiling
<1>2. start + (IF IsCompact(h) THEN 4 ELSE 12) <= Top(s)
  BY DEF HeadThere, CompactHeaderSize
<1>3. start + 4 <= Top(s) /\ (~IsCompact(h) => start + 12 <= Top(s))
  BY <1>1, <1>2
<1>4. h \in Seq(Nat) /\ Len(h) = 4
  BY <1>3, BytesRead
<1>5. /\ IsCompact(h) => d = h
      /\ ~IsCompact(h) => d \in Seq(Nat) /\ Len(d) = 12
  <2>1. IsCompact(h) => d = h
    BY <1>3, HeadRead
  <2>2. ~IsCompact(h) => d \in Seq(Nat) /\ Len(d) = 12
    BY <1>3, HeadRead
  <2> QED BY <2>1, <2>2
<1> HIDE DEF h, d
<1>6. d \in Seq(Nat) /\ Len(d) = (IF IsCompact(h) THEN 4 ELSE 12)
  BY <1>4, <1>5
<1>7. Len(d) \in {4, 12}
  BY <1>6
<1>8. start + Len(d) <= Top(s)
  BY <1>2, <1>6
<1>9. DecodeHeader(d).size \in Nat
  BY <1>6, <1>7, DecodedSize DEF CompactHeaderSize, DefaultHeaderSize
<1> QED BY <1>3, <1>6, <1>7, <1>8, <1>9 DEF h, d

(* It stays there.                                                         *)
LEMMA HeadStays ==
  ASSUME NEW s, NEW t, Tiling(s), Tiling(t), Keeps(s, t), NEW start \in Nat, HeadThere(s, start)
  PROVE  HeadThere(t, start) /\ HeadOf(t, start) = HeadOf(s, start)
<1>1. Top(s) \in Nat /\ Top(t) \in Nat /\ Top(s) <= Top(t)
  BY Places DEF Tiling, Keeps
<1>2. start + 4 <= Top(s)
  BY HeadIsThere
<1>3. BytesOf(t, start, 4) = BytesOf(s, start, 4)
  <2>1. start \in Nat /\ 4 \in Nat
    OBVIOUS
  <2> QED BY <1>2, <2>1 DEF Keeps
<1>4. ~IsCompact(BytesOf(s, start, 4)) => BytesOf(t, start + 4, 8) = BytesOf(s, start + 4, 8)
  <2> HAVE ~IsCompact(BytesOf(s, start, 4))
  <2>1. start + 12 <= Top(s)
    BY DEF HeadThere, CompactHeaderSize
  <2>2. start + 4 \in Nat /\ 8 \in Nat /\ (start + 4) + 8 <= Top(s)
    BY <1>1, <2>1
  <2> QED BY <2>2 DEF Keeps
<1>5. HeadOf(t, start) = HeadOf(s, start)
  BY <1>3, <1>4 DEF HeadOf, CompactHeaderSize, DefaultHeaderSize
<1>6. HeadThere(t, start)
  BY <1>1, <1>3 DEF HeadThere, CompactHeaderSize
<1> QED BY <1>5, <1>6

(* What was read still decides on the result.                              *)
LEMMA StaysFit ==
  ASSUME NEW p, NEW s, NEW t, Tiling(s), Tiling(t), Keeps(s, t), NEW e \in ResultType, Fits(p, s, e)
  PROVE  Fits(p, t, e)
<1> SUFFICES ASSUME e.result \notin {"timeout", "eof"} PROVE Fits(p, t, e)
  BY DEF Fits
<1> DEFINE head == HeadOf(s, e.start)
<1>1. e.start \in Nat /\ e.at \in Nat /\ e.size \in Nat
  BY DEF ResultType
<1>2. HeadThere(s, e.start)
  BY DEF Fits
<1>3. HeadThere(t, e.start) /\ HeadOf(t, e.start) = head
  BY <1>1, <1>2, HeadStays
<1>4. e.result # "tooBig" => DataFits(p, t, head, e)
  <2> HAVE e.result # "tooBig"
  <2>1. DataFits(p, s, head, e)
    BY DEF Fits
  <2>2. Top(s) \in Nat /\ Top(t) \in Nat /\ Top(s) <= Top(t)
    BY Places DEF Tiling, Keeps
  <2>3. e.at + e.size <= Top(s)
    BY <2>1 DEF DataFits
  <2>4. e.at + e.size <= Top(t)
    BY <1>1, <2>2, <2>3
  <2>5. e.size > 0 => PayloadsOf(t, e.at, e.size) = PayloadsOf(s, e.at, e.size)
    BY <1>1, <2>3 DEF Keeps
  <2> HIDE DEF head
  <2> QED BY <2>1, <2>4, <2>5 DEF DataFits
<1> QED BY <1>3, <1>4 DEF Fits

(* A Write does not change what was read, or where the reader is.          *)
LEMMA ReadingStays ==
  ASSUME ReadingInv, Tiling(stream), Tiling(stream'), Keeps(stream, stream'),
         UNCHANGED <<proc, recvVars>>
  PROVE  ReadingInv'
<1>1. /\ reader \in ReaderType /\ results \in Seq(ResultType) /\ pos \in Nat /\ pos <= Top(stream)
      /\ AtPlace(stream, reader, LastEnd(results), pos)
  BY DEF ReadingInv
<1>2. UNCHANGED <<proc, pos, reader, results>>
  BY DEF recvVars
<1>3. pos <= Top(stream')
  <2>1. Top(stream) \in Nat /\ Top(stream') \in Nat /\ Top(stream) <= Top(stream')
    BY Places DEF Tiling, Keeps
  <2> QED BY <1>1, <2>1
<1>4. AtPlace(stream', reader, LastEnd(results), pos)
  <2> DEFINE place == LastEnd(results)
  <2>1. CASE reader.pc = "rest"
    <3>1. place = reader.start /\ pos = place + 4
      BY <1>1, <2>1 DEF AtPlace
    <3>2. place \in Nat /\ 4 \in Nat /\ place + 4 <= Top(stream)
      BY <1>1, <3>1 DEF ReaderType
    <3> HIDE DEF place
    <3>3. BytesOf(stream', place, 4) = BytesOf(stream, place, 4)
      BY <3>2 DEF Keeps
    <3> QED BY <1>1, <2>1, <3>3 DEF AtPlace, CompactHeaderSize, place
  <2>2. CASE reader.pc = "data"
    <3>1. place = reader.start /\ HeadThere(stream, place)
      BY <1>1, <2>2 DEF AtPlace
    <3>2. place \in Nat
      BY <1>1, <3>1 DEF ReaderType
    <3> HIDE DEF place
    <3>3. HeadThere(stream', place) /\ HeadOf(stream', place) = HeadOf(stream, place)
      BY <3>1, <3>2, HeadStays
    <3> QED BY <1>1, <2>2, <3>3 DEF AtPlace, place
  <2>3. CASE reader.pc \notin {"rest", "data"}
    BY <1>1, <2>3 DEF AtPlace
  <2> QED BY <2>1, <2>2, <2>3
<1>5. \A i \in 1..Len(results) : Fits(proc, stream', results[i])
  <2> TAKE i \in 1..Len(results)
  <2>1. results[i] \in ResultType /\ Fits(proc, stream, results[i])
    BY <1>1 DEF ReadingInv
  <2> QED BY <2>1, StaysFit
<1> QED BY <1>1, <1>2, <1>3, <1>4, <1>5 DEF ReadingInv

(* A call returns what fits the bytes it read.                             *)
LEMMA ReadEnds ==
  ASSUME ReadingInv, UNCHANGED <<proc, stream>>, reader.pc # "idle",
         NEW r \in ReadResults, NEW at \in Nat, NEW size \in Nat, NEW m \in Payloads \cup {NoData},
         ReadReturns(r, at, size, m), NEW e,
         e = [start |-> reader.start, result |-> r, at |-> at, size |-> size, message |-> m],
         Fits(proc, stream, e), pos' = at + size, at + size <= Top(stream)
  PROVE  ReadingInv'
<1>1. /\ reader \in ReaderType /\ results \in Seq(ResultType) /\ Len(results) \in Nat
      /\ reader.start = LastEnd(results)
  BY DEF ReadingInv, AtPlace
<1>2. e \in ResultType /\ e.start = reader.start /\ e.at = at /\ e.size = size
  <2>1. reader.start \in Nat
    BY <1>1 DEF ReaderType
  <2> QED BY <2>1 DEF ResultType
<1>3. results' = Append(results, e) /\ reader' = NotReading
  BY DEF ReadReturns
<1>4. /\ results' \in Seq(ResultType) /\ Len(results') = Len(results) + 1 /\ results' # <<>>
      /\ results'[Len(results')] = e /\ \A i \in 1..Len(results) : results'[i] = results[i]
  BY <1>1, <1>2, <1>3
<1>5. LastEnd(results') = at + size
  BY <1>2, <1>4 DEF LastEnd
<1>6. NotReading \in ReaderType /\ NotReading.pc = "idle"
  BY DEF NotReading, ReaderType, ReaderSteps
<1>7. AtPlace(stream, NotReading, LastEnd(results'), pos')
  BY <1>5, <1>6 DEF AtPlace
<1>8. \A i \in 1..Len(results') : i \in 1..Len(results) \/ i = Len(results')
  BY <1>1, <1>4
<1>9. \A i \in 1..Len(results') : Fits(proc, stream, results'[i])
  BY <1>4, <1>8 DEF ReadingInv
<1>10. \A i \in 1..Len(results') :
         results'[i].start = IF i = 1 THEN 0 ELSE results'[i - 1].at + results'[i - 1].size
  <2> TAKE i \in 1..Len(results')
  <2>1. CASE i \in 1..Len(results)
    <3>1. results[i].start = IF i = 1 THEN 0 ELSE results[i - 1].at + results[i - 1].size
      BY <2>1 DEF ReadingInv
    <3>2. i # 1 => i - 1 \in 1..Len(results)
      BY <1>1, <2>1
    <3> QED BY <1>4, <2>1, <3>1, <3>2
  <2>2. CASE i = Len(results')
    <3>1. results'[i].start = LastEnd(results)
      BY <1>1, <1>2, <1>4, <2>2
    <3>2. CASE results = <<>>
      BY <1>4, <2>2, <3>1, <3>2 DEF LastEnd
    <3>3. CASE results # <<>>
      <4>1. Len(results) \in 1..Len(results) /\ i - 1 = Len(results) /\ i # 1
        BY <1>1, <1>4, <2>2, <3>3
      <4>2. results'[i - 1] = results[Len(results)]
        BY <1>4, <4>1
      <4> QED BY <3>1, <3>3, <4>1, <4>2 DEF LastEnd
    <3> QED BY <3>2, <3>3
  <2> QED BY <1>8, <2>1, <2>2
<1>11. pos' \in Nat /\ pos' <= Top(stream)
  OBVIOUS
<1> QED BY <1>3, <1>4, <1>6, <1>7, <1>9, <1>10, <1>11 DEF ReadingInv

(* A call that is cut off fits whatever it read.                           *)
LEMMA CutEnds ==
  ASSUME ReadingInv, Tiling(stream), UNCHANGED <<proc, stream>>, reader.pc # "idle",
         NEW error, NEW lost, ReadFullFails(error, lost), ReadReturns(error, pos', 0, NoData)
  PROVE  ReadingInv'
<1>1. /\ reader \in ReaderType /\ pos \in Nat /\ pos <= Top(stream) /\ Top(stream) \in Nat
      /\ Written = Top(stream) /\ AtPlace(stream, reader, LastEnd(results), pos)
  BY Places, HeaderNames DEF ReadingInv, Tiling
<1>2. Wanted \in Nat /\ Wanted > 0
  <2>1. CASE reader.pc = "data"
    <3>1. reader.start \in Nat /\ HeadThere(stream, reader.start)
          /\ reader.head = HeadOf(stream, reader.start) /\ DecodeHeader(reader.head).size > 0
      BY <1>1, <2>1 DEF AtPlace, ReaderType
    <3>2. DecodeHeader(reader.head).size \in Nat
      BY <3>1, HeadIsThere
    <3> QED BY <2>1, <3>1, <3>2 DEF Wanted
  <2>2. CASE reader.pc # "data"
    BY <2>2 DEF Wanted, DefaultHeaderSize, CompactHeaderSize
  <2> QED BY <2>1, <2>2
<1>3. /\ error \in {"eof", "timeout"} /\ pos' = pos + lost
      /\ lost \in {0, Available, Wanted - 1}
      /\ lost = Available \/ lost = 0 \/ (lost = Wanted - 1 /\ ~(Available < Wanted))
  BY DEF ReadFullFails
<1>4. PICK available, wanted \in Int : available = Available /\ wanted = Wanted
  BY <1>1, <1>2 DEF Available
<1>5. available = Top(stream) - pos
  BY <1>1, <1>4 DEF Available
<1>6. wanted > 0 /\ (lost = available \/ lost = 0 \/ (lost = wanted - 1 /\ ~(available < wanted)))
  BY <1>2, <1>3, <1>4
<1>7. lost \in Nat /\ lost <= available
  BY <1>1, <1>5, <1>6
<1>8. pos' \in Nat /\ pos' <= Top(stream)
  BY <1>1, <1>3, <1>5, <1>7
<1> DEFINE e == [start |-> reader.start, result |-> error, at |-> pos', size |-> 0,
                 message |-> NoData]
<1>9. Fits(proc, stream, e)
  BY <1>3 DEF Fits
<1>10. error \in ReadResults /\ pos' = pos' + 0 /\ pos' + 0 <= Top(stream) /\ 0 \in Nat
  BY <1>3, <1>8 DEF ReadResults
<1>11. PICK at \in Nat : at = pos'
  BY <1>8
<1> HIDE DEF e
<1>12. /\ ReadReturns(error, at, 0, NoData) /\ pos' = at + 0 /\ at + 0 <= Top(stream)
       /\ e = [start |-> reader.start, result |-> error, at |-> at, size |-> 0, message |-> NoData]
  BY <1>10, <1>11 DEF e
<1> QED BY <1>9, <1>10, <1>12, ReadEnds

(* A header is complete: an empty frame or one that is too big ends the    *)
(* call, otherwise the data is awaited.                                    *)
LEMMA HeadEnds ==
  ASSUME ReadingInv, Tiling(stream), UNCHANGED <<proc, stream>>, reader.pc # "idle", NEW head,
         HeadThere(stream, reader.start), head = HeadOf(stream, reader.start),
         pos' = reader.start + Len(head), HeaderRead(head)
  PROVE  ReadingInv'
<1>1. /\ reader \in ReaderType /\ reader.start \in Nat /\ reader.start = LastEnd(results)
      /\ results \in Seq(ResultType)
  BY DEF ReadingInv, AtPlace, ReaderType
<1>2. /\ head \in Seq(Nat) /\ Len(head) \in {4, 12} /\ reader.start + Len(head) <= Top(stream)
      /\ DecodeHeader(head).size \in Nat
  BY <1>1, HeadIsThere
<1>3. pos' \in Nat /\ pos' <= Top(stream)
  BY <1>1, <1>2
<1>4. \/ AwaitData(head) /\ DecodeHeader(head).size > 0
      \/ ReadReturns("tooBig", pos', 0, NoData) /\ TooBig(DecodeHeader(head).size, proc.recv.maxFrameSize)
      \/ ReadReturns("ok", pos', 0, NoData) /\ DecodeHeader(head).size = 0
  BY <1>2 DEF HeaderRead, AdvancedHeaderRead, DefaultHeaderRead
<1>5. CASE AwaitData(head) /\ DecodeHeader(head).size > 0
  <2> DEFINE r == [reader EXCEPT !.pc = "data", !.head = head]
  <2>1. reader' = r /\ results' = results
    BY <1>5 DEF AwaitData
  <2>2. r \in ReaderType /\ r.pc = "data" /\ r.head = head /\ r.start = reader.start
    BY <1>1, <1>2 DEF ReaderType, ReaderSteps
  <2> HIDE DEF r
  <2>3. AtPlace(stream, r, LastEnd(results), pos')
    BY <1>1, <1>5, <2>2 DEF AtPlace
  <2> QED BY <1>1, <1>3, <2>1, <2>2, <2>3 DEF ReadingInv
<1>6. PICK at \in Nat : at = pos'
  BY <1>3
<1>7. at + 0 = at /\ 0 \in Nat /\ NoData \in Payloads \cup {NoData}
  OBVIOUS
<1>8. CASE /\ ReadReturns("tooBig", pos', 0, NoData)
           /\ TooBig(DecodeHeader(head).size, proc.recv.maxFrameSize)
  <2> DEFINE e == [start |-> reader.start, result |-> "tooBig", at |-> at, size |-> 0,
                   message |-> NoData]
  <2>1. Fits(proc, stream, e)
    BY <1>6, <1>8 DEF Fits
  <2>2. "tooBig" \in ReadResults
    BY DEF ReadResults
  <2> HIDE DEF e
  <2>3. e = [start |-> reader.start, result |-> "tooBig", at |-> at, size |-> 0,
             message |-> NoData]
    BY DEF e
  <2>4. pos' = at + 0 /\ at + 0 <= Top(stream) /\ ReadReturns("tooBig", at, 0, NoData)
    BY <1>3, <1>6, <1>7, <1>8
  <2> QED BY <1>7, <2>1, <2>2, <2>3, <2>4, ReadEnds
<1>9. CASE ReadReturns("ok", pos', 0, NoData) /\ DecodeHeader(head).size = 0
  <2> DEFINE e == [start |-> reader.start, result |-> "ok", at |-> at, size |-> 0,
                   message |-> NoData]
  <2>1. e.start = reader.start /\ e.result = "ok" /\ e.at = at /\ e.size = 0
    OBVIOUS
  <2>2. "ok" \in ReadResults
    BY DEF ReadResults
  <2> HIDE DEF e
  <2>3. DataFits(proc, stream, head, e)
    BY <1>3, <1>6, <1>7, <2>1 DEF DataFits
  <2>4. Fits(proc, stream, e)
    BY <1>6, <1>9, <2>1, <2>3 DEF Fits
  <2>5. e = [start |-> reader.start, result |-> "ok", at |-> at, size |-> 0,
             message |-> NoData]
    BY DEF e
  <2>6. pos' = at + 0 /\ at + 0 <= Top(stream) /\ ReadReturns("ok", at, 0, NoData)
    BY <1>3, <1>6, <1>7, <1>9
  <2> QED BY <1>7, <2>2, <2>4, <2>5, <2>6, ReadEnds
<1> QED BY <1>4, <1>5, <1>8, <1>9

(* The operators of the model, of the stream.                              *)
LEMMA ReadingNames ==
  /\ \A from, n : BytesAt(from, n) = BytesOf(stream, from, n)
  /\ \A from, n : PayloadsAt(from, n) = PayloadsOf(stream, from, n)
  /\ \A payloads : Outcomes(DecodeHeader(reader.head), payloads)
                     = OutcomesOf(reader.head, payloads)
<1>1. \A i : ByteAt(i) = Byte(stream, i)
  BY DEF ByteAt, Byte, PieceByte
<1>2. \A from, n : BytesAt(from, n) = BytesOf(stream, from, n)
  BY <1>1 DEF BytesAt, BytesOf
<1>3. \A from, n : PayloadsAt(from, n) = PayloadsOf(stream, from, n)
  BY DEF PayloadsAt, PayloadsOf
<1>4. \A payloads : Outcomes(DecodeHeader(reader.head), payloads)
                      = OutcomesOf(reader.head, payloads)
  BY DEF Outcomes, OutcomesOf
<1> QED BY <1>2, <1>3, <1>4

(* The payloads and messages found are payloads.                           *)
LEMMA MessagesFound ==
  ASSUME NEW p, NEW s, Tiling(s), NEW from, NEW n, NEW head
  PROVE  /\ PayloadsOf(s, from, n) \subseteq Payloads
         /\ The(MessagesOf(p, head, PayloadsOf(s, from, n))) \in Payloads \cup {NoData}
<1>1. PayloadsOf(s, from, n) \subseteq Payloads
  <2>1. \A k \in 1..Len(s) : s[k].body # NoData => s[k].body \in Payloads
    BY DEF Tiling, Filled
  <2> QED BY <2>1 DEF PayloadsOf
<1>2. Decompressed(PayloadsOf(s, from, n)) \subseteq Payloads
  BY PayloadAssumption DEF Decompressed, Payloads
<1>3. MessagesOf(p, head, PayloadsOf(s, from, n)) \subseteq Payloads
  BY <1>1, <1>2 DEF MessagesOf
<1> QED BY <1>1, <1>3 DEF The

(* The data is complete and ends the call.                                 *)
LEMMA DataEnds ==
  ASSUME ReadingInv, Tiling(stream), UNCHANGED <<proc, stream>>, reader.pc = "data", Reads,
         NEW r \in {"ok", "checksum", "gzip"}, NEW m \in Payloads \cup {NoData},
         ReadReturns(r, pos, DecodeHeader(reader.head).size, m), NEW payloads,
         payloads = PayloadsOf(stream, pos, DecodeHeader(reader.head).size),
         r = "checksum" => FALSE \in OutcomesOf(reader.head, payloads),
         r = "gzip" => MessagesOf(proc, reader.head, payloads) = {},
         r = "ok" => m = The(MessagesOf(proc, reader.head, payloads))
  PROVE  ReadingInv'
<1> DEFINE start == reader.start  head == reader.head  size == DecodeHeader(reader.head).size
           e == [start |-> reader.start, result |-> r, at |-> pos,
                 size |-> DecodeHeader(reader.head).size, message |-> m]
<1>1. /\ start \in Nat /\ pos \in Nat /\ HeadThere(stream, start)
      /\ head = HeadOf(stream, start) /\ pos = start + Len(head) /\ size > 0
  BY DEF ReadingInv, AtPlace, ReaderType
<1>2. size \in Nat
  BY <1>1, HeadIsThere
<1>3. pos' = pos + size /\ pos + size <= Top(stream)
  BY HeaderNames DEF Reads, Wanted
<1>4. e.start = start /\ e.result = r /\ e.at = pos /\ e.size = size /\ e.message = m
  OBVIOUS
<1>5. r \in ReadResults /\ r # "tooBig"
  BY DEF ReadResults
<1>6. e = [start |-> reader.start, result |-> r, at |-> pos, size |-> size, message |-> m]
  OBVIOUS
<1>7. payloads = PayloadsOf(stream, pos, size) /\ ReadReturns(r, pos, size, m)
  OBVIOUS
<1> HIDE DEF e, size
<1>8. DataFits(proc, stream, head, e)
  <2>1. PayloadsOf(stream, e.at, e.size) = payloads
    BY <1>4, <1>7
  <2>2. e.at + e.size <= Top(stream) /\ e.size > 0 /\ e.size # 0
    BY <1>1, <1>2, <1>3, <1>4
  <2>3. /\ e.result = "checksum" => FALSE \in OutcomesOf(head, payloads)
        /\ e.result = "gzip" => MessagesOf(proc, head, payloads) = {}
        /\ e.result = "ok" => e.message = The(MessagesOf(proc, head, payloads))
    BY <1>4
  <2> HIDE DEF head
  <2> QED BY <2>1, <2>2, <2>3 DEF DataFits
<1>9. Fits(proc, stream, e)
  BY <1>1, <1>4, <1>5, <1>8 DEF Fits, size
<1> QED BY <1>1, <1>2, <1>3, <1>5, <1>6, <1>7, <1>9, ReadEnds

(* A call of the reader begins.                                            *)
LEMMA BeginsReading ==
  ASSUME ReadingInv, UNCHANGED <<proc, stream>>,
         (\E withFlags \in BOOLEAN : BeginRead(withFlags)) \/ BeginAdvancedRead
  PROVE  ReadingInv'
<1>1. PICK d \in BOOLEAN :
        reader' = [pc |-> "head", deadline |-> d, start |-> pos, head |-> <<>>]
  BY DEF BeginRead, BeginAdvancedRead
<1>2. UNCHANGED <<pos, results>> /\ reader.pc = "idle"
  BY DEF BeginRead, BeginAdvancedRead
<1>3. pos \in Nat /\ pos = LastEnd(results)
  BY <1>2 DEF ReadingInv, AtPlace
<1>4. reader' \in ReaderType /\ reader'.pc = "head" /\ reader'.start = pos
  BY <1>1, <1>3 DEF ReaderType, ReaderSteps
<1>5. AtPlace(stream, reader', LastEnd(results), pos)
  BY <1>3, <1>4 DEF AtPlace
<1> QED BY <1>2, <1>4, <1>5 DEF ReadingInv

(* The first four bytes of a header: the header, or a part of it.          *)
LEMMA HeadReading ==
  ASSUME ReadingInv, Tiling(stream), UNCHANGED <<proc, stream>>, ReadHead
  PROVE  ReadingInv'
<1> DEFINE h == BytesOf(stream, pos, 4)
<1>1. /\ reader.pc = "head" /\ reader \in ReaderType /\ results \in Seq(ResultType)
      /\ pos \in Nat /\ pos = LastEnd(results) /\ reader.start = pos
  BY DEF ReadHead, ReadingInv, AtPlace
<1>2. Wanted = 4 /\ Written = Top(stream)
  BY <1>1, HeaderNames DEF Wanted, CompactHeaderSize
<1>3. pos' = pos + 4 /\ pos + 4 <= Top(stream)
  BY <1>2 DEF ReadHead, Reads
<1>4. BytesAt(pos, CompactHeaderSize) = h
  BY ReadingNames DEF CompactHeaderSize
<1>5. h \in Seq(Nat) /\ Len(h) = 4
  BY <1>1, <1>3, BytesRead
<1>6. \/ IsCompact(h) /\ HeaderRead(h)
      \/ /\ ~IsCompact(h) /\ reader' = [reader EXCEPT !.pc = "rest", !.head = h]
         /\ results' = results
  BY <1>4 DEF ReadHead
<1>7. CASE IsCompact(h) /\ HeaderRead(h)
  <2>1. HeadThere(stream, pos)
    BY <1>3, <1>7 DEF HeadThere, CompactHeaderSize
  <2>2. h = HeadOf(stream, pos)
    BY <1>1, <1>3, <1>7, HeadRead
  <2> HIDE DEF h
  <2>3. pos' = reader.start + Len(h) /\ reader.pc # "idle"
    BY <1>1, <1>3, <1>5
  <2> QED BY <1>1, <1>7, <2>1, <2>2, <2>3, HeadEnds
<1>8. CASE /\ ~IsCompact(h) /\ reader' = [reader EXCEPT !.pc = "rest", !.head = h]
           /\ results' = results
  <2>1. h = BytesOf(stream, pos, CompactHeaderSize)
    BY DEF CompactHeaderSize
  <2> HIDE DEF h
  <2>2. reader' \in ReaderType /\ reader'.pc = "rest" /\ reader'.start = pos /\ reader'.head = h
    BY <1>1, <1>5, <1>8 DEF ReaderType, ReaderSteps
  <2>3. AtPlace(stream, reader', LastEnd(results), pos')
    BY <1>1, <1>3, <1>8, <2>1, <2>2 DEF AtPlace
  <2>4. pos' \in Nat /\ pos' <= Top(stream)
    BY <1>1, <1>3
  <2> QED BY <1>8, <2>2, <2>3, <2>4 DEF ReadingInv
<1> QED BY <1>6, <1>7, <1>8

(* The rest of a header of 12 bytes.                                       *)
LEMMA RestReading ==
  ASSUME ReadingInv, Tiling(stream), UNCHANGED <<proc, stream>>, ReadRest
  PROVE  ReadingInv'
<1> DEFINE start == reader.start  h == reader.head
<1>1. /\ reader.pc = "rest" /\ start \in Nat /\ start = LastEnd(results)
      /\ h = BytesOf(stream, start, 4) /\ ~IsCompact(h) /\ pos = start + 4
  BY DEF ReadRest, ReadingInv, AtPlace, ReaderType, CompactHeaderSize
<1>2. Wanted = 8 /\ Written = Top(stream)
  BY <1>1, HeaderNames DEF Wanted, CompactHeaderSize, DefaultHeaderSize
<1>3. pos' = start + 12 /\ start + 12 <= Top(stream)
  <2>1. pos' = pos + 8 /\ pos + 8 <= Top(stream)
    BY <1>2 DEF ReadRest, Reads
  <2>2. Top(stream) \in Nat
    BY Places DEF Tiling
  <2> HIDE DEF start
  <2> QED BY <1>1, <2>1, <2>2
<1>4. BytesAt(pos, DefaultHeaderSize - CompactHeaderSize) = BytesOf(stream, start + 4, 8)
  BY <1>1, ReadingNames DEF CompactHeaderSize, DefaultHeaderSize
<1>5. start + 4 <= Top(stream)
  <2>1. Top(stream) \in Nat
    BY Places DEF Tiling
  <2> QED BY <1>1, <1>3, <2>1
<1>6. /\ HeadOf(stream, start) = h \o BytesOf(stream, start + 4, 8)
      /\ Len(HeadOf(stream, start)) = 12
  BY <1>1, <1>3, <1>5, HeadRead
<1>7. HeaderRead(HeadOf(stream, start))
  BY <1>4, <1>6 DEF ReadRest
<1>8. HeadThere(stream, start)
  BY <1>1, <1>3 DEF HeadThere, CompactHeaderSize
<1>9. pos' = start + Len(HeadOf(stream, start)) /\ reader.pc # "idle"
  BY <1>1, <1>3, <1>6
<1> QED BY <1>7, <1>8, <1>9, HeadEnds

(* The data, in the default processor and in the advanced one.             *)
LEMMA DataReading ==
  ASSUME ReadingInv, Tiling(stream), UNCHANGED <<proc, stream>>,
         (~proc.recv.advanced /\ ReadData) \/ (proc.recv.advanced /\ AdvancedReadData)
  PROVE  ReadingInv'
<1> DEFINE head == reader.head  size == DecodeHeader(reader.head).size
           payloads == PayloadsAt(pos, DecodeHeader(reader.head).size)
           flags == DecodeHeader(reader.head).flags
<1>1. reader.pc = "data" /\ Reads
  BY DEF ReadData, AdvancedReadData
<1>2. /\ payloads = PayloadsOf(stream, pos, size)
      /\ Outcomes(DecodeHeader(head), payloads) = OutcomesOf(head, payloads)
  BY ReadingNames
<1>3. The(MessagesOf(proc, head, payloads)) \in Payloads \cup {NoData}
  BY <1>2, MessagesFound
<1>4. NoData \in Payloads \cup {NoData} /\ \A v \in OutcomesOf(head, payloads) : v \in BOOLEAN
  BY DEF OutcomesOf, Verifies
<1>5. \/ ReadReturns("ok", pos, size, The(MessagesOf(proc, head, payloads)))
      \/ ReadReturns("checksum", pos, size, NoData) /\ FALSE \in OutcomesOf(head, payloads)
      \/ ReadReturns("gzip", pos, size, NoData) /\ MessagesOf(proc, head, payloads) = {}
  <2>1. CASE ~proc.recv.advanced /\ ReadData
    <3>1. PICK v \in OutcomesOf(head, payloads) :
            IF v THEN ReadReturns("ok", pos, size, The(payloads))
                 ELSE ReadReturns("checksum", pos, size, NoData)
      BY <1>2, <2>1 DEF ReadData
    <3>2. payloads = MessagesOf(proc, head, payloads)
      BY <2>1 DEF MessagesOf
    <3> HIDE DEF head, size, payloads
    <3>3. v \in BOOLEAN
      BY <1>4, <3>1
    <3>4. CASE v = TRUE
      <4>1. ReadReturns("ok", pos, size, The(payloads))
        BY <3>1, <3>4
      <4> QED BY <3>2, <4>1
    <3>5. CASE v = FALSE
      BY <3>1, <3>5
    <3> QED BY <3>3, <3>4, <3>5
  <2>2. CASE proc.recv.advanced /\ AdvancedReadData
    <3> DEFINE compressed == HasFlag(flags, FlagCompressed)
               messages == IF compressed THEN Decompressed(payloads) ELSE payloads
    <3>1. PICK v \in OutcomesOf(head, payloads) :
            \/ ~v /\ ReadReturns("checksum", pos, size, NoData)
            \/ compressed /\ messages = {} /\ ReadReturns("gzip", pos, size, NoData)
            \/ ReadReturns("ok", pos, size, The(messages))
      BY <1>2, <2>2 DEF AdvancedReadData
    <3>2. messages = MessagesOf(proc, head, payloads)
      BY <2>2 DEF MessagesOf
    <3> HIDE DEF head, size, payloads, flags, compressed, messages
    <3>3. CASE ~v /\ ReadReturns("checksum", pos, size, NoData)
      <4>1. v = FALSE
        BY <1>4, <3>1, <3>3
      <4> QED BY <3>1, <3>3, <4>1
    <3>4. CASE messages = {} /\ ReadReturns("gzip", pos, size, NoData)
      BY <3>2, <3>4
    <3>5. CASE ReadReturns("ok", pos, size, The(messages))
      BY <3>2, <3>5
    <3> QED BY <3>1, <3>3, <3>4, <3>5
  <2> QED BY <2>1, <2>2
<1>6. PICK q : q = payloads
  OBVIOUS
<1>7. q = PayloadsOf(stream, pos, DecodeHeader(reader.head).size)
  BY <1>2, <1>6
<1>8. CASE ReadReturns("ok", pos, size, The(MessagesOf(proc, head, payloads)))
  BY <1>1, <1>3, <1>6, <1>7, <1>8, DataEnds
<1>9. CASE ReadReturns("checksum", pos, size, NoData) /\ FALSE \in OutcomesOf(head, payloads)
  BY <1>1, <1>4, <1>6, <1>7, <1>9, DataEnds
<1>10. CASE ReadReturns("gzip", pos, size, NoData) /\ MessagesOf(proc, head, payloads) = {}
  BY <1>1, <1>4, <1>6, <1>7, <1>10, DataEnds
<1> QED BY <1>5, <1>8, <1>9, <1>10

(* A step of the reader.                                                   *)
LEMMA ReadingSteps ==
  ASSUME ReadingInv, Tiling(stream),
         (\E withFlags \in BOOLEAN : BeginRead(withFlags)) \/ BeginAdvancedRead \/ ReadStep
  PROVE  ReadingInv' /\ UNCHANGED <<proc, sendVars>>
<1>1. UNCHANGED <<proc, sendVars>>
  BY DEF BeginRead, BeginAdvancedRead, ReadStep, ReadHead, ReadRest, ReadFrame, ReadData, ReadFails,
         AdvancedReadFrame, AdvancedReadData, AdvancedReadFails
<1>2. UNCHANGED <<proc, stream>>
  BY <1>1 DEF sendVars
<1>3. CASE (\E withFlags \in BOOLEAN : BeginRead(withFlags)) \/ BeginAdvancedRead
  BY <1>1, <1>2, <1>3, BeginsReading
<1>4. CASE ReadHead \/ ReadRest
  BY <1>1, <1>2, <1>4, HeadReading, RestReading
<1>5. CASE ReadFrame \/ AdvancedReadFrame
  <2>1. \/ (~proc.recv.advanced /\ ReadData) \/ (proc.recv.advanced /\ AdvancedReadData)
        \/ \E error, lost : ReadFails(error, lost) \/ AdvancedReadFails(error, lost)
    BY <1>5 DEF ReadFrame, AdvancedReadFrame
  <2>2. CASE \E error, lost : ReadFails(error, lost) \/ AdvancedReadFails(error, lost)
    <3>1. PICK error, lost : ReadFails(error, lost) \/ AdvancedReadFails(error, lost)
      BY <2>2
    <3>2. /\ reader.pc # "idle" /\ ReadFullFails(error, lost)
          /\ ReadReturns(error, pos', 0, NoData)
      BY <3>1 DEF ReadFails, AdvancedReadFails
    <3> QED BY <1>1, <1>2, <3>2, CutEnds
  <2> QED BY <1>1, <1>2, <2>1, <2>2, DataReading
<1> QED BY <1>1, <1>3, <1>4, <1>5 DEF ReadStep

-----------------------------------------------------------------------------
(* Both ends.                                                              *)

LinkInv == WritingInv /\ ReadingInv

(* Nothing has been written or read.                                       *)
LEMMA InitLink == Init => LinkInv
<1> SUFFICES ASSUME Init PROVE LinkInv
  OBVIOUS
<1>1. /\ stream = <<>> /\ frames = <<>> /\ results = <<>> /\ pos = 0 /\ proc \in Processors
      /\ open \in BOOLEAN /\ reader = NotReading /\ writer = [w \in Writers |-> Idle]
  BY DEF Init
<1>2. /\ stream \in Seq(PieceType) /\ Len(stream) = 0 /\ Top(stream) = 0
      /\ frames \in Seq(FrameType) /\ Len(frames) = 0
      /\ results \in Seq(ResultType) /\ Len(results) = 0 /\ LastEnd(results) = 0
  BY <1>1 DEF Top, LastEnd
<1>3. Tiling(stream)
  BY <1>2 DEF Tiling, InOrder, Covered
<1>4. Idle \in WriterType /\ Idle.pc = "idle" /\ Idle.frame = 0
  <2>1. Fresh(0) \in Record
    BY DEF Fresh, Record, Statuses
  <2> QED BY <2>1 DEF Idle, WriterType, WriterSteps
<1>5. WritersInv
  BY <1>1, <1>2, <1>4 DEF WritersInv, Alone, WriterFits, Pending
<1>6. NotReading \in ReaderType /\ NotReading.pc = "idle"
  BY DEF NotReading, ReaderType, ReaderSteps
<1>7. AtPlace(stream, reader, LastEnd(results), pos)
  BY <1>1, <1>2, <1>6 DEF AtPlace
<1> QED BY <1>1, <1>2, <1>3, <1>5, <1>6, <1>7 DEF LinkInv, WritingInv, FramesInv, ReadingInv

(* A step of a writer or of the application leaves the bytes that are      *)
(* there, and the reader.                                                  *)
LEMMA WritingSteps ==
  ASSUME WritingInv,
         \/ \E w \in Writers, m \in Messages : Send(w, m) \/ SendTooBig(w, m)
         \/ WriteStep \/ Close
  PROVE  WritingInv' /\ Keeps(stream, stream') /\ UNCHANGED <<proc, recvVars>>
<1>1. CASE \E w \in Writers, m \in Messages : Send(w, m) \/ SendTooBig(w, m)
  BY <1>1, SendsWriting DEF Send, SendTooBig
<1>2. CASE WriteStep
  <2>1. PICK w \in Writers : WriteHeader(w) \/ WriteData(w) \/ WriteFails(w)
    BY <1>2 DEF WriteStep
  <2>2. UNCHANGED <<proc, recvVars>>
    BY <2>1 DEF WriteHeader, WriteData, WriteFails
  <2> QED BY <2>1, <2>2, HeaderWriting, DataWriting, FailedWriting
<1>3. CASE Close
  <2>1. UNCHANGED <<proc, stream, writer, frames, recvVars>> /\ open' \in BOOLEAN
    BY <1>3 DEF Close
  <2>2. Keeps(stream, stream')
    BY <2>1, KeepsItself DEF WritingInv
  <2> QED BY <2>1, <2>2 DEF WritingInv, WritersInv, FramesInv
<1> QED BY <1>1, <1>2, <1>3

(* Every step keeps both ends in order.                                    *)
LEMMA NextLink == LinkInv /\ [Next]_vars => LinkInv'
<1> SUFFICES ASSUME LinkInv, [Next]_vars PROVE LinkInv'
  OBVIOUS
<1>1. WritingInv /\ ReadingInv /\ Tiling(stream)
  BY DEF LinkInv, WritingInv
<1>2. CASE \/ \E w \in Writers, m \in Messages : Send(w, m) \/ SendTooBig(w, m)
           \/ WriteStep \/ Close
  <2>1. WritingInv' /\ Keeps(stream, stream') /\ UNCHANGED <<proc, recvVars>>
    BY <1>1, <1>2, WritingSteps
  <2>2. Tiling(stream')
    BY <2>1 DEF WritingInv
  <2>3. ReadingInv'
    BY <1>1, <2>1, <2>2, ReadingStays
  <2> QED BY <2>1, <2>3 DEF LinkInv
<1>3. CASE (\E withFlags \in BOOLEAN : BeginRead(withFlags)) \/ BeginAdvancedRead \/ ReadStep
  <2>1. ReadingInv' /\ UNCHANGED <<proc, sendVars>>
    BY <1>1, <1>3, ReadingSteps
  <2>2. WritingInv'
    BY <1>1, <2>1 DEF WritingInv, WritersInv, FramesInv, sendVars
  <2> QED BY <2>1, <2>2 DEF LinkInv
<1>4. CASE UNCHANGED vars
  BY <1>4 DEF vars, sendVars, recvVars, LinkInv, WritingInv, WritersInv, FramesInv, ReadingInv
<1> QED BY <1>2, <1>3, <1>4 DEF Next

(* The pieces of the stream tile it, the reader never gets beyond it, and  *)
(* every local is of its type.                                             *)
THEOREM TypeCorrect == Spec => []TypeOK
<1>1. LinkInv => TypeOK
  <2> SUFFICES ASSUME LinkInv PROVE TypeOK
    OBVIOUS
  <2>1. WritingInv /\ ReadingInv /\ Tiling(stream) /\ WritersInv /\ Written = Top(stream)
    BY HeaderNames DEF LinkInv, WritingInv
  <2>2. proc \in Processors /\ open \in BOOLEAN /\ Len(frames) \in Nat
    BY <2>1 DEF WritingInv, FramesInv
  <2>3. \A k \in 1..Len(stream) :
          /\ stream[k].at = (IF k = 1 THEN 0 ELSE End(stream[k - 1])) /\ stream[k].len > 0
          /\ \/ stream[k].body = NoData /\ stream[k].len = Len(stream[k].header)
             \/ stream[k].body \in Payloads /\ stream[k].len <= stream[k].body.size
    <3> TAKE k \in 1..Len(stream)
    <3>1. Filled(stream[k]) /\ stream[k].at = IF k = 1 THEN 0 ELSE End(stream[k - 1])
      BY <2>1 DEF Tiling, InOrder
    <3>2. stream[k].len \in Nat \ {0}
      BY <2>1, Places DEF Tiling
    <3>3. stream[k].len > 0
      BY <3>2
    <3> QED BY <3>1, <3>3 DEF Filled
  <2>4. ASSUME NEW w \in Writers
        PROVE  /\ writer[w].pc \in WriterSteps /\ writer[w].transfer \in Record
               /\ writer[w].pc # "idle" =>
                    writer[w].body \in Payloads /\ writer[w].frame \in 0..Len(frames)
    <3>1. writer[w] \in WriterType /\ writer[w].frame <= Len(frames)
      BY <2>1 DEF WritersInv
    <3>2. /\ writer[w].pc \in WriterSteps /\ writer[w].transfer \in Record
          /\ writer[w].frame \in Nat
      BY <3>1 DEF WriterType
    <3>3. writer[w].pc # "idle" => writer[w].body \in Payloads
      BY <2>1, UnderWay
    <3> QED BY <2>2, <3>1, <3>2, <3>3
  <2>5. pos \in 0..Written
    <3>1. pos \in Nat /\ pos <= Top(stream) /\ Top(stream) \in Nat
      BY <2>1, Places DEF ReadingInv, Tiling
    <3> QED BY <2>1, <3>1
  <2>6. reader.pc \in ReaderSteps
    BY <2>1 DEF ReadingInv, ReaderType
  <2>7. \A i \in 1..Len(results) : results[i].result \in ReadResults
    <3>1. \A i \in 1..Len(results) : results[i] \in ResultType
      BY <2>1 DEF ReadingInv
    <3> QED BY <3>1 DEF ResultType
  <2> QED BY <2>2, <2>3, <2>4, <2>5, <2>6, <2>7 DEF TypeOK
<1>2. LinkInv /\ [Next]_vars => LinkInv'
  BY NextLink
<1> QED BY InitLink, <1>1, <1>2, PTL DEF Spec

-----------------------------------------------------------------------------
(* What a reader makes of a frame, from its first byte on.                 *)

(* The size of a frame is written as 32 bits.                              *)
SizesFit == \A m \in Payloads : m.size \in Words

(* The bytes of a piece with a header are the header.                      *)
LEMMA HeaderBytes ==
  ASSUME NEW s, Tiling(s), NEW k \in 1..Len(s), NEW h \in Seq(Nat), NEW at \in Nat,
         s[k] = Piece(at, Len(h), h, NoData)
  PROVE  \A i \in 1..Len(h) : Byte(s, at + i - 1) = h[i]
<1>1. s[k].at = at /\ s[k].header = h /\ s[k].body = NoData /\ End(s[k]) = at + Len(h)
  BY DEF Piece, End
<1>2. Len(h) \in Nat
  OBVIOUS
<1> TAKE i \in 1..Len(h)
<1> DEFINE b == at + i - 1
<1>3. b \in Nat /\ at <= b /\ b < at + Len(h) /\ b - at + 1 = i
  BY <1>2
<1> HIDE DEF b
<1>4. Holds(s[k], b)
  BY <1>1, <1>3 DEF Holds
<1>5. Byte(s, b) = PieceByte(s[k], b)
  BY <1>3, <1>4, ByteIs
<1>6. PieceByte(s[k], b) = h[b - at + 1]
  BY <1>1 DEF PieceByte
<1> QED BY <1>3, <1>5, <1>6 DEF b

(* Two sequences of numbers with the same elements.                        *)
LEMMA SameNumbers ==
  ASSUME NEW a \in Seq(Nat), NEW b \in Seq(Nat), Len(a) = Len(b), \A i \in 1..Len(a) : a[i] = b[i]
  PROVE  a = b
OBVIOUS

(* The numbers of two sequences in a row are those of a third.             *)
LEMMA SameInARow ==
  ASSUME NEW a \in Seq(Nat), NEW b \in Seq(Nat), NEW c \in Seq(Nat), Len(c) = Len(a) + Len(b),
         \A i \in 1..Len(a) : c[i] = a[i], \A i \in 1..Len(b) : c[Len(a) + i] = b[i]
  PROVE  a \o b = c
<1>1. \A i \in 1..Len(a) : (a \o b)[i] = a[i]
  OBVIOUS
<1>2. \A i \in 1..Len(b) : (a \o b)[Len(a) + i] = b[i]
  OBVIOUS
<1>3. a \o b \in Seq(Nat) /\ Len(a \o b) = Len(a) + Len(b)
  BY InARowOfNumbers
<1> DEFINE d == a \o b
<1> HIDE DEF d
<1>4. \A i \in 1..Len(d) : d[i] = c[i]
  <2> TAKE i \in 1..Len(d)
  <2>1. Len(a) \in Nat /\ Len(b) \in Nat /\ Len(d) = Len(a) + Len(b)
    BY <1>3 DEF d
  <2>2. CASE i <= Len(a)
    BY <1>1, <2>1, <2>2 DEF d
  <2>3. CASE ~(i <= Len(a))
    <3>1. PICK j \in 1..Len(b) : i = Len(a) + j
      <4>1. i - Len(a) \in 1..Len(b) /\ i = Len(a) + (i - Len(a))
        BY <2>1, <2>3
      <4> QED BY <4>1
    <3> QED BY <1>2, <3>1 DEF d
  <2> QED BY <2>2, <2>3
<1> QED BY <1>3, <1>4, SameNumbers DEF d

(* The reader finds a header that is told by its form.                     *)
LEMMA HeaderAt ==
  ASSUME NEW s, Tiling(s), NEW k \in 1..Len(s), NEW h \in Seq(Nat), NEW at \in Nat,
         s[k] = Piece(at, Len(h), h, NoData), Len(h) \in {4, 12}, IsCompact(h) <=> Len(h) = 4
  PROVE  HeadThere(s, at) /\ HeadOf(s, at) = h
<1> DEFINE a == BytesOf(s, at, 4)  b == BytesOf(s, at + 4, 8)
<1>1. PICK n \in {4, 12} : n = Len(h)
  OBVIOUS
<1>2. Top(s) \in Nat /\ at + n <= Top(s)
  <2>1. End(s[k]) = at + n
    BY <1>1 DEF Piece, End
  <2> QED BY <2>1, Places DEF Tiling, InOrder
<1>3. at + 4 <= Top(s)
  BY <1>2
<1>4. a \in Seq(Nat) /\ Len(a) = 4
  BY <1>3, BytesRead
<1>5. \A i \in 1..n : Byte(s, at + i - 1) = h[i]
  BY <1>1, HeaderBytes
<1>6. \A i \in 1..4 : a[i] = h[i]
  <2>1. \A i \in 1..4 : a[i] = Byte(s, at + i - 1) /\ i \in 1..n
    BY DEF BytesOf
  <2> QED BY <1>5, <2>1
<1>7. IsCompact(a) <=> n = 4
  BY <1>1, <1>6 DEF IsCompact
<1>8. HeadThere(s, at)
  BY <1>2, <1>7 DEF HeadThere, CompactHeaderSize
<1>9. CASE n = 4
  <2>1. HeadOf(s, at) = a
    BY <1>3, <1>7, <1>9, HeadRead
  <2> HIDE DEF a
  <2>2. a = h
    BY <1>1, <1>4, <1>6, <1>9, SameNumbers
  <2> QED BY <1>8, <2>1, <2>2
<1>10. CASE n = 12
  <2>1. at + 12 <= Top(s) /\ ~IsCompact(a)
    BY <1>2, <1>7, <1>10
  <2>2. HeadOf(s, at) = a \o b
    BY <1>3, <2>1, HeadRead
  <2>3. at + 4 \in Nat /\ (at + 4) + 8 <= Top(s)
    BY <1>2, <2>1
  <2>4. b \in Seq(Nat) /\ Len(b) = 8
    BY <2>3, BytesRead
  <2>5. \A i \in 1..8 : b[i] = h[4 + i]
    <3> TAKE i \in 1..8
    <3>1. b[i] = Byte(s, (at + 4) + i - 1)
      BY DEF BytesOf
    <3>2. (at + 4) + i - 1 = at + (4 + i) - 1 /\ 4 + i \in 1..n
      BY <1>10
    <3> QED BY <1>5, <3>1, <3>2
  <2> HIDE DEF a, b
  <2>6. 12 = 4 + 8
    OBVIOUS
  <2>7. Len(h) = Len(a) + Len(b)
    BY <1>1, <1>4, <1>10, <2>4, <2>6
  <2>8. \A i \in 1..Len(a) : h[i] = a[i]
    BY <1>4, <1>6
  <2>9. \A i \in 1..Len(b) : h[Len(a) + i] = b[i]
    BY <1>4, <2>4, <2>5
  <2>10. a \in Seq(Nat) /\ b \in Seq(Nat)
    BY <1>4, <2>4
  <2>11. a \o b = h
    BY <2>7, <2>8, <2>9, <2>10, SameInARow
  <2> QED BY <1>8, <2>2, <2>11
<1> QED BY <1>9, <1>10

(* The data of a frame is the one payload at its place.                    *)
LEMMA DataAt ==
  ASSUME NEW s, Tiling(s), NEW k \in 1..Len(s), NEW b \in Payloads, NEW at \in Nat,
         s[k].at = at, s[k].len = b.size, s[k].body = b
  PROVE  PayloadsOf(s, at, b.size) = {b}
<1>1. s[k].at = at /\ s[k].len = b.size /\ s[k].body = b
  OBVIOUS
<1>2. \A j \in 1..Len(s) : s[j].at = at => j = k
  <2>1. \A j \in 1..Len(s) : s[j].at \in Nat /\ End(s[j]) \in Nat /\ s[j].at < End(s[j])
    BY Places DEF Tiling
  <2>2. \A i, j \in 1..Len(s) : i < j => End(s[i]) <= s[j].at
    BY DEF Tiling, InOrder
  <2> TAKE j \in 1..Len(s)
  <2> HAVE s[j].at = at
  <2>3. ~(j < k) /\ ~(k < j)
    BY <1>1, <2>1, <2>2
  <2> QED BY <2>3
<1>3. b # NoData
  BY PayloadNumbers
<1> QED BY <1>1, <1>2, <1>3 DEF PayloadsOf

(* The flags of a frame: compressed, and compact when it is small.         *)
LEMMA Marks ==
  ASSUME NEW p, NEW m \in Messages
  PROVE  LET flags == MarkOf(p, m) IN
         /\ flags \in Words /\ flags % 256 = flags
         /\ HasFlag(flags, FlagCompressed) <=> BodyOf(p, m) # m
         /\ UsesCompact(BodyOf(p, m).size, flags) <=> BodyOf(p, m).size < CompactLimit
<1> DEFINE flags == MarkOf(p, m)  size == BodyOf(p, m).size  c == BodyOf(p, m) # m
<1>1. WithFlag(0, 64) = 64 /\ WithFlag(4, 64) = 68
  BY DEF WithFlag, HasFlag
<1>2. /\ ~HasFlag(0, 4) /\ HasFlag(4, 4) /\ ~HasFlag(64, 4) /\ HasFlag(68, 4)
      /\ HasFlag(64, 64) /\ HasFlag(68, 64)
  BY DEF HasFlag
<1>3. flags = FrameFlags(size, IF c THEN 4 ELSE 0)
  BY DEF MarkOf, FlagCompressed, FlagNormal
<1>4. size \in Nat
  BY BodyType
<1> HIDE DEF flags, size, c
<1>5. flags = IF size < CompactLimit THEN IF c THEN 68 ELSE 64 ELSE IF c THEN 4 ELSE 0
  BY <1>1, <1>3 DEF FrameFlags, FlagCompact
<1>6. flags \in {0, 4, 64, 68}
  BY <1>5
<1>7. flags \in Words /\ flags % 256 = flags
  BY <1>6 DEF Words
<1>8. HasFlag(flags, FlagCompressed) <=> c
  BY <1>2, <1>5 DEF FlagCompressed
<1>9. UsesCompact(size, flags) <=> size < CompactLimit
  BY <1>2, <1>5 DEF UsesCompact, FlagCompact
<1> QED BY <1>7, <1>8, <1>9 DEF flags, size, c

(* What the header of a frame tells: its form, unless Misread names the    *)
(* size, the size, the checksum and whether the data is compressed.        *)
LEMMA HeaderTells ==
  ASSUME SizesFit, NEW p, NEW m \in Messages, ~Misread(BodyOf(p, m).size)
  PROVE  LET h == HeaderFor(p, m) IN
         /\ IsCompact(h) <=> Len(h) = 4
         /\ DecodeHeader(h).size = BodyOf(p, m).size
         /\ Verifies(Crc[BodyOf(p, m)], DecodeHeader(h), Len(h) = CompactHeaderSize)
         /\ HasFlag(DecodeHeader(h).flags, FlagCompressed) <=> BodyOf(p, m) # m
<1> DEFINE body == BodyOf(p, m)  size == BodyOf(p, m).size  flags == MarkOf(p, m)
           crc == Crc[BodyOf(p, m)]  h == HeaderFor(p, m)
<1>1. body \in Payloads
  BY BodyType
<1>2. size \in Words /\ crc \in Words /\ size \in Nat
  BY <1>1, PayloadNumbers DEF SizesFit
<1>3. /\ flags \in Words /\ flags % 256 = flags
      /\ HasFlag(flags, FlagCompressed) <=> body # m
      /\ UsesCompact(size, flags) <=> size < CompactLimit
  BY Marks
<1>4. h = EncodeHeader(size, crc, flags)
  BY DEF HeaderFor
<1>5. ~Misread(size)
  OBVIOUS
<1>6. Header(size, crc, flags).size = size /\ Header(size, crc, flags).checksum = crc
      /\ Header(size, crc, flags).flags = flags
      /\ Header(size, crc % 256, flags).size = size /\ Header(size, crc % 256, flags).flags = flags
      /\ Header(size, crc % 256, flags).checksum = crc % 256
  BY DEF Header
<1> HIDE DEF body, size, flags, crc, h
<1>7. CASE size < CompactLimit
  <2>1. UsesCompact(size, flags)
    BY <1>3, <1>7
  <2>2. Len(h) = 4 /\ IsCompact(h) /\ DecodeHeader(h) = Header(size, crc % 256, flags % 256)
    BY <1>2, <1>3, <1>4, <2>1, CompactRoundTrip DEF CompactHeaderSize
  <2>3. DecodeHeader(h) = Header(size, crc % 256, flags)
    BY <1>3, <2>2
  <2>4. Verifies(crc, DecodeHeader(h), Len(h) = CompactHeaderSize)
    BY <1>6, <2>2, <2>3 DEF Verifies, CompactHeaderSize
  <2> QED BY <1>3, <1>6, <2>2, <2>3, <2>4 DEF body, size, crc, h
<1>8. CASE ~(size < CompactLimit)
  <2>1. ~UsesCompact(size, flags)
    BY <1>3, <1>8
  <2>2. /\ Len(h) = 12
        /\ IsCompact(h) <=> HasFlag(size % 256, FlagCompact)
        /\ DecodeHeader(h) = Header(size, crc, flags)
    BY <1>2, <1>3, <1>4, <2>1, StandardRoundTrip DEF DefaultHeaderSize
  <2>3. ~HasFlag(size % 256, FlagCompact)
    BY <1>2, <1>5, <1>8 DEF Misread, CompactLimit
  <2>4. Len(h) # 4 /\ ~(Len(h) = CompactHeaderSize)
    BY <2>2 DEF CompactHeaderSize
  <2>5. Verifies(crc, DecodeHeader(h), Len(h) = CompactHeaderSize)
    BY <1>6, <2>2, <2>4 DEF Verifies
  <2> QED BY <1>3, <1>6, <2>2, <2>3, <2>4, <2>5 DEF body, size, crc, h
<1> QED BY <1>7, <1>8

(* The payload of a frame is the one message of its data, and verifies.    *)
LEMMA MessageFound ==
  ASSUME SizesFit, NEW p, NEW m \in Messages, ~Misread(BodyOf(p, m).size)
  PROVE  LET h == HeaderFor(p, m)  body == BodyOf(p, m) IN
         /\ OutcomesOf(h, {body}) = {TRUE}
         /\ MessagesOf(p, h, {body}) = {IF p.recv.advanced THEN m ELSE body}
<1> DEFINE h == HeaderFor(p, m)  body == BodyOf(p, m)
<1>1. /\ Verifies(Crc[body], DecodeHeader(h), Len(h) = CompactHeaderSize)
      /\ HasFlag(DecodeHeader(h).flags, FlagCompressed) <=> body # m
  BY HeaderTells
<1>2. body # m => m \in DOMAIN Packed /\ body = Packed[m]
  BY DEF BodyOf, Compressed
<1> HIDE DEF h, body
<1>3. OutcomesOf(h, {body}) = {TRUE}
  <2>1. Verifies(Crc[body], DecodeHeader(h), Len(h) = CompactHeaderSize) \in BOOLEAN
    BY DEF Verifies
  <2>2. Verifies(Crc[body], DecodeHeader(h), Len(h) = CompactHeaderSize) = TRUE
    BY <1>1, <2>1
  <2>3. OutcomesOf(h, {body})
          = {Verifies(Crc[n], DecodeHeader(h), Len(h) = CompactHeaderSize) : n \in {body}}
    BY DEF OutcomesOf
  <2>4. OutcomesOf(h, {body})
          = {Verifies(Crc[body], DecodeHeader(h), Len(h) = CompactHeaderSize)}
    BY <2>3
  <2> QED BY <2>2, <2>4
<1>4. MessagesOf(p, h, {body}) = {IF p.recv.advanced THEN m ELSE body}
  <2>1. CASE p.recv.advanced /\ body # m
    <3>1. MessagesOf(p, h, {body}) = Decompressed({body})
      BY <1>1, <2>1 DEF MessagesOf
    <3>2. \A n \in DOMAIN Packed : Packed[n] = body <=> n = m
      BY <1>2, <2>1, PayloadAssumption
    <3>3. Decompressed({body}) = {m}
      BY <1>2, <2>1, <3>2 DEF Decompressed
    <3> QED BY <2>1, <3>1, <3>3
  <2>2. CASE ~(p.recv.advanced /\ body # m)
    <3>1. MessagesOf(p, h, {body}) = {body}
      BY <1>1, <2>2 DEF MessagesOf
    <3> QED BY <2>2, <3>1
  <2> QED BY <2>1, <2>2
<1> QED BY <1>3, <1>4 DEF h, body

(* A call that begins at the first byte of a whole frame, that is not cut  *)
(* off and can read it, returns its message.                               *)
LEMMA CallReturns ==
  ASSUME SizesFit, NEW p, NEW s, Tiling(s), NEW f \in FrameType, Placed(p, s, f),
         f.dataAt = f.at + f.hlen, ~Misread(f.body.size), ~TooBig(f.body.size, p.recv.maxFrameSize),
         NEW e \in ResultType, Fits(p, s, e), e.result \notin {"timeout", "eof"}, e.start = f.at
  PROVE  /\ e.result = "ok" /\ e.at = f.dataAt /\ e.size = f.body.size
         /\ e.size > 0 => e.message = IF p.recv.advanced THEN f.message ELSE f.body
<1> DEFINE h == HeaderFor(p, f.message)
<1>1. /\ f.message \in Messages /\ f.body \in Payloads /\ f.at \in Nat /\ f.hlen \in Nat
      /\ f.dataAt \in Nat /\ f.body = BodyOf(p, f.message)
  BY DEF FrameType, Placed
<1>2. f.body.size \in Nat
  BY <1>1, PayloadNumbers
<1>3. f.hlen = Len(h) /\ \E k \in 1..Len(s) : s[k] = Piece(f.at, Len(h), h, NoData)
  BY <1>1 DEF Placed
<1>4. /\ h \in Seq(Nat) /\ Len(h) \in {4, 12}
      /\ IsCompact(h) <=> Len(h) = 4
      /\ DecodeHeader(h).size = f.body.size
  <2>1. h \in Seq(Nat) /\ Len(h) \in {4, 12}
    BY <1>1, BodyType DEF CompactHeaderSize, DefaultHeaderSize
  <2> QED BY <1>1, <2>1, HeaderTells
<1>5. /\ OutcomesOf(h, {f.body}) = {TRUE}
      /\ MessagesOf(p, h, {f.body}) = {IF p.recv.advanced THEN f.message ELSE f.body}
  BY <1>1, MessageFound
<1> HIDE DEF h
<1>6. HeadThere(s, f.at) /\ HeadOf(s, f.at) = h
  BY <1>1, <1>3, <1>4, HeaderAt
<1>7. /\ e.at = f.at + Len(h)
      /\ e.result = "tooBig" => TooBig(f.body.size, p.recv.maxFrameSize)
      /\ e.result # "tooBig" => e.size = f.body.size /\ DataFits(p, s, h, e)
  BY <1>4, <1>6 DEF Fits
<1>8. e.at = f.dataAt /\ e.size = f.body.size /\ DataFits(p, s, h, e)
  BY <1>3, <1>7
<1>9. e.result \in {"ok", "checksum", "gzip"}
  BY <1>7 DEF ResultType, ReadResults
<1>10. CASE f.body.size = 0
  <2>1. e.result = "ok"
    BY <1>8, <1>10 DEF DataFits
  <2> QED BY <1>8, <1>10, <2>1
<1>11. CASE f.body.size # 0
  <2>1. f.body.size > 0
    BY <1>2, <1>11
  <2>2. \E k \in 1..Len(s) : s[k] = Piece(f.dataAt, f.body.size, <<>>, f.body)
    BY <1>1, <2>1 DEF Placed
  <2>3. PayloadsOf(s, e.at, e.size) = {f.body}
    <3>1. PICK at \in Nat, b \in Payloads : at = f.dataAt /\ b = f.body
      BY <1>1
    <3>2. PICK k \in 1..Len(s) : s[k].at = at /\ s[k].len = b.size /\ s[k].body = b
      BY <2>2, <3>1 DEF Piece
    <3>3. Tiling(s)
      OBVIOUS
    <3>4. PayloadsOf(s, at, b.size) = {b}
      BY ONLY <3>2, <3>3, DataAt
    <3> QED BY <1>8, <3>1, <3>4
  <2>4. /\ e.result = "checksum" => FALSE \in OutcomesOf(h, {f.body})
        /\ e.result = "gzip" => MessagesOf(p, h, {f.body}) = {}
        /\ e.result = "ok" => e.message = The(MessagesOf(p, h, {f.body}))
    BY <1>8, <2>1, <2>3 DEF DataFits
  <2>5. e.result = "ok"
    BY <1>5, <1>9, <2>4
  <2>6. The({IF p.recv.advanced THEN f.message ELSE f.body})
          = IF p.recv.advanced THEN f.message ELSE f.body
    BY DEF The
  <2> QED BY <1>5, <1>8, <2>4, <2>5, <2>6
<1> QED BY <1>10, <1>11

-----------------------------------------------------------------------------
(* Reader and writers in step.                                             *)

(* The natural numbers are well ordered, so a set that holds every number  *)
(* whose predecessors it holds, holds them all.                            *)
Less == {x \in Nat \X Nat : x[1] < x[2]}

LEMMA NumberByNumber ==
  ASSUME NEW S \in SUBSET Nat, \A n \in Nat : (\A k \in Nat : k < n => k \in S) => n \in S
  PROVE  \A n \in Nat : n \in S
<1> DEFINE T == Nat \ S
<1> SUFFICES ASSUME T # {} PROVE FALSE
  OBVIOUS
<1>1. IsWellFoundedOn(Less, Nat)
  BY NatLessThanWellFounded DEF OpToRel, Less
<1>2. PICK x \in T : \A y \in T : <<y, x>> \notin Less
  <2> HIDE DEF T
  <2>1. T \subseteq Nat
    BY DEF T
  <2> QED BY <1>1, <2>1, WFMin
<1>3. \A y \in T : ~(y < x)
  BY <1>2 DEF Less
<1> QED BY <1>3

(* The call after one that returned its message begins at the next frame.  *)
LEMMA DeliversNext ==
  ASSUME SizesFit, LinkInv, NEW i \in 1..Len(results), InStepUpTo(i), i # 1 => Delivers(i - 1)
  PROVE  Delivers(i)
<1> DEFINE f == frames[i]  e == results[i]
<1>1. Tiling(stream) /\ FramesInv /\ ReadingInv
  BY DEF LinkInv, WritingInv
<1>2. Whole(i) /\ ~Misread(f.body.size) /\ ~TooBig(f.body.size, proc.recv.maxFrameSize) /\ Uncut(i)
  BY DEF InStepUpTo, Readable
<1>3. f \in FrameType /\ Placed(proc, stream, f) /\ f.dataAt = f.at + f.hlen
  BY <1>1, <1>2 DEF Whole, FramesInv
<1>4. e \in ResultType /\ Fits(proc, stream, e) /\ e.result \notin {"timeout", "eof"}
  BY <1>1, <1>2 DEF ReadingInv, Uncut
<1>5. e.start = f.at
  <2>1. /\ f.at = IF i = 1 THEN 0 ELSE frames[i - 1].dataAt + frames[i - 1].body.size
        /\ e.start = IF i = 1 THEN 0 ELSE results[i - 1].at + results[i - 1].size
    BY <1>1, <1>2 DEF Whole, ReadingInv
  <2>2. i # 1 => /\ results[i - 1].at = frames[i - 1].dataAt
                 /\ results[i - 1].size = frames[i - 1].body.size
    BY DEF Delivers
  <2> QED BY <2>1, <2>2
<1> HIDE DEF f, e
<1>6. /\ e.result = "ok" /\ e.at = f.dataAt /\ e.size = f.body.size
      /\ e.size > 0 => e.message = IF proc.recv.advanced THEN f.message ELSE f.body
  BY <1>1, <1>2, <1>3, <1>4, <1>5, CallReturns
<1> QED BY <1>5, <1>6 DEF Delivers, Expected, f, e

(* Reader and writers stay in step: as long as no two Sends mixed header   *)
(* and data, no write and no read was cut off, no size was misread and     *)
(* none over the reader's limit, the i-th call returns the message of the  *)
(* i-th frame and not a byte more or less.                                 *)
THEOREM StaysInStep ==
  ASSUME SizesFit
  PROVE  Spec => []InStep
<1>1. LinkInv => InStep
  <2> SUFFICES ASSUME LinkInv PROVE InStep
    OBVIOUS
  <2> DEFINE S == {n \in Nat : n \in 1..Len(results) /\ InStepUpTo(n) => Delivers(n)}
  <2>1. ASSUME NEW n \in Nat, \A k \in Nat : k < n => k \in S, n \in 1..Len(results), InStepUpTo(n)
        PROVE  Delivers(n)
    <3>1. Len(results) \in Nat
      BY DEF LinkInv, ReadingInv
    <3>2. ASSUME n # 1 PROVE Delivers(n - 1)
      <4>1. n - 1 \in Nat /\ n - 1 < n /\ n - 1 \in 1..Len(results)
        BY <2>1, <3>1, <3>2
      <4>2. InStepUpTo(n - 1)
        BY <2>1 DEF InStepUpTo
      <4> QED BY <2>1, <4>1, <4>2
    <3> QED BY <2>1, <3>2, DeliversNext
  <2>2. \A n \in Nat : (\A k \in Nat : k < n => k \in S) => n \in S
    BY <2>1
  <2> HIDE DEF S
  <2>3. S \in SUBSET Nat
    BY DEF S
  <2>4. \A n \in Nat : n \in S
    BY <2>2, <2>3, NumberByNumber
  <2>5. \A i \in 1..Len(results) : i \in Nat
    OBVIOUS
  <2> QED BY <2>4, <2>5 DEF S, InStep
<1>2. LinkInv /\ [Next]_vars => LinkInv'
  BY NextLink
<1> QED BY InitLink, <1>1, <1>2, PTL DEF Spec

=============================================================================
