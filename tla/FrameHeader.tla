----------------------------- MODULE FrameHeader -----------------------------
(***************************************************************************)
(* The frame headers of src/frame_processor.go: 12 bytes, or 4 bytes for   *)
(* data below 64 KB.  A byte is a number, flags are a number whose bits    *)
(* are told by arithmetic.                                                 *)
(***************************************************************************)
EXTENDS Integers, Sequences

DefaultHeaderSize == 12
CompactHeaderSize == 4
CompactLimit == 65536

FlagNormal     == 0
FlagFragmented == 1
FlagLastFrame  == 2
FlagCompressed == 4
FlagCompact    == 64

Bytes == 0..255

(* uint32: the numbers of 32 bits.  The highest byte bounds them, so that   *)
(* TLC need not compute the bound.                                         *)
Words == {x \in Nat : x \div 16777216 < 256}

HasFlag(flags, flag) == (flags \div flag) % 2 = 1
WithFlag(flags, flag) == IF HasFlag(flags, flag) THEN flags ELSE flags + flag

(* binary.BigEndian: PutUint16 and PutUint32 keep the low bytes.           *)
Uint16(b) == b[1] * 256 + b[2]
Uint32(b) == b[1] * 16777216 + b[2] * 65536 + b[3] * 256 + b[4]
PutUint16(x) == <<(x \div 256) % 256, x % 256>>
PutUint32(x) ==
  <<(x \div 16777216) % 256, (x \div 65536) % 256, (x \div 256) % 256, x % 256>>

Field(header, first, last) == SubSeq(header, first, last)

Header(size, checksum, flags) == [size |-> size, checksum |-> checksum, flags |-> flags]
Headers == [size : Nat, checksum : Nat, flags : Nat]

UsesCompact(size, flags) == size < CompactLimit /\ HasFlag(flags, FlagCompact)

(* 0 stands for no limit.                                                  *)
TooBig(size, maxFrameSize) == maxFrameSize > 0 /\ size > maxFrameSize

(* The bytes of the header of a frame that is not too big.                 *)
EncodeHeader(size, checksum, flags) ==
  IF UsesCompact(size, flags)
    THEN PutUint16(size) \o <<checksum % 256, flags % 256>>
    ELSE PutUint32(size) \o PutUint32(checksum) \o PutUint32(flags)

(* The header of 4 or 12 bytes, before its size is checked.                *)
DecodeHeader(header) ==
  IF Len(header) = CompactHeaderSize
    THEN Header(Uint16(Field(header, 1, 2)), header[3], WithFlag(header[4], FlagCompact))
    ELSE Header(Uint32(Field(header, 1, 4)), Uint32(Field(header, 5, 8)),
                Uint32(Field(header, 9, 12)))

(* How a reader tells the two forms apart, from the first four bytes.      *)
IsCompact(header) == HasFlag(header[4], FlagCompact)

(* Checksum 0 is not verified; of a compact frame only the lowest byte is. *)
Verifies(checksum, header, compact) ==
  \/ header.checksum = 0
  \/ compact /\ checksum % 256 = header.checksum
  \/ ~compact /\ checksum = header.checksum

(* WriteFrame marks data below the limit for the compact header.           *)
FrameFlags(size, flags) ==
  IF size < CompactLimit THEN WithFlag(flags, FlagCompact) ELSE flags

(* The 12 bytes of a big frame start like a compact header: bit 0x40 of    *)
(* the lowest byte of the size stands where the compact flag would.        *)
Misread(size) == size >= CompactLimit /\ HasFlag(size % 256, FlagCompact)

=============================================================================
