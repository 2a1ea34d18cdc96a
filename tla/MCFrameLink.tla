---------------------------- MODULE MCFrameLink ----------------------------
(* An instance of FrameLink for TLC.  The sizes are real: one that makes a  *)
(* compact header, compressed or not, 64 KB, which takes the standard       *)
(* header, and 65600, whose header is misread.                              *)
EXTENDS FrameLink

packed == [size |-> 20, byte |-> 31]
m1040  == [size |-> 1040, byte |-> 0]
m65536 == [size |-> 65536, byte |-> 0]
m65600 == [size |-> 65600, byte |-> 64]
empty  == [size |-> 0, byte |-> 0]

AllMessages == {empty, m1040, m65536, m65600}
AllPacked == [m \in {m1040} |-> packed]

(* The checksum of packed is not verified in a compact header: its lowest   *)
(* byte is 0.  All bytes are below 128, so that TLC can compute the size    *)
(* that any four of them make.                                              *)
AllCrc == [m \in AllMessages \cup {packed} |->
             CASE m = empty  -> 0
               [] m = packed -> 768
               [] m = m1040  -> 4097
               [] m = m65536 -> 66051
               [] m = m65600 -> 66112]

Default(max) ==
  [advanced |-> FALSE, compression |-> FALSE, recovery |-> FALSE, maxFrameSize |-> max]
Advanced(compression, recovery) ==
  [advanced |-> TRUE, compression |-> compression, recovery |-> recovery, maxFrameSize |-> 0]
Ends(send, recv) == [send |-> send, recv |-> recv]
AllProcessors ==
  {Ends(Default(0), Default(0)), Ends(Default(1000), Default(0)), Ends(Default(0), Default(1000)),
   Ends(Advanced(TRUE, FALSE), Advanced(FALSE, FALSE)), Ends(Advanced(TRUE, FALSE), Default(0)),
   Ends(Default(0), Advanced(FALSE, TRUE))}

=============================================================================
