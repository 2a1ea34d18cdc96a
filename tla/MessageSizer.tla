---------------------------- MODULE MessageSizer ----------------------------
(***************************************************************************)
(* src/message_sizer.go: the five transport strategies with the sizes each *)
(* is for, the choice of one for a size, and the parameters optimised for  *)
(* a size.  A strategy is its name and its range, where max = 0 means that *)
(* there is no upper bound.                                                *)
(***************************************************************************)
EXTENDS Integers, Sequences

TinyMessageSize   == 1024
SmallMessageSize  == 16 * 1024
MediumMessageSize == 128 * 1024
LargeMessageSize  == 1024 * 1024

Strategy(name, min, max) == [name |-> name, min |-> min, max |-> max]

Tiny   == Strategy("TinyMessageStrategy", 0, TinyMessageSize)
Small  == Strategy("SmallMessageStrategy", TinyMessageSize, SmallMessageSize)
Medium == Strategy("MediumMessageStrategy", SmallMessageSize, MediumMessageSize)
Large  == Strategy("LargeMessageStrategy", MediumMessageSize, LargeMessageSize)
Huge   == Strategy("HugeMessageStrategy", LargeMessageSize, 0)

DefaultStrategies == <<Tiny, Small, Medium, Large, Huge>>

Covers(s, size) == s.min <= size /\ (size < s.max \/ s.max = 0)

(* The first strategy that covers the size, or else the last one.          *)
SelectStrategy(strategies, size) ==
  LET covering == {i \in DOMAIN strategies : Covers(strategies[i], size)} IN
  IF covering = {} THEN strategies[Len(strategies)]
  ELSE strategies[CHOOSE i \in covering : \A j \in covering : i <= j]

Params == [chunk : Nat, chunking : BOOLEAN, buffer : Nat, timeout : Nat,
           noBlockDelay : BOOLEAN, retries : Nat]

(* Sizes in KB, times in seconds; checksums are always on.                 *)
OptimizeParams(size) ==
  LET For(chunk, chunking, buffer, timeout) ==
        [chunk |-> chunk, chunking |-> chunking, buffer |-> buffer, timeout |-> timeout,
         noBlockDelay |-> FALSE, retries |-> 3]
  IN
  CASE size < TinyMessageSize -> For(16, FALSE, 1, 5)
    [] size >= TinyMessageSize /\ size < SmallMessageSize -> For(16, FALSE, 4, 10)
    [] size >= SmallMessageSize /\ size < MediumMessageSize -> For(4, TRUE, 16, 20)
    [] size >= MediumMessageSize /\ size < LargeMessageSize -> For(16, TRUE, 64, 60)
    [] size >= LargeMessageSize -> For(64, TRUE, 128, 120)

=============================================================================
