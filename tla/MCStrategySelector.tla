------------------------- MODULE MCStrategySelector -------------------------
(* An instance of StrategySelector for TLC: sizes on both sides of the      *)
(* thresholds, inside one KB, at 54 and 55 MB, whose numbers of KB are      *)
(* surrogates and share one key, and one whose number of KB wraps around to *)
(* that of the smallest.                                                    *)
EXTENDS StrategySelector

Plain(size) ==
  [size |-> size, reliability |-> FALSE, realtime |-> FALSE, canDelay |-> FALSE,
   network |-> 4, stream |-> FALSE, other |-> 0]

AllRequests ==
  {Plain(size) : size \in {100, 1023, 1024, 1500, 200000, 54 * 1048576, 55 * 1048576,
                           RuneSpan * 1024 + 100}}
  \cup {[Plain(1500) EXCEPT !.reliability = TRUE], [Plain(1500) EXCEPT !.realtime = TRUE],
        [Plain(1500) EXCEPT !.canDelay = TRUE], [Plain(1500) EXCEPT !.stream = TRUE],
        [Plain(16383) EXCEPT !.network = 0], [Plain(16384) EXCEPT !.network = 2],
        [Plain(200000) EXCEPT !.network = 6, !.other = 1]}

(* A strategy under the name of a default one, and one of its own.         *)
AllCustom ==
  {Strategy("TinyMessageStrategy", 0, 4096), Strategy("BulkStrategy", 65536, 0)}

(* The second makes the weights of the default scorers add up to 0.        *)
AllScorers ==
  {[name |-> "RealtimeScorer", weight |-> 1, own |-> FALSE, fixed |-> 50],
   [name |-> "CostScorer", weight |-> -15, own |-> FALSE, fixed |-> 10]}

=============================================================================
