-------------------------- MODULE MCStreamTransfer --------------------------
(* Instances of StreamTransfer for TLC: every constant is in the cfg.       *)
EXTENDS StreamTransfer

(* The default handler lets no error pass for a success, which handleError  *)
(* makes of the strategy Ignore, but a MessageError that says it is only    *)
(* information; and it asks for a retry of whatever broke the connection.   *)
ASSUME NothingSwallowed ==
  \A e \in Errors :
    /\ StrategyFor(NewStrategies, e) = "Ignore" => e.severity = "info" /\ ~IsConnectionClosed(e)
    /\ IsConnectionClosed(e) /\ ~Graceful(e) => StrategyFor(NewStrategies, e) = "Retry"

=============================================================================
