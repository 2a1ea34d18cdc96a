---------------------------- MODULE ErrorHandler ----------------------------
(***************************************************************************)
(* src/error_handler.go: which strategy the default handler has for an     *)
(* error.  An error is told by what the handler asks of it: whether it     *)
(* wraps io.EOF, what its text contains, whether it is a net.Error, and    *)
(* the severity of a MessageError.  The callbacks are left out.            *)
(***************************************************************************)

Severities == {"info", "warning", "error", "critical", "fatal"}
ErrorStrategies == {"Ignore", "Retry", "Abort", "Reset", "Close", "Panic", "Continue"}

Errors ==
  [eof      : BOOLEAN,
   text     : {"use of closed network connection", "connection reset by peer",
               "broken pipe", "other"},
   net      : {"no", "timeout", "other"},
   severity : Severities \cup {"none"}]

(* An error the handler knows nothing of.                                  *)
Unknown == [eof |-> FALSE, text |-> "other", net |-> "no", severity |-> "none"]

(* What NewDefaultErrorHandler sets; SetDefaultStrategy changes it.        *)
NewStrategies ==
  [severity \in Severities |->
     CASE severity = "info"     -> "Ignore"
       [] severity = "warning"  -> "Retry"
       [] severity = "error"    -> "Abort"
       [] severity = "critical" -> "Reset"
       [] severity = "fatal"    -> "Close"]

Graceful(e) == e.eof \/ e.text = "use of closed network connection"

IsConnectionClosed(e) ==
  \/ Graceful(e)
  \/ e.text \in {"connection reset by peer", "broken pipe"}
  \/ e.net = "other"

(* convertError gives an error that is no MessageError a severity.         *)
Severity(e) ==
  CASE e.severity # "none" -> e.severity
    [] e.severity = "none" /\ e.net = "timeout" -> "warning"
    [] OTHER -> "error"

(* A closed connection comes before the severity, which a MessageError     *)
(* that wraps the closing keeps for nothing.                               *)
StrategyFor(strategies, e) ==
  CASE Graceful(e) -> "Continue"
    [] IsConnectionClosed(e) /\ ~Graceful(e) -> "Retry"
    [] OTHER -> strategies[Severity(e)]

=============================================================================
