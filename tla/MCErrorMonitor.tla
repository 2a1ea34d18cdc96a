--------------------------- MODULE MCErrorMonitor ---------------------------
(* Instances of ErrorMonitor for TLC, and a claim of the monitor's comments *)
(* that the code does not keep.                                             *)
EXTENDS ErrorMonitor

(* Claim of error_monitor.go:540 and 586: checkAlerts triggers an alert     *)
(* that is due and triggerAlert notifies the listeners of it.               *)
AlertTriggered ==
  \A g \in Starters : processor[g].pc = "alert" ~> processor[g].pc # "alert"

=============================================================================
