----------------------------- MODULE MCResetConn -----------------------------
(* An instance of ResetConn for TLC: every constant is in the cfg.          *)
EXTENDS ResetConn

=============================================================================
