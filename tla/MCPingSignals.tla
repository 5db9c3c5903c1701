--------------------------- MODULE MCPingSignals ---------------------------
(* Instances of PingSignals for TLC.                                       *)
EXTENDS PingSignals
=============================================================================
