--------------------------- MODULE MCRelayInbound ---------------------------
(* An instance of RelayInbound: two deliveries that share a job.           *)
EXTENDS RelayInbound, TLC

CONSTANTS d1, d2, j1, j2

Overlapping == (d1 :> {j1, j2}) @@ (d2 :> {j1})
=============================================================================
