------------------------------ MODULE MCHealth ------------------------------
(* Values of the constants of Health for TLC.                              *)
EXTENDS Health, TLC

CONSTANTS r1, r2

\* One request to each path at a time.
MCPath == (r1 :> "health") @@ (r2 :> "ready")
=============================================================================
