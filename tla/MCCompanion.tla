----------------------------- MODULE MCCompanion -----------------------------
(* The model of Companion that TLC checks: MaxEvents bounds the changes of *)
(* Docker, Failures what may go wrong; restarts are not bounded.           *)
EXTENDS Companion, TLC
=============================================================================
