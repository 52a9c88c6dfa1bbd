------------------------------ MODULE MCWatcher ------------------------------
(* The model of Watcher that TLC checks: bounded by MaxEvents alone.       *)
EXTENDS Watcher, TLC
=============================================================================
