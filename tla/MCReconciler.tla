---------------------------- MODULE MCReconciler ----------------------------
(* The model of Reconciler that TLC checks.                                *)
EXTENDS MCInputs

CONSTANTS c1, c2, w1, w2

\* Others publish the same address, or another one for the same name.
MCEdited == {ARecord("a", "target")}
MCFirst == {ARecord("a", "other")}

Goroutines == Permutations(Callers)
=============================================================================
