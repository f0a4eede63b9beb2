----------------------------- MODULE MCReconciler -----------------------------
(* Instances of Reconciler for TLC.                                        *)
EXTENDS Reconciler

\* main.go leaves the Provider out; a corrected main.go would put one in.
AsShipped == {FALSE}
Corrected == {TRUE}
Either    == BOOLEAN
=============================================================================
