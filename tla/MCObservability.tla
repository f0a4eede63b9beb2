---------------------------- MODULE MCObservability ----------------------------
(* Instances of Observability for TLC.                                     *)
EXTENDS Observability
=============================================================================
