----------------------------- MODULE MCPromClient -----------------------------
(* Instances of PromClient for TLC.                                        *)
EXTENDS PromClient
=============================================================================
