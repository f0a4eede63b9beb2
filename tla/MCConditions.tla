----------------------------- MODULE MCConditions -----------------------------
(* Instances of Conditions for TLC.                                        *)
EXTENDS Conditions, TLC

CONSTANTS p, q, e, f   \* two policies and two endpoints

Symmetry == Permutations({p, q}) \cup Permutations({e, f})
=============================================================================
