---------------------------- MODULE PolicyContract ----------------------------
(***************************************************************************)
(* What the operator promises about one SREPolicy to someone who sees only *)
(* the API server's object and whether a check cycle is running: cycles    *)
(* run for policies the finalizer holds, a policy is released only between *)
(* cycles, and a recorded pause is respected at once.  There is no cache,  *)
(* no queue, no conflict and no crash here; Reconciler implements this     *)
(* specification in spite of all four.                                     *)
(***************************************************************************)
VARIABLES
    object,    \* "none": no object; "open": one without the operator's
               \* finalizer; "held": one that carries it
    leaving,   \* is the object under deletion?
    cycle,     \* is a check cycle running?
    quiet      \* is a pause recorded in the status and in force?

vars == <<object, leaving, cycle, quiet>>

Init ==
    /\ object = "none"
    /\ leaving = FALSE
    /\ cycle = FALSE
    /\ quiet = FALSE

\* A user creates the policy; a pause of the one before it is forgotten.
Admit ==
    /\ object = "none"
    /\ object' = "open"
    /\ leaving' = FALSE
    /\ quiet' = FALSE
    /\ UNCHANGED cycle

\* The operator takes hold of it, before anything else and never too late.
Hold ==
    /\ object = "open"
    /\ ~leaving
    /\ object' = "held"
    /\ UNCHANGED <<leaving, cycle, quiet>>

\* A user asks for its deletion, which takes effect when nobody holds it.
Leave ==
    /\ object # "none"
    /\ ~leaving
    /\ \/ /\ leaving' = TRUE
          /\ UNCHANGED object
       \/ /\ object = "open"
          /\ object' = "none"
          /\ UNCHANGED leaving
    /\ UNCHANGED <<cycle, quiet>>

\* The last of the other holders of an object under deletion lets go.
Vanish ==
    /\ object = "open"
    /\ leaving
    /\ object' = "none"
    /\ leaving' = FALSE
    /\ UNCHANGED <<cycle, quiet>>

\* The operator lets go, between cycles; the object may be gone with that.
Release ==
    /\ object = "held"
    /\ leaving
    /\ ~cycle
    /\ \/ object' = "open" /\ UNCHANGED leaving
       \/ object' = "none" /\ leaving' = FALSE
    /\ UNCHANGED <<cycle, quiet>>

StartCycle ==
    /\ object = "held"
    /\ ~quiet
    /\ ~cycle
    /\ cycle' = TRUE
    /\ UNCHANGED <<object, leaving, quiet>>

\* A cycle ends, with its status written or not.
EndCycle ==
    /\ cycle
    /\ cycle' = FALSE
    /\ UNCHANGED <<object, leaving, quiet>>

\* The status says Paused from now on.
Acknowledge ==
    /\ object = "held"
    /\ ~cycle
    /\ quiet' = TRUE
    /\ UNCHANGED <<object, leaving, cycle>>

\* A user lifts the pause.
Lift ==
    /\ object # "none"
    /\ quiet' = FALSE
    /\ UNCHANGED <<object, leaving, cycle>>

Next ==
    \/ Admit \/ Hold \/ Leave \/ Vanish \/ Release
    \/ StartCycle \/ EndCycle \/ Acknowledge \/ Lift

Spec == Init /\ [][Next]_vars
=============================================================================
