------------------------------ MODULE Reconciler ------------------------------
(***************************************************************************)
(* One SREPolicy, the API server that stores it, the informer cache the    *)
(* operator reads it from, and the reconciler that drives it               *)
(* (internal/controller/srepolicy_controller.go).                          *)
(*                                                                         *)
(* The reconciler never sees the API server's copy of the policy: it reads *)
(* the cache, which lags behind by the watch events not delivered yet, and *)
(* writes back against the resourceVersion it read.  Its work queue holds  *)
(* the policy at most once, is filled by watch events and by the requeue   *)
(* timer, and survives nothing: a crash of the process empties it.         *)
(*                                                                         *)
(* Users create, edit, pause and delete the policy at any moment, the      *)
(* network loses writes and replies, and the process may die in the middle *)
(* of a cycle.                                                             *)
(*                                                                         *)
(* Left out: what a check cycle finds and does (only its verdict is kept), *)
(* status fields other than phase and observedGeneration, and a user who   *)
(* strips the operator's own finalizer by hand.                            *)
(***************************************************************************)
EXTENDS Integers, Sequences

CONSTANTS
    MaxEdits,    \* bound on the steps users take
    MaxLag,      \* bound on undelivered watch events when a user acts
    MaxFaults,   \* bound on lost writes, lost replies, failed reads and crashes
    Wirings      \* may the reconciler have been built with a telemetry Provider?

ASSUME BoundsAssumption ==
    /\ MaxEdits \in Nat
    /\ MaxLag \in Nat \ {0}
    /\ MaxFaults \in Nat

ASSUME WiringsAssumption == Wirings \subseteq BOOLEAN /\ Wirings # {}

VARIABLES
    api,      \* the version of the policy the API server holds
    watch,    \* versions committed since the informer last caught up, oldest first
    cache,    \* the version in the informer cache
    queued,   \* is the policy in the work queue (or marked dirty while processed)?
    armed,    \* is a delayed add (RequeueAfter or error backoff) outstanding?
    pc,       \* where the reconciler is in Reconcile
    snap,     \* Reconcile's local copy of the policy
    fresh,    \* is snap's resourceVersion still the API server's?
    wired,    \* was the reconciler given a telemetry Provider?
    edits,    \* user steps so far
    faults,   \* faults so far
    quiet     \* history: a Paused status was recorded, and no user lifted the pause

store  == <<api, watch>>
local  == <<snap, fresh>>
vars == <<api, watch, cache, queued, armed, pc, snap, fresh,
          wired, edits, faults, quiet>>

-----------------------------------------------------------------------------
(* The policy object.                                                      *)

Verdicts == {"Active", "Degraded"}
Phases   == Verdicts \cup {"", "Paused"}

\* What the reconciler reads or writes of an SREPolicy.  `foreign' says that
\* some other controller's finalizer is on the object too.
Policy == [exists: BOOLEAN, uid: Nat, gen: Nat, paused: BOOLEAN,
           deleting: BOOLEAN, fin: BOOLEAN, foreign: BOOLEAN,
           phase: Phases, obsGen: Nat]

\* No object under the policy's name; uid is that of the last one.
Absent(uid) ==
    [exists |-> FALSE, uid |-> uid, gen |-> 0, paused |-> FALSE,
     deleting |-> FALSE, fin |-> FALSE, foreign |-> FALSE,
     phase |-> "", obsGen |-> 0]

\* The API server removes a deleted object when its last finalizer goes.
Settled(v) ==
    IF v.deleting /\ ~v.fin /\ ~v.foreign THEN Absent(v.uid) ELSE v

PCs == {"down", "idle", "deletion", "finalizer", "paused", "tracer", "scan"}

-----------------------------------------------------------------------------
(* The API server and its users.                                           *)

\* The API server takes a write only at the resourceVersion it was read at.
Accepts == fresh

\* Commit v; every watcher will be told, in order.
Store(v) ==
    /\ api' = v
    /\ watch' = Append(watch, v)

UserWrites(v) ==
    /\ edits < MaxEdits
    /\ Len(watch) < MaxLag
    /\ Store(v)
    /\ edits' = edits + 1
    /\ fresh' = FALSE
    /\ UNCHANGED <<cache, queued, armed, pc, snap, wired, faults>>

Create ==
    /\ ~api.exists
    /\ quiet' = FALSE
    /\ \E p, f \in BOOLEAN :
          UserWrites([Absent(api.uid + 1) EXCEPT
                        !.exists = TRUE, !.gen = 1, !.paused = p, !.foreign = f])

\* A change of the spec: the pause switch, or any other field.
Edit ==
    /\ api.exists
    /\ \E p \in BOOLEAN :
          /\ quiet' = (quiet /\ p)
          /\ UserWrites([api EXCEPT !.gen = @ + 1, !.paused = p])

\* A change of metadata only: a label, an annotation.
Touch ==
    /\ api.exists
    /\ UNCHANGED quiet
    /\ UserWrites(api)

\* kubectl delete: with a finalizer on it, the object only becomes "deleting".
Delete ==
    /\ api.exists
    /\ ~api.deleting
    /\ UNCHANGED quiet
    /\ UserWrites(Settled([api EXCEPT !.gen = @ + 1, !.deleting = TRUE]))

\* Another controller lets go of the object.
DropForeign ==
    /\ api.exists
    /\ api.foreign
    /\ UNCHANGED quiet
    /\ UserWrites(Settled([api EXCEPT !.foreign = FALSE]))

-----------------------------------------------------------------------------
(* The informer and the work queue (controller-runtime).                   *)

\* The informer takes the next event: the cache moves on and, since
\* SetupWithManager filters nothing, the policy is enqueued whatever changed -
\* after the reconciler's own status writes too.
DeliverEvent ==
    /\ pc # "down"
    /\ watch # <<>>
    /\ cache' = Head(watch)
    /\ watch' = Tail(watch)
    /\ queued' = TRUE
    /\ UNCHANGED <<api, armed, pc, snap, fresh, wired, edits, faults, quiet>>

TimerFires ==
    /\ pc # "down"
    /\ armed
    /\ armed' = FALSE
    /\ queued' = TRUE
    /\ UNCHANGED <<store, cache, pc, local, wired, edits, faults, quiet>>

-----------------------------------------------------------------------------
(* Reconcile.                                                              *)

\* Mutant: the finalizer is not insisted on before a cycle.
RouteUnguarded(v) ==
    CASE ~v.exists                 -> "idle"
      [] v.exists /\ v.deleting    -> IF v.fin THEN "deletion" ELSE "idle"
      [] v.exists /\ ~v.deleting   -> IF v.paused THEN "paused" ELSE "tracer"

\* Mutant: the pause is looked at before the deletion.
RoutePauseFirst(v) ==
    CASE ~v.exists                          -> "idle"
      [] v.exists /\ v.fin /\ v.paused      -> "paused"
      [] v.exists /\ ~(v.fin /\ v.paused) ->
            IF v.deleting THEN (IF v.fin THEN "deletion" ELSE "idle")
            ELSE IF v.fin THEN "tracer" ELSE "finalizer"

\* Mutant: a paused policy is skipped without a word in its status.
RoutePauseSilently(v) ==
    CASE ~v.exists                          -> "idle"
      [] v.exists /\ v.deleting             -> IF v.fin THEN "deletion" ELSE "idle"
      [] v.exists /\ ~v.deleting /\ ~v.fin  -> "finalizer"
      [] v.exists /\ ~v.deleting /\ v.fin   -> IF v.paused THEN "idle" ELSE "tracer"

\* The early returns at the top of Reconcile, in their order.
Route(v) ==
    CASE ~v.exists                        -> "idle"
      [] v.exists /\ v.deleting           -> IF v.fin THEN "deletion" ELSE "idle"
      [] v.exists /\ ~v.deleting /\ ~v.fin -> "finalizer"
      [] v.exists /\ ~v.deleting /\ v.fin  -> IF v.paused THEN "paused" ELSE "tracer"

\* The worker takes the policy from the queue and Reconcile reads it from the
\* cache.  Nothing to do - gone, or deleted and already released - ends the
\* call without a requeue.
Begin ==
    /\ pc = "idle"
    /\ queued
    /\ queued' = FALSE
    /\ pc' = Route(cache)
    /\ IF Route(cache) = "idle"
         THEN UNCHANGED local
         ELSE /\ snap' = cache
              /\ fresh' = (watch = <<>>)
    /\ UNCHANGED <<store, cache, armed, wired, edits, faults, quiet>>

\* Mutant: the requeue is left to the watch.
FinishForGood(rearm) ==
    /\ pc' = "idle"
    /\ armed' = armed
    /\ snap' = Absent(0)
    /\ fresh' = FALSE
    /\ UNCHANGED <<cache, queued, wired, edits>>

\* Reconcile returns; rearm says whether it asks for another call, by an
\* error, by Requeue or by RequeueAfter.
Finish(rearm) ==
    /\ pc' = "idle"
    /\ armed' = (armed \/ rearm)
    /\ snap' = Absent(0)
    /\ fresh' = FALSE
    /\ UNCHANGED <<cache, queued, wired, edits>>

\* The Get fails with something other than NotFound.
GetFails ==
    /\ pc = "idle"
    /\ queued
    /\ queued' = FALSE
    /\ faults < MaxFaults
    /\ faults' = faults + 1
    /\ armed' = TRUE
    /\ UNCHANGED <<store, cache, pc, local, wired, edits, quiet>>

\* A write of the object v that takes effect.  One that changes nothing is
\* not a new version, and no watcher hears of it.
Commit(v, changed) ==
    IF changed THEN Store(v) ELSE UNCHANGED store

\* Mutant: a conflict is retried, at the resourceVersion the API server has now.
UpdateForced(v, changed, rearm, done) ==
    /\ Commit(v, changed)
    /\ quiet' = done
    /\ Finish(rearm)
    /\ UNCHANGED faults

\* One Update call: it is committed, or refused as a conflict, or it fails on
\* the way - before it reaches the API server, or after, its reply lost.
\* `done' is what the history records of a committed write.
Update(v, changed, rearm, done) ==
    \/ /\ Accepts
       /\ Commit(v, changed)
       /\ quiet' = done
       /\ Finish(rearm)
       /\ UNCHANGED faults
    \/ /\ ~Accepts
       /\ Finish(TRUE)
       /\ UNCHANGED <<store, faults, quiet>>
    \/ /\ faults < MaxFaults
       /\ faults' = faults + 1
       /\ Finish(TRUE)
       /\ \/ UNCHANGED <<store, quiet>>
          \/ /\ Accepts
             /\ Commit(v, changed)
             /\ quiet' = done

\* handleDeletion: take the finalizer off; the object is released.
HandleDeletion ==
    /\ pc = "deletion"
    /\ Update(Settled([snap EXCEPT !.fin = FALSE]), TRUE, FALSE, quiet)

\* Mutant: the finalizer is put on the local copy only.
AddFinalizerLocally ==
    /\ pc = "finalizer"
    /\ snap' = [snap EXCEPT !.fin = TRUE]
    /\ pc' = "tracer"
    /\ UNCHANGED <<store, cache, queued, armed, fresh, wired, edits, faults, quiet>>

\* Put the finalizer on, and come back later for the rest.
AddFinalizer ==
    /\ pc = "finalizer"
    /\ Update([snap EXCEPT !.fin = TRUE], TRUE, TRUE, quiet)

\* Mutant: a paused policy gets a new status.
PausedStatusAnew(v) == [v EXCEPT !.phase = "Paused", !.obsGen = 0]

\* Mutant: the generation counts as observed although nothing was checked.
PausedStatusObserved(v) == [v EXCEPT !.phase = "Paused", !.obsGen = v.gen]

\* The status a paused policy gets.
PausedStatus(v) == [v EXCEPT !.phase = "Paused"]

PublishPaused ==
    /\ pc = "paused"
    /\ Update(PausedStatus(snap), PausedStatus(snap) # snap, TRUE, TRUE)

\* r.Telemetry.Tracer(): on a nil Provider it panics, and nothing recovers.
OpenTracer ==
    /\ pc = "tracer"
    /\ wired
    /\ pc' = "scan"
    /\ UNCHANGED <<store, cache, queued, armed, local, wired, edits, faults, quiet>>

\* The status a check cycle ends with.
ScanStatus(v, verdict) == [v EXCEPT !.phase = verdict, !.obsGen = v.gen]

\* The check cycle is over and its status is written.  lastScanTime has a
\* resolution of one second: a cycle that finds the same as the one before may
\* or may not change the object.
PublishScan ==
    /\ pc = "scan"
    /\ \E verdict \in Verdicts, restamped \in BOOLEAN :
          LET v == ScanStatus(snap, verdict)
          IN  Update(v, restamped \/ v # snap, TRUE, quiet)

-----------------------------------------------------------------------------
(* The process.                                                            *)

\* The process dies: queue, timers and the call in progress are gone.
Die ==
    /\ pc' = "down"
    /\ queued' = FALSE
    /\ armed' = FALSE
    /\ snap' = Absent(0)
    /\ fresh' = FALSE
    /\ UNCHANGED <<store, cache, wired, edits, quiet>>

Panic ==
    /\ pc = "tracer"
    /\ ~wired
    /\ Die
    /\ UNCHANGED faults

Crash ==
    /\ pc # "down"
    /\ faults < MaxFaults
    /\ faults' = faults + 1
    /\ Die

\* The pod is restarted: the informer lists what the API server has now, and
\* an object in the list is an event like any other.
Restart ==
    /\ pc = "down"
    /\ pc' = "idle"
    /\ cache' = api
    /\ watch' = <<>>
    /\ queued' = api.exists
    /\ UNCHANGED <<api, armed, local, wired, edits, faults, quiet>>

-----------------------------------------------------------------------------
Init ==
    /\ api = Absent(0)
    /\ watch = <<>>
    /\ cache = Absent(0)
    /\ queued = FALSE
    /\ armed = FALSE
    /\ pc = "idle"
    /\ snap = Absent(0)
    /\ fresh = FALSE
    /\ wired \in Wirings
    /\ edits = 0
    /\ faults = 0
    /\ quiet = FALSE

User == Create \/ Edit \/ Touch \/ Delete \/ DropForeign

Worker ==
    \/ Begin \/ GetFails
    \/ HandleDeletion \/ AddFinalizer \/ PublishPaused
    \/ OpenTracer \/ Panic \/ PublishScan

Next == User \/ DeliverEvent \/ TimerFires \/ Worker \/ Crash \/ Restart

Spec == Init /\ [][Next]_vars

\* The queue's worker, its timers, the informer and the kubelet keep going;
\* users and faults owe nothing.
Fairness ==
    /\ WF_vars(Worker)
    /\ WF_vars(DeliverEvent)
    /\ WF_vars(TimerFires)
    /\ WF_vars(Restart)

FairSpec == Spec /\ Fairness

-----------------------------------------------------------------------------
(* Properties.                                                             *)

\* Every variable stays in its type, and user steps and faults in their bounds.
TypeOK ==
    /\ api \in Policy
    /\ watch \in Seq(Policy)
    /\ cache \in Policy
    /\ queued \in BOOLEAN
    /\ armed \in BOOLEAN
    /\ pc \in PCs
    /\ snap \in Policy
    /\ fresh \in BOOLEAN
    /\ wired \in BOOLEAN
    /\ edits \in 0..MaxEdits
    /\ faults \in 0..MaxFaults
    /\ quiet \in BOOLEAN

\* "Finalizer prevents the CR from being deleted while remediations are in
\* progress" (docs/production-guide.md:22): for as long as a check cycle runs,
\* however stale the copy it runs on, the policy it runs for still exists, is
\* the same object and carries the operator's finalizer.
FinalizerHeldDuringScan ==
    pc = "scan" => api.exists /\ api.uid = snap.uid /\ api.fin

\* Once the status says Paused, no check cycle is running and none starts
\* until a user lifts the pause - although the reconciler decides on a cached
\* copy, and may have begun a cycle before it heard of the pause.
QuietAfterPause == quiet => pc # "scan"

\* A status that claims to have observed the current generation was computed
\* from it: the policy was not paused, and the phase is a cycle's verdict.
\* A status never claims a generation that does not exist.
StatusSpeaksOfItsGeneration ==
    api.exists =>
        /\ api.obsGen <= api.gen
        /\ api.obsGen = api.gen => ~api.paused /\ api.phase \in Verdicts

\* While the reconciler is idle, a policy that is not finished with is on its
\* way back to it: in the queue, on a timer or in an undelivered event.
\* Nothing else would ever wake the reconciler again.
NeverForgotten ==
    (pc = "idle" /\ api.exists /\ (api.deleting => api.fin))
        => queued \/ armed \/ watch # <<>>

\* The status of one object never goes back to an older generation, whatever
\* cycles overlap with edits, conflicts, lost replies and restarts.
ObservedNeverGoesBack ==
    [][(api.exists /\ api'.exists /\ api.uid = api'.uid)
            => api'.obsGen >= api.obsGen]_vars

\* A policy under deletion is released by the operator: its finalizer does not
\* hold the object forever.
DeletionReleased == (api.exists /\ api.deleting) ~> ~api.fin

Active == api.exists /\ ~api.deleting /\ ~api.paused

\* A policy that is neither paused nor deleted is checked: a cycle on its
\* current generation ends and is recorded (README.md:11, automated checks).
EveryPolicyScanned ==
    Active ~> (~Active \/ api.obsGen = api.gen)

\* A pause is acknowledged in the status.
PauseAcknowledged ==
    (api.exists /\ ~api.deleting /\ api.paused)
        ~> (~api.exists \/ api.deleting \/ ~api.paused \/ api.phase = "Paused")

\* "Calls per reconcile cycle (default: every 60 seconds)"
\* (docs/production-guide.md:45): a policy whose current generation has been
\* checked is checked again only when its timer has fired.
CyclesAreTimed ==
    [][Begin /\ Route(cache) = "tracer" /\ cache.obsGen = cache.gen => ~armed]_vars

-----------------------------------------------------------------------------
(* The inductive invariant behind the safety properties.                   *)

\* Every version of the policy someone still acts on.
Views == {api, cache, snap} \cup {watch[i] : i \in 1..Len(watch)}

\* The events not delivered yet lead from the cache to the API server's copy.
CacheCatchesUp ==
    IF watch = <<>> THEN cache = api ELSE watch[Len(watch)] = api

\* A resourceVersion that is still good was read from a cache with no lag.
FreshIsCurrent == fresh => watch = <<>> /\ snap = api

\* Reconcile is where the early returns sent the copy it works on.
RoutedBySnap ==
    /\ pc \in {"deletion", "finalizer", "paused", "tracer"} => Route(snap) = pc
    /\ pc = "scan" => Route(snap) = "tracer"

\* Whoever sees the policy held by the finalizer and not under deletion, in
\* however old a version, is right about its being held.
HeldInAnyView ==
    \A v \in Views :
        (v.exists /\ v.fin /\ ~v.deleting)
            => api.exists /\ api.fin /\ api.uid = v.uid

\* Once a pause is recorded no version without it is left to be acted on.
PausedInEveryView ==
    quiet => \A v \in Views : (v.exists /\ ~v.deleting) => v.paused

\* The above, with the properties it makes inductive.
IInv ==
    /\ TypeOK
    /\ CacheCatchesUp
    /\ FreshIsCurrent
    /\ RoutedBySnap
    /\ HeldInAnyView
    /\ PausedInEveryView
    /\ StatusSpeaksOfItsGeneration
    /\ NeverForgotten

-----------------------------------------------------------------------------
(* The contract with the policy's owner, and that Reconciler implements it. *)

\* A version of the policy as the contract sees it.
Standing(v) ==
    IF ~v.exists THEN "none" ELSE IF v.fin THEN "held" ELSE "open"

Contract == INSTANCE PolicyContract WITH
    object  <- Standing(api),
    leaving <- api.deleting,
    cycle   <- pc = "scan"

\* Seen from the API server alone, the operator behaves as if it read the
\* policy there, at the moment it acts: neither the cache's lag nor conflicts,
\* lost replies and crashes show.
ImplementsContract == Contract!Spec

=============================================================================
