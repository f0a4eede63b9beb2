--------------------------- MODULE ReconcilerProofs ---------------------------
(***************************************************************************)
(* The safety of Reconciler, for any bounds and either wiring.             *)
(*                                                                         *)
(* Everything a worker does, it does on a copy of the policy.  What makes  *)
(* that safe is a statement about all copies at once: the one in the       *)
(* cache, those on their way to it, and the one Reconcile holds (Views in  *)
(* Reconciler).  The proof is the preservation of that statement; the two  *)
(* lemmas on UserWrites and Update say what one write does to the views,   *)
(* so that no action has to look into the watch stream again.              *)
(***************************************************************************)
EXTENDS Reconciler, TLAPS

-----------------------------------------------------------------------------
(* The policy object.                                                      *)

\* No object is a policy.
LEMMA AbsentType ==
    ASSUME NEW uid \in Nat
    PROVE  Absent(uid) \in Policy
BY DEF Absent, Policy, Phases

\* What the API server keeps of a policy is one.
LEMMA SettledType ==
    ASSUME NEW v \in Policy
    PROVE  Settled(v) \in Policy
<1>1. v.uid \in Nat
  BY DEF Policy
<1>2. QED
  BY <1>1, AbsentType DEF Settled

-----------------------------------------------------------------------------
(* The watch stream.                                                       *)

\* A committed version is the newest event; the others stay as they were.
LEMMA StoreViews ==
    ASSUME watch \in Seq(Policy), NEW v \in Policy, Store(v)
    PROVE  /\ api' = v
           /\ watch' \in Seq(Policy)
           /\ watch' # <<>>
           /\ watch'[Len(watch')] = v
           /\ \A i \in 1..Len(watch') :
                 watch'[i] = v \/ \E j \in 1..Len(watch) : watch'[i] = watch[j]
BY DEF Store

\* What one step of a user does to the copies of the policy.
LEMMA UserEffect ==
    ASSUME TypeOK, CacheCatchesUp, FreshIsCurrent,
           NEW v \in Policy, UserWrites(v), quiet' \in BOOLEAN
    PROVE  /\ TypeOK' /\ CacheCatchesUp' /\ FreshIsCurrent'
           /\ api' = v
           /\ watch' # <<>>
           /\ Views' \subseteq Views \cup {v}
           /\ UNCHANGED <<pc, snap>>
<1>1. /\ Store(v) /\ fresh' = FALSE /\ edits' = edits + 1 /\ edits < MaxEdits
      /\ UNCHANGED <<cache, queued, armed, pc, snap, wired, faults>>
  BY DEF UserWrites
<1>2. watch \in Seq(Policy) /\ edits \in 0..MaxEdits
  BY DEF TypeOK
<1>3. /\ api' = v
      /\ watch' \in Seq(Policy)
      /\ watch' # <<>>
      /\ watch'[Len(watch')] = v
      /\ \A i \in 1..Len(watch') :
            watch'[i] = v \/ \E j \in 1..Len(watch) : watch'[i] = watch[j]
  BY <1>1, <1>2, StoreViews
<1>4. edits' \in 0..MaxEdits
  BY <1>1, <1>2, BoundsAssumption
<1>5. TypeOK'
  BY <1>1, <1>3, <1>4 DEF TypeOK
<1>6. Views' \subseteq Views \cup {v}
  BY <1>1, <1>3 DEF Views
<1>7. QED
  BY <1>1, <1>3, <1>5, <1>6 DEF CacheCatchesUp, FreshIsCurrent

\* What one Update call does to them: it is committed, on the API server's own
\* copy, or it leaves the API server alone.
LEMMA UpdateEffect ==
    ASSUME TypeOK, CacheCatchesUp, FreshIsCurrent,
           NEW v \in Policy, NEW changed \in BOOLEAN,
           NEW rearm \in BOOLEAN, NEW done \in BOOLEAN,
           ~changed => v = snap,
           Update(v, changed, rearm, done)
    PROVE  /\ TypeOK' /\ CacheCatchesUp' /\ FreshIsCurrent'
           /\ pc' = "idle" /\ snap' = Absent(0)
           /\ (rearm => armed')
           /\ \/ /\ snap = api
                 /\ api' = v
                 /\ quiet' = done
                 /\ Views' \subseteq {api, v, Absent(0)}
              \/ /\ UNCHANGED <<api, watch, quiet>>
                 /\ armed'
                 /\ Views' \subseteq Views \cup {Absent(0)}
<1>0. Finish(rearm) \/ Finish(TRUE)
  BY DEF Update
<1>1. /\ pc' = "idle" /\ snap' = Absent(0) /\ fresh' = FALSE
      /\ (rearm => armed') /\ armed' \in BOOLEAN
      /\ cache' = cache /\ queued' = queued /\ wired' = wired /\ edits' = edits
  BY <1>0 DEF Finish, TypeOK
<1>f. faults' \in 0..MaxFaults
  <2>1. faults' = faults \/ (faults < MaxFaults /\ faults' = faults + 1)
    BY DEF Update
  <2>2. QED
    BY <2>1, BoundsAssumption DEF TypeOK
<1>2. CASE Accepts /\ Commit(v, changed) /\ quiet' = done
  <2>1. watch = <<>> /\ snap = api /\ cache = api
    BY <1>2 DEF Accepts, FreshIsCurrent, CacheCatchesUp
  <2>2. CASE changed
    <3>1. /\ api' = v
          /\ watch' \in Seq(Policy) /\ watch' # <<>>
          /\ watch'[Len(watch')] = v
          /\ \A i \in 1..Len(watch') : watch'[i] = v
      BY <1>2, <2>1, <2>2, StoreViews DEF TypeOK, Commit
    <3>2. TypeOK'
      BY <1>1, <1>2, <1>f, <3>1, AbsentType DEF TypeOK, PCs
    <3>3. Views' \subseteq {api, v, Absent(0)}
      BY <1>1, <2>1, <3>1 DEF Views
    <3>4. QED
      BY <1>1, <1>2, <2>1, <3>1, <3>2, <3>3 DEF CacheCatchesUp, FreshIsCurrent
  <2>3. CASE ~changed
    <3>1. UNCHANGED <<api, watch>> /\ v = api
      BY <1>2, <2>1, <2>3 DEF Commit, store
    <3>2. TypeOK'
      BY <1>1, <1>2, <1>f, <3>1, AbsentType DEF TypeOK, PCs
    <3>3. Views' \subseteq {api, v, Absent(0)}
      BY <1>1, <2>1, <3>1 DEF Views
    <3>4. QED
      BY <1>1, <1>2, <2>1, <3>1, <3>2, <3>3 DEF CacheCatchesUp, FreshIsCurrent
  <2>4. QED
    BY <2>2, <2>3
<1>3. CASE UNCHANGED <<api, watch, quiet>> /\ armed'
  <2>1. TypeOK'
    BY <1>1, <1>f, <1>3, AbsentType DEF TypeOK, PCs
  <2>2. Views' \subseteq Views \cup {Absent(0)}
    BY <1>1, <1>3 DEF Views
  <2>3. QED
    BY <1>1, <1>3, <2>1, <2>2 DEF CacheCatchesUp, FreshIsCurrent
<1>4. QED
  BY <1>2, <1>3 DEF Update, Finish, store
-----------------------------------------------------------------------------
(* One write preserves the invariant, if it meets these conditions.        *)

\* What HeldInAnyView asks of one version, and of what replaces it.
Held(v) == v.exists /\ v.fin /\ ~v.deleting
StillHeld(old, new) ==
    old.exists /\ old.fin => new.exists /\ new.fin /\ new.uid = old.uid

\* What StatusSpeaksOfItsGeneration asks of one version.
Truthful(v) ==
    v.exists =>
        /\ v.obsGen <= v.gen
        /\ v.obsGen = v.gen => ~v.paused /\ v.phase \in Verdicts

\* A step of a user keeps IInv if it leaves the finalizer on, takes back a
\* recorded pause when it unpauses, and leaves the status truthful.
LEMMA UserSafe ==
    ASSUME IInv, NEW v \in Policy, UserWrites(v), quiet' \in BOOLEAN,
           StillHeld(api, v),
           quiet' => quiet /\ (v.exists /\ ~v.deleting => v.paused),
           Truthful(v)
    PROVE  IInv'
<1>1. /\ TypeOK' /\ CacheCatchesUp' /\ FreshIsCurrent'
      /\ api' = v
      /\ watch' # <<>>
      /\ Views' \subseteq Views \cup {v}
      /\ UNCHANGED <<pc, snap>>
  BY UserEffect DEF IInv
<1>2. RoutedBySnap'
  BY <1>1 DEF IInv, RoutedBySnap
<1>3. HeldInAnyView'
  <2>1. SUFFICES ASSUME NEW u \in Views', Held(u)
                 PROVE  v.exists /\ v.fin /\ v.uid = u.uid
    BY <1>1 DEF HeldInAnyView, Held
  <2>2. CASE u = v
    BY <2>1, <2>2 DEF Held
  <2>3. CASE u \in Views
    BY <2>1, <2>3 DEF IInv, HeldInAnyView, Held, StillHeld
  <2>4. QED
    BY <1>1, <2>2, <2>3
<1>4. PausedInEveryView'
  BY <1>1 DEF IInv, PausedInEveryView
<1>5. StatusSpeaksOfItsGeneration'
  BY <1>1 DEF StatusSpeaksOfItsGeneration, Truthful
<1>6. NeverForgotten'
  BY <1>1 DEF NeverForgotten
<1>7. QED
  BY <1>1, <1>2, <1>3, <1>4, <1>5, <1>6 DEF IInv

\* An Update keeps IInv if, on the API server's own copy, it takes a finalizer
\* only from an object under deletion, records a pause only of a paused policy,
\* leaves the status truthful, and asks for another call unless it is done.
LEMMA UpdateSafe ==
    ASSUME IInv,
           NEW v \in Policy, NEW changed \in BOOLEAN,
           NEW rearm \in BOOLEAN, NEW done \in BOOLEAN,
           ~changed => v = snap,
           Update(v, changed, rearm, done),
           Held(snap) => v.exists /\ v.fin /\ v.uid = snap.uid,
           done /\ snap = api =>
               /\ snap.exists /\ ~snap.deleting => snap.paused
               /\ v.exists /\ ~v.deleting => v.paused,
           Truthful(snap) => Truthful(v),
           ~rearm => (v.exists => v.deleting /\ ~v.fin)
    PROVE  IInv'
<1>1. /\ TypeOK' /\ CacheCatchesUp' /\ FreshIsCurrent'
      /\ pc' = "idle" /\ snap' = Absent(0)
      /\ (rearm => armed')
      /\ \/ /\ snap = api
            /\ api' = v
            /\ quiet' = done
            /\ Views' \subseteq {api, v, Absent(0)}
         \/ /\ UNCHANGED <<api, watch, quiet>>
            /\ armed'
            /\ Views' \subseteq Views \cup {Absent(0)}
  BY UpdateEffect DEF IInv
<1>2. ~Absent(0).exists
  BY DEF Absent
<1>3. RoutedBySnap'
  BY <1>1 DEF RoutedBySnap
<1>4. CASE /\ snap = api
           /\ api' = v
           /\ quiet' = done
           /\ Views' \subseteq {api, v, Absent(0)}
  <2>1. HeldInAnyView'
    BY <1>2, <1>4 DEF HeldInAnyView, Held
  <2>2. PausedInEveryView'
    BY <1>2, <1>4 DEF PausedInEveryView
  <2>3. StatusSpeaksOfItsGeneration'
    BY <1>4 DEF IInv, StatusSpeaksOfItsGeneration, Truthful
  <2>4. NeverForgotten'
    BY <1>1, <1>4 DEF NeverForgotten
  <2>5. QED
    BY <1>1, <1>3, <2>1, <2>2, <2>3, <2>4 DEF IInv
<1>5. CASE /\ UNCHANGED <<api, watch, quiet>>
           /\ armed'
           /\ Views' \subseteq Views \cup {Absent(0)}
  <2>1. HeldInAnyView'
    BY <1>2, <1>5 DEF IInv, HeldInAnyView
  <2>2. PausedInEveryView'
    BY <1>2, <1>5 DEF IInv, PausedInEveryView
  <2>3. StatusSpeaksOfItsGeneration'
    BY <1>5 DEF IInv, StatusSpeaksOfItsGeneration
  <2>4. NeverForgotten'
    BY <1>5 DEF NeverForgotten
  <2>5. QED
    BY <1>1, <1>3, <2>1, <2>2, <2>3, <2>4 DEF IInv
<1>6. QED
  BY <1>1, <1>4, <1>5

-----------------------------------------------------------------------------
(* The invariant is inductive.                                             *)

\* The invariant holds at the start.
LEMMA InitInvariant == Init => IInv
<1> SUFFICES ASSUME Init PROVE IInv
  OBVIOUS
<1>1. Absent(0) \in Policy
  BY AbsentType
<1>2. TypeOK
  <2>1. wired \in BOOLEAN
    BY WiringsAssumption DEF Init
  <2>2. edits \in 0..MaxEdits /\ faults \in 0..MaxFaults
    BY BoundsAssumption DEF Init
  <2>3. watch \in Seq(Policy) /\ pc \in PCs
    BY DEF Init, PCs
  <2>4. QED
    BY <1>1, <2>1, <2>2, <2>3 DEF Init, TypeOK
<1>3. /\ ~Absent(0).exists
      /\ Views = {Absent(0)}
  <2>1. ~Absent(0).exists
    BY DEF Absent
  <2>2. api = Absent(0) /\ cache = Absent(0) /\ snap = Absent(0) /\ Len(watch) = 0
    BY DEF Init
  <2>3. {watch[i] : i \in 1..Len(watch)} = {}
    BY <2>2
  <2>4. QED
    BY <2>1, <2>2, <2>3 DEF Views
<1>4. QED
  BY <1>2, <1>3 DEF Init, IInv, CacheCatchesUp, FreshIsCurrent, RoutedBySnap,
     HeldInAnyView, PausedInEveryView, StatusSpeaksOfItsGeneration, NeverForgotten

\* Create keeps the invariant.
LEMMA CreateInvariant == IInv /\ Create => IInv'
<1> SUFFICES ASSUME IInv, Create PROVE IInv'
  OBVIOUS
<1>1. PICK p \in BOOLEAN, f \in BOOLEAN :
          UserWrites([Absent(api.uid + 1) EXCEPT
                        !.exists = TRUE, !.gen = 1, !.paused = p, !.foreign = f])
  BY DEF Create
<1> DEFINE v == [Absent(api.uid + 1) EXCEPT
                        !.exists = TRUE, !.gen = 1, !.paused = p, !.foreign = f]
<1>2. api.uid + 1 \in Nat
  BY DEF IInv, TypeOK, Policy
<1>3. /\ v \in Policy /\ v.gen = 1 /\ v.obsGen = 0
  BY <1>2, AbsentType DEF Absent, Policy
<1>4. Truthful(v)
  BY <1>3 DEF Truthful
<1>5. StillHeld(api, v) /\ ~quiet'
  BY DEF Create, StillHeld
<1> HIDE DEF v
<1>6. UserWrites(v)
  BY <1>1 DEF v
<1>7. QED
  BY <1>3, <1>4, <1>5, <1>6, UserSafe DEF Create

\* Edit keeps the invariant.
LEMMA EditInvariant == IInv /\ Edit => IInv'
<1> SUFFICES ASSUME IInv, Edit PROVE IInv'
  OBVIOUS
<1>1. PICK p \in BOOLEAN :
          /\ quiet' = (quiet /\ p)
          /\ UserWrites([api EXCEPT !.gen = @ + 1, !.paused = p])
  BY DEF Edit
<1> DEFINE v == [api EXCEPT !.gen = @ + 1, !.paused = p]
<1>2. api \in Policy /\ quiet \in BOOLEAN
  BY DEF IInv, TypeOK
<1>3. /\ v \in Policy /\ v.exists = api.exists /\ v.fin = api.fin
      /\ v.uid = api.uid /\ v.paused = p /\ v.gen = api.gen + 1
      /\ v.obsGen = api.obsGen
  <2>1. api.gen + 1 \in Nat
    BY <1>2 DEF Policy
  <2>2. v \in Policy
    BY <1>2, <2>1 DEF Policy
  <2>3. QED
    BY <1>2, <2>2 DEF Policy
<1>4. Truthful(v)
  BY <1>2, <1>3 DEF IInv, StatusSpeaksOfItsGeneration, Truthful, Policy
<1>5. StillHeld(api, v)
  BY <1>3 DEF StillHeld
<1>6. quiet' \in BOOLEAN /\ (quiet' => quiet /\ v.paused)
  BY <1>1, <1>2, <1>3
<1> HIDE DEF v
<1>7. UserWrites(v)
  BY <1>1 DEF v
<1>8. QED
  BY <1>3, <1>4, <1>5, <1>6, <1>7, UserSafe

\* Touch keeps the invariant.
LEMMA TouchInvariant == IInv /\ Touch => IInv'
<1> SUFFICES ASSUME IInv, Touch PROVE IInv'
  OBVIOUS
<1>1. api \in Policy /\ quiet' \in BOOLEAN /\ UserWrites(api)
  BY DEF IInv, TypeOK, Touch
<1>2. StillHeld(api, api) /\ Truthful(api)
  BY DEF IInv, StatusSpeaksOfItsGeneration, Truthful, StillHeld
<1>3. quiet' => quiet /\ (api.exists /\ ~api.deleting => api.paused)
  BY DEF Touch, IInv, PausedInEveryView, Views
<1>4. QED
  BY <1>1, <1>2, <1>3, UserSafe

\* Delete keeps the invariant.
LEMMA DeleteInvariant == IInv /\ Delete => IInv'
<1> SUFFICES ASSUME IInv, Delete PROVE IInv'
  OBVIOUS
<1> DEFINE w == [api EXCEPT !.gen = @ + 1, !.deleting = TRUE]
           v == Settled(w)
<1>1. api \in Policy /\ quiet' \in BOOLEAN
  BY DEF IInv, TypeOK, Delete
<1>2. /\ w \in Policy /\ w.exists = api.exists /\ w.fin = api.fin
      /\ w.uid = api.uid /\ w.deleting = TRUE /\ w.gen = api.gen + 1
      /\ w.obsGen = api.obsGen
  <2>1. api.gen + 1 \in Nat
    BY <1>1 DEF Policy
  <2>2. w \in Policy
    BY <1>1, <2>1 DEF Policy
  <2>3. QED
    BY <1>1, <2>2 DEF Policy
<1>3. v \in Policy
  BY <1>2, SettledType
<1>4. v = w \/ (~w.fin /\ ~v.exists)
  BY DEF Settled, Absent
<1>5. Truthful(v)
  <2>1. Truthful(w)
    BY <1>1, <1>2 DEF IInv, StatusSpeaksOfItsGeneration, Truthful, Policy
  <2>2. QED
    BY <1>4, <2>1 DEF Truthful
<1>6. StillHeld(api, v)
  BY <1>2, <1>4 DEF StillHeld
<1>7. ~(v.exists /\ ~v.deleting)
  BY <1>2, <1>4
<1> HIDE DEF v
<1>8. UserWrites(v)
  BY DEF v, Delete
<1>9. QED
  BY <1>1, <1>3, <1>5, <1>6, <1>7, <1>8, UserSafe DEF Delete

\* DropForeign keeps the invariant.
LEMMA DropForeignInvariant == IInv /\ DropForeign => IInv'
<1> SUFFICES ASSUME IInv, DropForeign PROVE IInv'
  OBVIOUS
<1> DEFINE w == [api EXCEPT !.foreign = FALSE]
           v == Settled(w)
<1>1. api \in Policy /\ quiet' \in BOOLEAN
  BY DEF IInv, TypeOK, DropForeign
<1>2. /\ w \in Policy /\ w.exists = api.exists /\ w.fin = api.fin
      /\ w.uid = api.uid /\ w.deleting = api.deleting /\ w.paused = api.paused
      /\ w.gen = api.gen /\ w.obsGen = api.obsGen /\ w.phase = api.phase
  BY <1>1 DEF Policy
<1>3. v \in Policy
  BY <1>2, SettledType
<1>4. v = w \/ (~w.fin /\ ~v.exists)
  BY DEF Settled, Absent
<1>5. Truthful(v)
  <2>1. Truthful(w)
    BY <1>2 DEF IInv, StatusSpeaksOfItsGeneration, Truthful
  <2>2. QED
    BY <1>4, <2>1 DEF Truthful
<1>6. StillHeld(api, v)
  BY <1>2, <1>4 DEF StillHeld
<1>7. quiet' => quiet /\ (v.exists /\ ~v.deleting => v.paused)
  <2>1. quiet => (api.exists /\ ~api.deleting => api.paused)
    BY DEF IInv, PausedInEveryView, Views
  <2>2. QED
    BY <1>2, <1>4, <2>1 DEF DropForeign
<1> HIDE DEF v
<1>8. UserWrites(v)
  BY DEF v, DropForeign
<1>9. QED
  BY <1>1, <1>3, <1>5, <1>6, <1>7, <1>8, UserSafe
\* A delivered event moves from the stream into the cache: no new view.
LEMMA DeliverEventInvariant == IInv /\ DeliverEvent => IInv'
<1> SUFFICES ASSUME IInv, DeliverEvent PROVE IInv'
  OBVIOUS
<1>1. /\ watch \in Seq(Policy) /\ watch # <<>>
      /\ cache' = watch[1] /\ watch' = Tail(watch) /\ queued'
      /\ UNCHANGED <<api, armed, pc, snap, fresh, wired, edits, faults, quiet>>
  BY DEF IInv, TypeOK, DeliverEvent
<1>2. /\ watch' \in Seq(Policy) /\ watch[1] \in Policy
      /\ Len(watch) \in Nat /\ Len(watch) > 0
      /\ Len(watch') = Len(watch) - 1
      /\ \A i \in 1..Len(watch') : watch'[i] = watch[i + 1] /\ i + 1 \in 1..Len(watch)
  BY <1>1
<1>3. TypeOK'
  BY <1>1, <1>2 DEF IInv, TypeOK, DeliverEvent
<1>4. CacheCatchesUp'
  <2>1. watch[Len(watch)] = api
    BY <1>1 DEF IInv, CacheCatchesUp
  <2>2. CASE Len(watch) = 1
    BY <1>1, <1>2, <2>1, <2>2 DEF CacheCatchesUp
  <2>3. CASE Len(watch) # 1
    <3>1. watch' # <<>> /\ watch'[Len(watch')] = watch[Len(watch)]
      BY <1>2, <2>3
    <3>2. QED
      BY <1>1, <2>1, <3>1 DEF CacheCatchesUp
  <2>4. QED
    BY <2>2, <2>3
<1>5. ~fresh
  BY <1>1 DEF IInv, FreshIsCurrent
<1>6. Views' \subseteq Views
  <2>1. cache' \in Views
    BY <1>1, <1>2 DEF Views
  <2>2. QED
    BY <1>1, <1>2, <2>1 DEF Views
<1>7. HeldInAnyView' /\ PausedInEveryView'
  BY <1>1, <1>6 DEF IInv, HeldInAnyView, PausedInEveryView
<1>8. QED
  BY <1>1, <1>3, <1>4, <1>5, <1>7 DEF IInv, FreshIsCurrent, RoutedBySnap,
     StatusSpeaksOfItsGeneration, NeverForgotten

\* TimerFires keeps the invariant.
LEMMA TimerFiresInvariant == IInv /\ TimerFires => IInv'
<1> SUFFICES ASSUME IInv, TimerFires PROVE IInv'
  OBVIOUS
<1>1. /\ queued' = TRUE /\ armed' = FALSE
      /\ UNCHANGED <<api, watch, cache, pc, snap, fresh, wired, edits, faults, quiet>>
  BY DEF TimerFires, store, local
<1>2. TypeOK'
  BY <1>1 DEF IInv, TypeOK
<1>3. QED
  BY <1>1, <1>2 DEF IInv, CacheCatchesUp, FreshIsCurrent, RoutedBySnap, Views,
     HeldInAnyView, PausedInEveryView, StatusSpeaksOfItsGeneration, NeverForgotten

\* Where Reconcile's early returns lead.
LEMMA RouteType ==
    ASSUME NEW v \in Policy
    PROVE  /\ Route(v) \in {"idle", "deletion", "finalizer", "paused", "tracer"}
           /\ Route(v) = "idle" => (v.exists => v.deleting /\ ~v.fin)
           /\ Route(v) = "deletion" => v.exists /\ v.deleting /\ v.fin
           /\ Route(v) = "finalizer" => v.exists /\ ~v.deleting /\ ~v.fin
           /\ Route(v) = "paused" => v.exists /\ ~v.deleting /\ v.fin /\ v.paused
           /\ Route(v) = "tracer" => v.exists /\ ~v.deleting /\ v.fin /\ ~v.paused
<1>1. v.exists \in BOOLEAN /\ v.deleting \in BOOLEAN /\ v.fin \in BOOLEAN /\ v.paused \in BOOLEAN
  BY DEF Policy
<1>2. QED
  BY <1>1 DEF Route

\* The copy Reconcile takes is one of the views already.
LEMMA BeginInvariant == IInv /\ Begin => IInv'
<1> SUFFICES ASSUME IInv, Begin PROVE IInv'
  OBVIOUS
<1>1. /\ pc = "idle" /\ queued' = FALSE /\ pc' = Route(cache)
      /\ UNCHANGED <<api, watch, cache, armed, wired, edits, faults, quiet>>
  BY DEF Begin, store
<1>2. cache \in Policy
  BY DEF IInv, TypeOK
<1>3. CASE Route(cache) = "idle"
  <2>1. UNCHANGED <<snap, fresh>>
    BY <1>3 DEF Begin, local
  <2>2. TypeOK'
    BY <1>1, <1>3, <2>1 DEF IInv, TypeOK, PCs
  <2>3. NeverForgotten'
    <3>1. CASE watch = <<>>
      BY <1>1, <1>2, <1>3, <3>1, RouteType DEF IInv, CacheCatchesUp, NeverForgotten
    <3>2. QED
      BY <1>1, <3>1 DEF NeverForgotten
  <2>4. QED
    BY <1>1, <1>3, <2>1, <2>2, <2>3 DEF IInv, CacheCatchesUp, FreshIsCurrent,
       RoutedBySnap, Views, HeldInAnyView, PausedInEveryView,
       StatusSpeaksOfItsGeneration
<1>4. CASE Route(cache) # "idle"
  <2>1. snap' = cache /\ fresh' = (watch = <<>>)
    BY <1>4 DEF Begin
  <2>2. TypeOK'
    BY <1>1, <1>2, <2>1, RouteType DEF IInv, TypeOK, PCs
  <2>3. Views' \subseteq Views
    BY <1>1, <2>1 DEF Views
  <2>4. HeldInAnyView' /\ PausedInEveryView'
    BY <1>1, <2>3 DEF IInv, HeldInAnyView, PausedInEveryView
  <2>5. FreshIsCurrent' /\ CacheCatchesUp'
    BY <1>1, <2>1 DEF IInv, CacheCatchesUp, FreshIsCurrent
  <2>6. RoutedBySnap'
    BY <1>1, <1>2, <2>1, RouteType DEF RoutedBySnap
  <2>7. NeverForgotten' /\ StatusSpeaksOfItsGeneration'
    BY <1>1, <1>4 DEF IInv, NeverForgotten, StatusSpeaksOfItsGeneration
  <2>8. QED
    BY <2>2, <2>4, <2>5, <2>6, <2>7 DEF IInv
<1>5. QED
  BY <1>3, <1>4

\* GetFails keeps the invariant.
LEMMA GetFailsInvariant == IInv /\ GetFails => IInv'
<1> SUFFICES ASSUME IInv, GetFails PROVE IInv'
  OBVIOUS
<1>1. /\ queued' = FALSE /\ armed' = TRUE
      /\ UNCHANGED <<api, watch, cache, pc, snap, fresh, wired, edits, quiet>>
  BY DEF GetFails, store, local
<1>2. faults' \in 0..MaxFaults
  BY BoundsAssumption DEF GetFails, IInv, TypeOK
<1>3. TypeOK'
  BY <1>1, <1>2 DEF IInv, TypeOK
<1>4. QED
  BY <1>1, <1>3 DEF IInv, CacheCatchesUp, FreshIsCurrent, RoutedBySnap, Views,
     HeldInAnyView, PausedInEveryView, StatusSpeaksOfItsGeneration, NeverForgotten

\* HandleDeletion keeps the invariant.
LEMMA HandleDeletionInvariant == IInv /\ HandleDeletion => IInv'
<1> SUFFICES ASSUME IInv, HandleDeletion PROVE IInv'
  OBVIOUS
<1> DEFINE w == [snap EXCEPT !.fin = FALSE]
           v == Settled(w)
<1>1. snap \in Policy /\ quiet \in BOOLEAN
  BY DEF IInv, TypeOK
<1>2. snap.exists /\ snap.deleting /\ snap.fin
  BY <1>1, RouteType DEF HandleDeletion, IInv, RoutedBySnap
<1>3. /\ w \in Policy /\ w.exists = snap.exists /\ w.fin = FALSE
      /\ w.deleting = snap.deleting /\ w.paused = snap.paused
      /\ w.gen = snap.gen /\ w.obsGen = snap.obsGen /\ w.phase = snap.phase
  BY <1>1 DEF Policy
<1>4. v \in Policy
  BY <1>3, SettledType
<1>5. v = w \/ ~v.exists
  BY DEF Settled, Absent
<1>6. Truthful(snap) => Truthful(v)
  BY <1>3, <1>5 DEF Truthful
<1>7. v.exists => v.deleting /\ ~v.fin
  BY <1>2, <1>3, <1>5
<1>8. Update(v, TRUE, FALSE, quiet)
  BY DEF HandleDeletion
<1> HIDE DEF v
<1>9. ~Held(snap)
  BY <1>2 DEF Held
<1>10. QED
  BY <1>1, <1>2, <1>4, <1>6, <1>7, <1>8, <1>9, UpdateSafe

\* AddFinalizer keeps the invariant.
LEMMA AddFinalizerInvariant == IInv /\ AddFinalizer => IInv'
<1> SUFFICES ASSUME IInv, AddFinalizer PROVE IInv'
  OBVIOUS
<1> DEFINE v == [snap EXCEPT !.fin = TRUE]
<1>1. snap \in Policy /\ quiet \in BOOLEAN
  BY DEF IInv, TypeOK
<1>2. snap.exists /\ ~snap.deleting /\ ~snap.fin
  BY <1>1, RouteType DEF AddFinalizer, IInv, RoutedBySnap
<1>3. /\ v \in Policy /\ v.exists = snap.exists
      /\ v.deleting = snap.deleting /\ v.paused = snap.paused
      /\ v.gen = snap.gen /\ v.obsGen = snap.obsGen /\ v.phase = snap.phase
  BY <1>1 DEF Policy
<1>4. Truthful(snap) => Truthful(v)
  BY <1>3 DEF Truthful
<1>5. quiet => snap.paused
  BY <1>2 DEF IInv, PausedInEveryView, Views
<1>6. Update(v, TRUE, TRUE, quiet)
  BY DEF AddFinalizer
<1>7. ~Held(snap)
  BY <1>2 DEF Held
<1> HIDE DEF v
<1>8. QED
  BY <1>1, <1>3, <1>4, <1>5, <1>6, <1>7, UpdateSafe

\* PublishPaused keeps the invariant.
LEMMA PublishPausedInvariant == IInv /\ PublishPaused => IInv'
<1> SUFFICES ASSUME IInv, PublishPaused PROVE IInv'
  OBVIOUS
<1> DEFINE v == PausedStatus(snap)
           changed == v # snap
<1>1. snap \in Policy
  BY DEF IInv, TypeOK
<1>2. snap.exists /\ ~snap.deleting /\ snap.fin /\ snap.paused
  BY <1>1, RouteType DEF PublishPaused, IInv, RoutedBySnap
<1>3. /\ v \in Policy /\ v.exists = snap.exists /\ v.fin = snap.fin
      /\ v.uid = snap.uid /\ v.paused = snap.paused
      /\ v.gen = snap.gen /\ v.obsGen = snap.obsGen
  BY <1>1 DEF Policy, PausedStatus, Phases
<1>4. Truthful(snap) => Truthful(v)
  BY <1>2, <1>3 DEF Truthful
<1>5. Update(v, changed, TRUE, TRUE)
  BY DEF PublishPaused
<1>6. changed \in BOOLEAN /\ (~changed => v = snap)
  OBVIOUS
<1>7. Held(snap) => v.exists /\ v.fin /\ v.uid = snap.uid
  BY <1>2, <1>3
<1> HIDE DEF v, changed
<1>8. QED
  BY <1>2, <1>3, <1>4, <1>5, <1>6, <1>7, UpdateSafe

\* OpenTracer keeps the invariant.
LEMMA OpenTracerInvariant == IInv /\ OpenTracer => IInv'
<1> SUFFICES ASSUME IInv, OpenTracer PROVE IInv'
  OBVIOUS
<1>1. /\ pc = "tracer" /\ pc' = "scan"
      /\ UNCHANGED <<api, watch, cache, queued, armed, snap, fresh, wired,
                      edits, faults, quiet>>
  BY DEF OpenTracer, store, local
<1>2. TypeOK'
  BY <1>1 DEF IInv, TypeOK, PCs
<1>3. QED
  BY <1>1, <1>2 DEF IInv, CacheCatchesUp, FreshIsCurrent, RoutedBySnap, Views,
     HeldInAnyView, PausedInEveryView, StatusSpeaksOfItsGeneration, NeverForgotten,
     Route

\* PublishScan keeps the invariant.
LEMMA PublishScanInvariant == IInv /\ PublishScan => IInv'
<1> SUFFICES ASSUME IInv, PublishScan PROVE IInv'
  OBVIOUS
<1>1. PICK verdict \in Verdicts, restamped \in BOOLEAN :
          Update(ScanStatus(snap, verdict),
                 restamped \/ ScanStatus(snap, verdict) # snap, TRUE, quiet)
  BY DEF PublishScan
<1> DEFINE v == ScanStatus(snap, verdict)
           changed == restamped \/ v # snap
<1>2. snap \in Policy /\ quiet \in BOOLEAN
  BY DEF IInv, TypeOK
<1>3. snap.exists /\ ~snap.deleting /\ snap.fin /\ ~snap.paused
  BY <1>2, RouteType DEF PublishScan, IInv, RoutedBySnap
<1>4. /\ v \in Policy /\ v.exists = snap.exists /\ v.fin = snap.fin
      /\ v.uid = snap.uid /\ v.paused = snap.paused
      /\ v.gen = snap.gen /\ v.obsGen = snap.gen /\ v.phase = verdict
  BY <1>2 DEF Policy, ScanStatus, Phases
<1>5. Truthful(v)
  BY <1>2, <1>3, <1>4 DEF Truthful, Policy
<1>6. ~quiet
  BY <1>3 DEF IInv, PausedInEveryView, Views
<1>7. Update(v, changed, TRUE, quiet)
  BY <1>1
<1>8. changed \in BOOLEAN /\ (~changed => v = snap)
  OBVIOUS
<1> HIDE DEF v, changed
<1>9. QED
  BY <1>2, <1>3, <1>4, <1>5, <1>6, <1>7, <1>8, UpdateSafe DEF Held

\* A dead process has no view but the cache, which the restart renews.
LEMMA DieInvariant ==
    ASSUME IInv, Die, faults' \in 0..MaxFaults
    PROVE  IInv'
<1>1. /\ pc' = "down" /\ queued' = FALSE /\ armed' = FALSE
      /\ snap' = Absent(0) /\ fresh' = FALSE
      /\ UNCHANGED <<api, watch, cache, wired, edits, quiet>>
  BY DEF Die, store
<1>2. TypeOK'
  BY <1>1, AbsentType DEF IInv, TypeOK, PCs
<1>3. Views' \subseteq Views \cup {Absent(0)} /\ ~Absent(0).exists
  BY <1>1 DEF Views, Absent
<1>4. HeldInAnyView' /\ PausedInEveryView'
  BY <1>1, <1>3 DEF IInv, HeldInAnyView, PausedInEveryView
<1>5. QED
  BY <1>1, <1>2, <1>4 DEF IInv, CacheCatchesUp, FreshIsCurrent, RoutedBySnap,
     StatusSpeaksOfItsGeneration, NeverForgotten

\* Panic keeps the invariant.
LEMMA PanicInvariant == IInv /\ Panic => IInv'
BY DieInvariant DEF Panic, IInv, TypeOK

\* Crash keeps the invariant.
LEMMA CrashInvariant == IInv /\ Crash => IInv'
<1> SUFFICES ASSUME IInv, Crash PROVE IInv'
  OBVIOUS
<1>1. faults' \in 0..MaxFaults
  BY BoundsAssumption DEF Crash, IInv, TypeOK
<1>2. QED
  BY <1>1, DieInvariant DEF Crash

\* Restart keeps the invariant.
LEMMA RestartInvariant == IInv /\ Restart => IInv'
<1> SUFFICES ASSUME IInv, Restart PROVE IInv'
  OBVIOUS
<1>1. /\ pc' = "idle" /\ cache' = api /\ watch' = <<>> /\ queued' = api.exists
      /\ UNCHANGED <<api, armed, snap, fresh, wired, edits, faults, quiet>>
  BY DEF Restart, local
<1>2. TypeOK'
  BY <1>1 DEF IInv, TypeOK, PCs, Policy
<1>3. {watch'[i] : i \in 1..Len(watch')} = {}
  BY <1>1
<1>4. Views' \subseteq Views
  BY <1>1, <1>3 DEF Views
<1>5. HeldInAnyView' /\ PausedInEveryView'
  BY <1>1, <1>4 DEF IInv, HeldInAnyView, PausedInEveryView
<1>6. QED
  BY <1>1, <1>2, <1>5 DEF IInv, CacheCatchesUp, FreshIsCurrent, RoutedBySnap,
     StatusSpeaksOfItsGeneration, NeverForgotten

\* Every step keeps the invariant.
LEMMA NextInvariant == IInv /\ [Next]_vars => IInv'
<1> SUFFICES ASSUME IInv, [Next]_vars PROVE IInv'
  OBVIOUS
<1>1. CASE User
  BY <1>1, CreateInvariant, EditInvariant, TouchInvariant, DeleteInvariant,
     DropForeignInvariant DEF User
<1>2. CASE DeliverEvent
  BY <1>2, DeliverEventInvariant
<1>3. CASE TimerFires
  BY <1>3, TimerFiresInvariant
<1>4. CASE Worker
  BY <1>4, BeginInvariant, GetFailsInvariant, HandleDeletionInvariant,
     AddFinalizerInvariant, PublishPausedInvariant, OpenTracerInvariant,
     PanicInvariant, PublishScanInvariant DEF Worker
<1>5. CASE Crash
  BY <1>5, CrashInvariant
<1>6. CASE Restart
  BY <1>6, RestartInvariant
<1>7. CASE UNCHANGED vars
  BY <1>7 DEF vars, IInv, TypeOK, CacheCatchesUp, FreshIsCurrent, RoutedBySnap,
     Views, HeldInAnyView, PausedInEveryView, StatusSpeaksOfItsGeneration,
     NeverForgotten
<1>8. QED
  BY <1>1, <1>2, <1>3, <1>4, <1>5, <1>6, <1>7 DEF Next
-----------------------------------------------------------------------------
(* The theorems.                                                           *)

\* Every reachable state satisfies the inductive invariant: any number of
\* edits, any lag, any faults, either wiring.
THEOREM Invariance == Spec => []IInv
BY InitInvariant, NextInvariant, PTL DEF Spec

\* Every variable stays in its type, and the user's steps and the faults in
\* their bounds.
THEOREM TypeCorrectness == Spec => []TypeOK
<1>1. IInv => TypeOK
  BY DEF IInv
<1>2. QED
  BY <1>1, Invariance, PTL

\* The finalizer holds the policy for as long as a check cycle runs
\* (Reconcile's early returns, AddFinalizer and HandleDeletion).
THEOREM FinalizerHolds == Spec => []FinalizerHeldDuringScan
<1>1. IInv => FinalizerHeldDuringScan
  <2> SUFFICES ASSUME IInv, pc = "scan"
               PROVE  api.exists /\ api.uid = snap.uid /\ api.fin
    BY DEF FinalizerHeldDuringScan
  <2>1. snap \in Policy /\ snap \in Views
    BY DEF IInv, TypeOK, Views
  <2>2. snap.exists /\ ~snap.deleting /\ snap.fin
    BY <2>1, RouteType DEF IInv, RoutedBySnap
  <2>3. QED
    BY <2>1, <2>2 DEF IInv, HeldInAnyView
<1>2. QED
  BY <1>1, Invariance, PTL

\* No check cycle runs while a recorded pause is in force: the early return of
\* Reconcile on spec.paused, although it reads a cached copy.
THEOREM PauseRespected == Spec => []QuietAfterPause
<1>1. IInv => QuietAfterPause
  <2> SUFFICES ASSUME IInv, quiet, pc = "scan"
               PROVE  FALSE
    BY DEF QuietAfterPause
  <2>1. snap \in Policy /\ snap \in Views
    BY DEF IInv, TypeOK, Views
  <2>2. snap.exists /\ ~snap.deleting /\ ~snap.paused
    BY <2>1, RouteType DEF IInv, RoutedBySnap
  <2>3. QED
    BY <2>1, <2>2 DEF IInv, PausedInEveryView
<1>2. QED
  BY <1>1, Invariance, PTL

\* The status that claims the current generation comes from a cycle on it
\* (status.observedGeneration, set in Reconcile and nowhere else).
THEOREM StatusTruthful == Spec => []StatusSpeaksOfItsGeneration
<1>1. IInv => StatusSpeaksOfItsGeneration
  BY DEF IInv
<1>2. QED
  BY <1>1, Invariance, PTL

\* An idle reconciler has a wake-up coming for every policy it is not done
\* with (the requeues of updatePhase, handleDeletion and the finalizer path).
THEOREM WakeupComes == Spec => []NeverForgotten
<1>1. IInv => NeverForgotten
  BY DEF IInv
<1>2. QED
  BY <1>1, Invariance, PTL
-----------------------------------------------------------------------------
(* Action properties.                                                      *)

\* A step of a user keeps the status of an object that stays.
LEMMA UserKeepsStatus ==
    ASSUME TypeOK, User, api.exists, api'.exists
    PROVE  api'.obsGen = api.obsGen
<1>1. api \in Policy
  BY DEF TypeOK
<1>2. \A uid : ~Absent(uid).exists
  BY DEF Absent
<1>3. CASE Edit
  BY <1>1, <1>3 DEF Edit, UserWrites, Store, Policy
<1>4. CASE Touch
  BY <1>4 DEF Touch, UserWrites, Store
<1>5. CASE Delete
  BY <1>1, <1>2, <1>5 DEF Delete, UserWrites, Store, Policy, Settled
<1>6. CASE DropForeign
  BY <1>1, <1>2, <1>6 DEF DropForeign, UserWrites, Store, Policy, Settled
<1>7. QED
  BY <1>3, <1>4, <1>5, <1>6 DEF User, Create

\* The observed generation of an object never decreases.
THEOREM ObservedMonotone == Spec => ObservedNeverGoesBack
<1> DEFINE Forward == (api.exists /\ api'.exists /\ api.uid = api'.uid)
                           => api'.obsGen >= api.obsGen
<1>1. ASSUME IInv, [Next]_vars
      PROVE  Forward
  <2>1. api.obsGen \in Nat /\ snap \in Policy /\ quiet \in BOOLEAN
    BY <1>1 DEF IInv, TypeOK, Policy
  <2>2. CASE User
    BY <1>1, <2>1, <2>2, UserKeepsStatus DEF IInv
  <2>3. CASE api' = api
    BY <2>1, <2>3
  <2>4. CASE HandleDeletion
    <3> DEFINE w == [snap EXCEPT !.fin = FALSE]
    <3>1. w \in Policy /\ w.obsGen = snap.obsGen
      BY <2>1 DEF Policy
    <3>2. Settled(w) \in Policy /\ (Settled(w) = w \/ ~Settled(w).exists)
      BY <3>1, SettledType DEF Settled, Absent
    <3>3. Update(Settled(w), TRUE, FALSE, quiet)
      BY <2>4 DEF HandleDeletion
    <3> HIDE DEF w
    <3>4. (snap = api /\ api' = Settled(w)) \/ api' = api
      BY <1>1, <2>1, <3>2, <3>3, UpdateEffect DEF IInv
    <3>5. QED
      BY <2>1, <3>1, <3>2, <3>4
  <2>5. CASE AddFinalizer
    <3> DEFINE v == [snap EXCEPT !.fin = TRUE]
    <3>1. v \in Policy /\ v.obsGen = snap.obsGen
      BY <2>1 DEF Policy
    <3>2. Update(v, TRUE, TRUE, quiet)
      BY <2>5 DEF AddFinalizer
    <3> HIDE DEF v
    <3>3. (snap = api /\ api' = v) \/ api' = api
      BY <1>1, <2>1, <3>1, <3>2, UpdateEffect DEF IInv
    <3>4. QED
      BY <2>1, <3>1, <3>3
  <2>6. CASE PublishPaused
    <3> DEFINE v == PausedStatus(snap)
               changed == v # snap
    <3>1. v \in Policy /\ v.obsGen = snap.obsGen
      BY <2>1 DEF Policy, PausedStatus, Phases
    <3>2. Update(v, changed, TRUE, TRUE) /\ changed \in BOOLEAN /\ (~changed => v = snap)
      BY <2>6 DEF PublishPaused
    <3> HIDE DEF v, changed
    <3>3. (snap = api /\ api' = v) \/ api' = api
      BY <1>1, <2>1, <3>1, <3>2, UpdateEffect DEF IInv
    <3>4. QED
      BY <2>1, <3>1, <3>3
  <2>7. CASE PublishScan
    <3>1. PICK verdict \in Verdicts, restamped \in BOOLEAN :
              Update(ScanStatus(snap, verdict),
                     restamped \/ ScanStatus(snap, verdict) # snap, TRUE, quiet)
      BY <2>7 DEF PublishScan
    <3> DEFINE v == ScanStatus(snap, verdict)
               changed == restamped \/ v # snap
    <3>2. v \in Policy /\ v.obsGen = snap.gen
      BY <2>1 DEF Policy, ScanStatus, Phases
    <3>3. Update(v, changed, TRUE, quiet) /\ changed \in BOOLEAN /\ (~changed => v = snap)
      BY <3>1
    <3> HIDE DEF v, changed
    <3>4. (snap = api /\ api' = v) \/ api' = api
      BY <1>1, <2>1, <3>2, <3>3, UpdateEffect DEF IInv
    <3>5. snap = api /\ api.exists => snap.gen >= api.obsGen
      BY <1>1, <2>1 DEF IInv, StatusSpeaksOfItsGeneration, Policy
    <3>6. QED
      BY <2>1, <3>2, <3>4, <3>5
  <2>8. QED
    BY <1>1, <2>2, <2>3, <2>4, <2>5, <2>6, <2>7 DEF Next, Worker, DeliverEvent,
       TimerFires, Begin, GetFails, OpenTracer, Panic, Crash, Die, Restart,
       store, vars
<1>2. IInv /\ [Next]_vars => [Forward]_vars
  BY <1>1
<1>3. QED
  BY <1>2, Invariance, PTL DEF Spec, ObservedNeverGoesBack
-----------------------------------------------------------------------------
(* Reconciler implements its contract.                                     *)

\* The reconciler starts where the contract does.
LEMMA ContractInit == Init => Contract!Init
<1> SUFFICES ASSUME Init PROVE Contract!Init
  OBVIOUS
<1>1. api.exists = FALSE /\ api.deleting = FALSE
  BY DEF Init, Absent
<1>2. Standing(api) = "none"
  BY <1>1 DEF Standing
<1>3. (pc = "scan") = FALSE /\ quiet = FALSE
  BY DEF Init
<1>4. QED
  BY <1>1, <1>2, <1>3 DEF Contract!Init

\* Each user step is one of the contract's, or invisible to it.
LEMMA UserContract == IInv /\ User => [Contract!Next]_(Contract!vars)
<1> SUFFICES ASSUME IInv, User
             PROVE  Contract!Next \/ UNCHANGED Contract!vars
  OBVIOUS
<1>1. api \in Policy /\ quiet \in BOOLEAN
  BY DEF IInv, TypeOK
<1>2. pc' = pc
  BY DEF User, Create, Edit, Touch, Delete, DropForeign, UserWrites
<1>3. CASE Create
  <2>1. PICK p \in BOOLEAN, f \in BOOLEAN :
            api' = [Absent(api.uid + 1) EXCEPT
                      !.exists = TRUE, !.gen = 1, !.paused = p, !.foreign = f]
    BY <1>3 DEF Create, UserWrites, Store
  <2>2. api'.exists /\ ~api'.fin /\ api'.deleting = FALSE
    BY <2>1 DEF Absent
  <2>3. ~api.exists /\ quiet' = FALSE
    BY <1>3 DEF Create
  <2>4. Contract!Admit
    BY <1>2, <2>2, <2>3 DEF Contract!Admit, Standing
  <2>5. QED
    BY <2>4 DEF Contract!Next
<1>4. CASE Edit
  <2>1. PICK p \in BOOLEAN :
            /\ quiet' = (quiet /\ p)
            /\ api' = [api EXCEPT !.gen = @ + 1, !.paused = p]
    BY <1>4 DEF Edit, UserWrites, Store
  <2>2. api'.exists = api.exists /\ api'.fin = api.fin /\ api'.deleting = api.deleting
    BY <1>1, <2>1 DEF Policy
  <2>3. Standing(api') = Standing(api) /\ Standing(api) # "none"
    BY <1>4, <2>2 DEF Edit, Standing
  <2>4. CASE p
    BY <1>1, <1>2, <2>1, <2>2, <2>3, <2>4 DEF Contract!vars
  <2>5. CASE ~p
    BY <1>2, <2>1, <2>2, <2>3, <2>5 DEF Contract!Next, Contract!Lift
  <2>6. QED
    BY <2>4, <2>5
<1>5. CASE Touch
  <2>1. api' = api /\ quiet' = quiet
    BY <1>5 DEF Touch, UserWrites, Store
  <2>2. QED
    BY <1>2, <2>1 DEF Contract!vars
<1>6. CASE Delete
  <2> DEFINE w == [api EXCEPT !.gen = @ + 1, !.deleting = TRUE]
  <2>1. w.exists = api.exists /\ w.fin = api.fin /\ w.deleting = TRUE
    BY <1>1 DEF Policy
  <2>2. api' = Settled(w) /\ quiet' = quiet /\ api.exists /\ api.deleting = FALSE
    BY <1>1, <1>6 DEF Delete, UserWrites, Store, Policy
  <2> HIDE DEF w
  <2>3. CASE api' = w
    <3>1. Standing(api') = Standing(api) /\ Standing(api) # "none"
      BY <2>1, <2>2, <2>3 DEF Standing
    <3>2. QED
      BY <1>2, <2>1, <2>2, <2>3, <3>1 DEF Contract!Next, Contract!Leave
  <2>4. CASE api' # w
    <3>1. ~w.fin /\ api'.exists = FALSE /\ api'.deleting = FALSE
      BY <2>2, <2>4 DEF Settled, Absent
    <3>2. Standing(api') = "none" /\ Standing(api) = "open"
      BY <2>1, <2>2, <3>1 DEF Standing
    <3>3. QED
      BY <1>2, <2>2, <3>1, <3>2 DEF Contract!Next, Contract!Leave
  <2>5. QED
    BY <2>3, <2>4
<1>7. CASE DropForeign
  <2> DEFINE w == [api EXCEPT !.foreign = FALSE]
  <2>1. w.exists = api.exists /\ w.fin = api.fin /\ w.deleting = api.deleting
    BY <1>1 DEF Policy
  <2>2. api' = Settled(w) /\ quiet' = quiet /\ api.exists
    BY <1>7 DEF DropForeign, UserWrites, Store
  <2> HIDE DEF w
  <2>3. CASE api' = w
    BY <1>2, <2>1, <2>2, <2>3 DEF Contract!vars, Standing
  <2>4. CASE api' # w
    <3>1. ~w.fin /\ w.deleting /\ api'.exists = FALSE /\ api'.deleting = FALSE
      BY <2>2, <2>4 DEF Settled, Absent
    <3>2. Standing(api') = "none" /\ Standing(api) = "open"
      BY <2>1, <2>2, <3>1 DEF Standing
    <3>3. QED
      BY <1>2, <2>1, <2>2, <3>1, <3>2 DEF Contract!Next, Contract!Vanish
  <2>5. QED
    BY <2>3, <2>4
<1>8. QED
  BY <1>3, <1>4, <1>5, <1>6, <1>7 DEF User
\* An Update leaves the reconciler out of a cycle, and the API server alone or
\* with its version on top of the one the reconciler read.
LEMMA UpdateContract ==
    ASSUME IInv,
           NEW v \in Policy, NEW changed \in BOOLEAN,
           NEW rearm \in BOOLEAN, NEW done \in BOOLEAN,
           ~changed => v = snap,
           Update(v, changed, rearm, done)
    PROVE  /\ pc' = "idle"
           /\ \/ snap = api /\ api' = v /\ quiet' = done
              \/ api' = api /\ quiet' = quiet
BY UpdateEffect DEF IInv

\* HandleDeletion is a step of the contract, or none.
LEMMA HandleDeletionContract ==
    IInv /\ HandleDeletion => [Contract!Next]_(Contract!vars)
<1> SUFFICES ASSUME IInv, HandleDeletion
             PROVE  Contract!Next \/ UNCHANGED Contract!vars
  OBVIOUS
<1> DEFINE w == [snap EXCEPT !.fin = FALSE]
<1>1. snap \in Policy /\ quiet \in BOOLEAN /\ pc = "deletion"
  BY DEF IInv, TypeOK, HandleDeletion
<1>2. snap.exists /\ snap.deleting = TRUE /\ snap.fin
  BY <1>1, RouteType DEF IInv, RoutedBySnap, Policy
<1>3. w \in Policy /\ w.exists /\ w.deleting = TRUE /\ ~w.fin
  BY <1>1, <1>2 DEF Policy
<1>4. Update(Settled(w), TRUE, FALSE, quiet)
  BY DEF HandleDeletion
<1> HIDE DEF w
<1>5. Settled(w) \in Policy
  BY <1>3, SettledType
<1>6. pc' = "idle"
      /\ ((snap = api /\ api' = Settled(w)) \/ api' = api) /\ quiet' = quiet
  BY <1>1, <1>4, <1>5, UpdateContract
<1>7. CASE api' = api
  BY <1>1, <1>6, <1>7 DEF Contract!vars
<1>8. CASE snap = api /\ api' = Settled(w)
  <2>1. Standing(api) = "held" /\ api.deleting = TRUE
    BY <1>2, <1>8 DEF Standing
  <2>2. CASE api' = w
    BY <1>1, <1>3, <1>6, <2>1, <2>2 DEF Contract!Next, Contract!Release, Standing
  <2>3. CASE api' # w
    <3>1. api'.exists = FALSE /\ api'.deleting = FALSE
      BY <1>8, <2>3 DEF Settled, Absent
    <3>2. QED
      BY <1>1, <1>6, <2>1, <3>1 DEF Contract!Next, Contract!Release, Standing
  <2>4. QED
    BY <2>2, <2>3
<1>9. QED
  BY <1>6, <1>7, <1>8

\* AddFinalizer is a step of the contract, or none.
LEMMA AddFinalizerContract ==
    IInv /\ AddFinalizer => [Contract!Next]_(Contract!vars)
<1> SUFFICES ASSUME IInv, AddFinalizer
             PROVE  Contract!Next \/ UNCHANGED Contract!vars
  OBVIOUS
<1> DEFINE v == [snap EXCEPT !.fin = TRUE]
<1>1. snap \in Policy /\ quiet \in BOOLEAN /\ pc = "finalizer"
  BY DEF IInv, TypeOK, AddFinalizer
<1>2. snap.exists /\ snap.deleting = FALSE /\ ~snap.fin
  BY <1>1, RouteType DEF IInv, RoutedBySnap, Policy
<1>3. v \in Policy /\ v.exists /\ v.deleting = FALSE /\ v.fin
  BY <1>1, <1>2 DEF Policy
<1>4. Update(v, TRUE, TRUE, quiet)
  BY DEF AddFinalizer
<1> HIDE DEF v
<1>5. pc' = "idle" /\ ((snap = api /\ api' = v) \/ api' = api) /\ quiet' = quiet
  BY <1>1, <1>3, <1>4, UpdateContract
<1>6. CASE api' = api
  BY <1>1, <1>5, <1>6 DEF Contract!vars
<1>7. CASE snap = api /\ api' = v
  BY <1>1, <1>2, <1>3, <1>5, <1>7 DEF Contract!Next, Contract!Hold, Standing
<1>8. QED
  BY <1>5, <1>6, <1>7

\* PublishPaused is a step of the contract, or none.
LEMMA PublishPausedContract ==
    IInv /\ PublishPaused => [Contract!Next]_(Contract!vars)
<1> SUFFICES ASSUME IInv, PublishPaused
             PROVE  Contract!Next \/ UNCHANGED Contract!vars
  OBVIOUS
<1> DEFINE v == PausedStatus(snap)
           changed == v # snap
<1>1. snap \in Policy /\ quiet \in BOOLEAN /\ pc = "paused"
  BY DEF IInv, TypeOK, PublishPaused
<1>2. snap.exists /\ snap.fin
  BY <1>1, RouteType DEF IInv, RoutedBySnap
<1>3. v \in Policy /\ v.exists /\ v.deleting = snap.deleting /\ v.fin
  BY <1>1, <1>2 DEF Policy, PausedStatus, Phases
<1>4. Update(v, changed, TRUE, TRUE) /\ changed \in BOOLEAN /\ (~changed => v = snap)
  BY DEF PublishPaused
<1> HIDE DEF v, changed
<1>5. pc' = "idle"
      /\ \/ snap = api /\ api' = v /\ quiet' = TRUE
         \/ api' = api /\ quiet' = quiet
  BY <1>3, <1>4, UpdateContract
<1>6. CASE api' = api /\ quiet' = quiet
  BY <1>1, <1>5, <1>6 DEF Contract!vars
<1>7. CASE snap = api /\ api' = v /\ quiet' = TRUE
  BY <1>1, <1>2, <1>3, <1>5, <1>7 DEF Contract!Next, Contract!Acknowledge, Standing
<1>8. QED
  BY <1>5, <1>6, <1>7

\* A cycle starts on a policy that is held and not quiet, whatever the copy.
LEMMA OpenTracerContract ==
    IInv /\ OpenTracer => [Contract!Next]_(Contract!vars)
<1> SUFFICES ASSUME IInv, OpenTracer
             PROVE  Contract!Next
  OBVIOUS
<1>1. /\ pc = "tracer" /\ pc' = "scan" /\ api' = api /\ quiet' = quiet
  BY DEF OpenTracer, store
<1>2. snap \in Policy /\ snap \in Views
  BY DEF IInv, TypeOK, Views
<1>3. snap.exists /\ ~snap.deleting /\ snap.fin /\ ~snap.paused
  BY <1>1, <1>2, RouteType DEF IInv, RoutedBySnap
<1>4. api.exists /\ api.fin
  BY <1>2, <1>3 DEF IInv, HeldInAnyView
<1>5. ~quiet
  BY <1>2, <1>3 DEF IInv, PausedInEveryView
<1>6. QED
  BY <1>1, <1>4, <1>5 DEF Contract!Next, Contract!StartCycle, Standing

\* PublishScan is a step of the contract, or none.
LEMMA PublishScanContract ==
    IInv /\ PublishScan => [Contract!Next]_(Contract!vars)
<1> SUFFICES ASSUME IInv, PublishScan
             PROVE  Contract!Next
  OBVIOUS
<1>1. PICK verdict \in Verdicts, restamped \in BOOLEAN :
          Update(ScanStatus(snap, verdict),
                 restamped \/ ScanStatus(snap, verdict) # snap, TRUE, quiet)
  BY DEF PublishScan
<1> DEFINE v == ScanStatus(snap, verdict)
           changed == restamped \/ v # snap
<1>2. snap \in Policy /\ quiet \in BOOLEAN /\ pc = "scan"
  BY DEF IInv, TypeOK, PublishScan
<1>3. /\ v \in Policy /\ v.exists = snap.exists /\ v.fin = snap.fin
      /\ v.deleting = snap.deleting
  BY <1>2 DEF Policy, ScanStatus, Phases
<1>4. Update(v, changed, TRUE, quiet) /\ changed \in BOOLEAN /\ (~changed => v = snap)
  BY <1>1
<1> HIDE DEF v, changed
<1>5. pc' = "idle" /\ ((snap = api /\ api' = v) \/ api' = api) /\ quiet' = quiet
  BY <1>2, <1>3, <1>4, UpdateContract
<1>6. Standing(api') = Standing(api) /\ api'.deleting = api.deleting
  BY <1>3, <1>5 DEF Standing
<1>7. QED
  BY <1>2, <1>5, <1>6 DEF Contract!Next, Contract!EndCycle

\* The process dies: for the contract a cycle in progress ends.
LEMMA DieContract ==
    ASSUME Die
    PROVE  [Contract!Next]_(Contract!vars)
<1>1. pc' = "down" /\ api' = api /\ quiet' = quiet
  BY DEF Die, store
<1>2. CASE pc = "scan"
  BY <1>1, <1>2 DEF Contract!Next, Contract!EndCycle
<1>3. CASE pc # "scan"
  BY <1>1, <1>3 DEF Contract!vars
<1>4. QED
  BY <1>2, <1>3

\* The steps the contract does not see.
LEMMA InvisibleContract ==
    ASSUME IInv, DeliverEvent \/ TimerFires \/ Begin \/ GetFails \/ Restart
                     \/ UNCHANGED vars
    PROVE  UNCHANGED Contract!vars
<1>1. api' = api /\ quiet' = quiet
  BY DEF DeliverEvent, TimerFires, Begin, GetFails, Restart, vars, store
<1>2. (pc' = "scan") = (pc = "scan")
  <2>1. CASE Begin
    BY <2>1, RouteType DEF Begin, IInv, TypeOK
  <2>2. CASE Restart
    BY <2>2 DEF Restart
  <2>3. QED
    BY <2>1, <2>2 DEF DeliverEvent, TimerFires, GetFails, vars
<1>3. QED
  BY <1>1, <1>2 DEF Contract!vars

\* Every behaviour of Reconciler is one of PolicyContract: cycles only for held
\* and unpaused policies, release only between cycles, at every lag.
THEOREM Refinement == Spec => ImplementsContract
<1>1. IInv /\ [Next]_vars => [Contract!Next]_(Contract!vars)
  <2> SUFFICES ASSUME IInv, [Next]_vars
               PROVE  [Contract!Next]_(Contract!vars)
    OBVIOUS
  <2>1. CASE User
    BY <2>1, UserContract
  <2>2. CASE DeliverEvent \/ TimerFires \/ Begin \/ GetFails \/ Restart \/ UNCHANGED vars
    BY <2>2, InvisibleContract
  <2>3. CASE Panic \/ Crash
    BY <2>3, DieContract DEF Panic, Crash
  <2>4. QED
    BY <2>1, <2>2, <2>3, HandleDeletionContract, AddFinalizerContract,
       PublishPausedContract, OpenTracerContract, PublishScanContract
       DEF Next, Worker
<1>2. QED
  BY <1>1, ContractInit, Invariance, PTL DEF Spec, Contract!Spec, ImplementsContract
=============================================================================
