---------------------------- MODULE RetentionProofs ----------------------------
(* Proofs about module Retention, for any number of copies to keep, any lag  *)
(* of the informer cache and any number of faults.                           *)
EXTENDS Retention, FiniteSetTheorems, TLAPS

-----------------------------------------------------------------------------
(* Counting copies.                                                          *)

\* The types that the counting rests on.
LEMMA Numbers ==
    ASSUME TypeOK
    PROVE  /\ stamps \in Seq(0..now) /\ created \in Nat /\ created <= MaxCreated
           /\ DOMAIN stamps = 1..created
           /\ \A n \in 1..created : stamps[n] \in 0..now /\ stamps[n] \in Nat
           /\ now \in Nat /\ MaxCreated \in Nat /\ MaxCopies \in Nat \ {0}
           /\ MaxLag \in Nat /\ MaxFaults \in Nat /\ gap \in Nat
<1>1. /\ now \in Nat /\ MaxCreated \in Nat /\ MaxCopies \in Nat \ {0}
      /\ MaxLag \in Nat /\ MaxFaults \in Nat /\ gap \in Nat
  BY RetentionAssumption DEF TypeOK
<1>2. stamps \in Seq(0..now) /\ Len(stamps) <= MaxCreated
  BY DEF TypeOK, created
<1>3. Len(stamps) \in Nat /\ DOMAIN stamps = 1..Len(stamps)
      /\ \A n \in 1..Len(stamps) : stamps[n] \in 0..now
  <2> DEFINE T == 0..now
  <2>1. stamps \in Seq(T)
    BY <1>2
  <2> HIDE DEF T
  <2>2. Len(stamps) \in Nat /\ DOMAIN stamps = 1..Len(stamps)
        /\ \A n \in 1..Len(stamps) : stamps[n] \in T
    BY <2>1
  <2> QED
    BY <2>2 DEF T
<1>4. \A n \in 1..Len(stamps) : stamps[n] \in Nat
  BY <1>1, <1>3
<1> QED
  BY <1>1, <1>2, <1>3, <1>4 DEF created

\* Copies are told apart by their numbers, so there are as many as numbers.
LEMMA CopiesCounted ==
    ASSUME TypeOK, NEW S, OnRecord(S), S \subseteq Copy,
           NEW T \in SUBSET (1..created), \A c \in S : c.number \in T
    PROVE  /\ IsFiniteSet(S) /\ IsFiniteSet(T)
           /\ Cardinality(S) \in Nat /\ Cardinality(T) \in Nat
           /\ Cardinality(S) <= Cardinality(T)
<1>1. IsFiniteSet(T)
  <2>1. created \in Int
    BY Numbers
  <2>2. IsFiniteSet(1..created)
    BY <2>1, FS_Interval
  <2> QED
    BY <2>2, FS_Subset
<1> DEFINE f == [c \in S |-> c.number]
<1>2. f \in Injection(S, T)
  <2>1. f \in [S -> T]
    OBVIOUS
  <2>2. \A a, b \in S : a.number = b.number => a = b
    BY DEF OnRecord, Copy
  <2>3. IsInjective(f)
    BY <2>2 DEF IsInjective
  <2> QED
    BY <2>1, <2>3 DEF Injection
<1> HIDE DEF f
<1>3. IsFiniteSet(S) /\ Cardinality(S) <= Cardinality(T)
  BY <1>1, <1>2, FS_Injection
<1> QED
  BY <1>1, <1>3, FS_CardinalityType

\* All that the operator and the API server know of are finitely many.
LEMMA FinitelyMany ==
    ASSUME TypeOK, NEW S, OnRecord(S), S \subseteq Copy
    PROVE  IsFiniteSet(S) /\ Cardinality(S) \in Nat
<1>1. \A c \in S : c.number \in 1..created
  BY DEF OnRecord
<1> QED
  BY <1>1, CopiesCounted

\* One copy less is not more.
LEMMA OneLess ==
    ASSUME NEW S, IsFiniteSet(S), NEW T, T \subseteq S
    PROVE  /\ IsFiniteSet(T) /\ Cardinality(T) \in Nat /\ Cardinality(S) \in Nat
           /\ Cardinality(T) <= Cardinality(S)
BY FS_Subset, FS_CardinalityType

\* One copy more.
LEMMA OneMore ==
    ASSUME NEW S, IsFiniteSet(S), NEW x, NEW T, T \subseteq S \cup {x}
    PROVE  /\ IsFiniteSet(T) /\ Cardinality(T) \in Nat /\ Cardinality(S) \in Nat
           /\ Cardinality(T) <= Cardinality(S) + 1
<1>1. /\ IsFiniteSet(S \cup {x}) /\ Cardinality(S) \in Nat
      /\ Cardinality(S \cup {x}) <= Cardinality(S) + 1
  <2>1. /\ IsFiniteSet(S \cup {x})
        /\ Cardinality(S \cup {x}) = IF x \in S THEN Cardinality(S) ELSE Cardinality(S) + 1
    BY FS_AddElement
  <2>2. Cardinality(S) \in Nat
    BY FS_CardinalityType
  <2> QED
    BY <2>1, <2>2
<1>2. /\ IsFiniteSet(T) /\ Cardinality(T) \in Nat /\ Cardinality(S \cup {x}) \in Nat
      /\ Cardinality(T) <= Cardinality(S \cup {x})
  BY <1>1, OneLess
<1> QED
  BY <1>1, <1>2

\* What is spared of a list makes room for what is not.
LEMMA SparedMakeRoom ==
    ASSUME TypeOK, NEW S, OnRecord(S), S \subseteq Copy,
           NEW n \in 1..created,
           \A c \in S : c.number # n /\ c.stamp >= stamps[n],
           Cardinality(S) >= MaxCopies
    PROVE  MadeRoom(n)
<1>1. Newer(n) \in SUBSET (1..created)
  BY DEF Newer
<1>2. \A c \in S : c.number \in Newer(n)
  BY DEF Newer, OnRecord
<1>3. /\ Cardinality(S) \in Nat /\ Cardinality(Newer(n)) \in Nat
      /\ Cardinality(S) <= Cardinality(Newer(n))
  BY <1>1, <1>2, CopiesCounted
<1>4. MaxCopies \in Nat
  BY Numbers
<1> QED
  BY <1>3, <1>4 DEF MadeRoom

-----------------------------------------------------------------------------
(* Copies are created.                                                       *)

\* A step that creates nothing changes nothing of what is on record.
LEMMA NothingCreated ==
    ASSUME UNCHANGED stamps
    PROVE  /\ created' = created
           /\ \A S : OnRecord(S) => OnRecord(S)'
           /\ \A n : MadeRoom(n) => MadeRoom(n)'
BY DEF OnRecord, created, MadeRoom, Newer

\* What is on record stays there when a copy is created, and room stays room.
LEMMA Created ==
    ASSUME TypeOK, Persist
    PROVE  /\ created' = created + 1
           /\ \A n \in 1..created : stamps'[n] = stamps[n]
           /\ stamps'[created + 1] = now
           /\ stamps' \in Seq(0..now)
           /\ \A S : OnRecord(S) => OnRecord(S)'
           /\ \A n \in 1..created : MadeRoom(n) => MadeRoom(n)'
<1>1. stamps' = Append(stamps, now) /\ stamps \in Seq(0..now) /\ now \in 0..now
  BY Numbers DEF Persist, TypeOK
<1>2. /\ stamps' \in Seq(0..now) /\ Len(stamps') = Len(stamps) + 1
      /\ \A n \in 1..Len(stamps) : stamps'[n] = stamps[n]
      /\ stamps'[Len(stamps) + 1] = now
  BY <1>1
<1>3. /\ created' = created + 1
      /\ \A n \in 1..created : stamps'[n] = stamps[n]
      /\ stamps'[created + 1] = now
  BY <1>2 DEF created
<1>4. ASSUME NEW S, OnRecord(S)
      PROVE  OnRecord(S)'
  BY <1>3, <1>4, Numbers DEF OnRecord
<1>5. ASSUME NEW n \in 1..created, MadeRoom(n)
      PROVE  MadeRoom(n)'
  <2>1. Newer(n) \subseteq Newer(n)'
    <3>1. created \in Nat
      BY Numbers
    <3>2. \A m \in 1..created : m \in 1..created' /\ stamps'[m] = stamps[m]
      BY <1>3, <3>1
    <3>3. Newer(n)' = {m \in 1..created' \ {n} : stamps'[m] >= stamps'[n]}
      BY DEF Newer
    <3> QED
      BY <3>2, <3>3 DEF Newer
  <2>2. IsFiniteSet(Newer(n)')
    <3>1. created' \in Int
      BY <1>3, Numbers
    <3>2. IsFiniteSet(1..created')
      BY <3>1, FS_Interval
    <3>3. Newer(n)' \subseteq 1..created'
      BY DEF Newer
    <3> QED
      BY <3>2, <3>3, OneLess
  <2>3. /\ Cardinality(Newer(n)) \in Nat /\ Cardinality(Newer(n)') \in Nat
        /\ Cardinality(Newer(n)) <= Cardinality(Newer(n)')
    BY <2>1, <2>2, OneLess
  <2> QED
    BY <1>5, <2>3, Numbers DEF MadeRoom, Persist
<1> QED
  BY <1>2, <1>3, <1>4, <1>5

-----------------------------------------------------------------------------
(* The inductive invariant.                                                  *)

\* It holds at the start.
LEMMA Initially == Init => IInv
<1> SUFFICES ASSUME Init
             PROVE  IInv
  OBVIOUS
<1>1. /\ gap \in Gaps /\ copies = {} /\ watch = <<>> /\ cache = {} /\ now = 0 /\ stamps = <<>>
      /\ pc = "idle" /\ doomed = {} /\ clean = TRUE /\ faults = 0 /\ created = 0
  BY DEF Init, created
<1>2. MaxCreated \in Nat /\ MaxFaults \in Nat /\ MaxCopies \in Nat \ {0} /\ MaxLag \in Nat
  BY RetentionAssumption
<1>3. TypeOK
  <2>1. watch \in Seq(SUBSET Copy)
    BY <1>1
  <2>2. stamps \in Seq(0..now) /\ created <= MaxCreated
    BY <1>1, <1>2
  <2>3. now \in 0..MaxCreated /\ faults \in 0..MaxFaults
    BY <1>1, <1>2
  <2> QED
    BY <1>1, <2>1, <2>2, <2>3 DEF TypeOK
<1>4. CopiesOnRecord /\ DoomedMadeRoom /\ GoneMadeRoom /\ Spaced
  BY <1>1 DEF CopiesOnRecord, OnRecord, DoomedMadeRoom, GoneMadeRoom, Gone, Spaced
<1>5. Cardinality(copies) = 0 /\ Cardinality(copies \ cache) = 0
  BY <1>1, FS_EmptySet
<1>6. VersionsLag /\ CopiesBounded /\ ListedSoon /\ FewAreSpared
  BY <1>1, <1>2, <1>5 DEF VersionsLag, CopiesBounded, ListedSoon, FewAreSpared
<1> QED
  BY <1>3, <1>4, <1>6 DEF IInv

\* A step that neither creates nor deletes, nor changes what anybody knows.
LEMMA Elsewhere ==
    ASSUME IInv, UNCHANGED <<gap, copies, watch, cache, stamps>>, OnRecord(doomed')
    PROVE  /\ CopiesOnRecord' /\ GoneMadeRoom' /\ Spaced' /\ VersionsLag'
           /\ created' = created
<1>1. created' = created
  BY DEF created
<1>2. CopiesOnRecord'
  BY <1>1 DEF IInv, CopiesOnRecord, OnRecord
<1>3. GoneMadeRoom'
  BY <1>1 DEF IInv, GoneMadeRoom, Gone, MadeRoom, Newer
<1>4. Spaced' /\ VersionsLag'
  BY <1>1 DEF IInv, Spaced, VersionsLag
<1> QED
  BY <1>1, <1>2, <1>3, <1>4

\* An event reaches the informer.
LEMMA DeliverKeeps ==
    ASSUME IInv, DeliverEvent
    PROVE  IInv'
<1>1. /\ watch # <<>> /\ cache' = Head(watch) /\ watch' = Tail(watch)
      /\ UNCHANGED <<gap, copies, now, stamps, pc, doomed, clean, faults>>
      /\ watch \in Seq(SUBSET Copy)
  BY DEF DeliverEvent, IInv, TypeOK
<1> DEFINE T == SUBSET Copy
<1>2. watch \in Seq(T)
  BY <1>1
<1> HIDE DEF T
<1>3. /\ Len(watch) \in Nat \ {0} /\ DOMAIN watch = 1..Len(watch)
      /\ Len(watch') = Len(watch) - 1 /\ DOMAIN watch' = 1..(Len(watch) - 1)
      /\ watch' \in Seq(T) /\ cache' = watch[1] /\ cache' \in T
      /\ \A v \in 1..(Len(watch) - 1) : watch'[v] = watch[v + 1]
  BY <1>1, <1>2
<1>4. TypeOK'
  <2>1. created' = created
    BY <1>1 DEF created
  <2> QED
    BY <1>1, <1>3, <2>1 DEF IInv, TypeOK, T
<1>5. created' = created
  BY <1>1 DEF created
<1>6. CopiesOnRecord'
  <2>1. \A c \in cache' : c.number \in 1..created /\ c.stamp = stamps[c.number]
    BY <1>3 DEF IInv, CopiesOnRecord, OnRecord
  <2>2. \A v \in DOMAIN watch' : \A c \in watch'[v] :
           c.number \in 1..created /\ c.stamp = stamps[c.number]
    <3> SUFFICES ASSUME NEW v \in DOMAIN watch'
                 PROVE  \A c \in watch'[v] : c.number \in 1..created /\ c.stamp = stamps[c.number]
      OBVIOUS
    <3>1. v + 1 \in DOMAIN watch /\ watch'[v] = watch[v + 1]
      BY <1>3
    <3> QED
      BY <3>1 DEF IInv, CopiesOnRecord, OnRecord
  <2> QED
    BY <1>1, <1>5, <2>1, <2>2 DEF IInv, CopiesOnRecord, OnRecord
<1>7. DoomedMadeRoom' /\ GoneMadeRoom'
  BY <1>1, <1>5 DEF IInv, DoomedMadeRoom, GoneMadeRoom, Gone, MadeRoom, Newer
<1>8. Spaced'
  BY <1>1, <1>5 DEF IInv, Spaced
<1>9. VersionsLag'
  <2>1. Cardinality(copies \ watch[1]) <= Len(watch) - 1
    <3>1. 1 \in DOMAIN watch
      BY <1>3
    <3> QED
      BY <3>1 DEF IInv, VersionsLag
  <2>2. ASSUME NEW v \in 1..(Len(watch) - 1)
        PROVE  Cardinality(copies \ watch[v + 1]) <= Len(watch) - 1 - v
    <3>1. v + 1 \in DOMAIN watch
      BY <1>3
    <3>2. Cardinality(copies \ watch[v + 1]) <= Len(watch) - (v + 1)
      BY <3>1 DEF IInv, VersionsLag
    <3>3. Len(watch) - (v + 1) = Len(watch) - 1 - v
      BY <1>3
    <3> QED
      BY <3>2, <3>3
  <2>3. Cardinality(copies' \ cache') <= Len(watch')
    <3>1. copies' = copies /\ cache' = watch[1] /\ Len(watch') = Len(watch) - 1
      BY <1>1, <1>3
    <3> QED
      BY <2>1, <3>1
  <2>4. ASSUME NEW v \in DOMAIN watch'
        PROVE  Cardinality(copies' \ watch'[v]) <= Len(watch') - v
    <3>1. v \in 1..(Len(watch) - 1) /\ watch'[v] = watch[v + 1] /\ copies' = copies
      BY <1>1, <1>3
    <3>2. Cardinality(copies \ watch[v + 1]) <= Len(watch) - 1 - v
      BY <2>2, <3>1
    <3> QED
      BY <1>3, <3>1, <3>2
  <2> QED
    BY <2>3, <2>4 DEF VersionsLag
<1>10. ListedSoon'
  BY <1>1, <1>3, RetentionAssumption DEF IInv, ListedSoon
<1>11. FewAreSpared' /\ CopiesBounded'
  BY <1>1 DEF IInv, FewAreSpared, CopiesBounded
<1> QED
  BY <1>4, <1>6, <1>7, <1>8, <1>9, <1>10, <1>11 DEF IInv

\* A second passes.
LEMMA TickKeeps ==
    ASSUME IInv, Tick
    PROVE  IInv'
<1>1. /\ now < MaxCreated /\ now' = now + 1
      /\ UNCHANGED <<gap, copies, watch, cache, stamps, pc, doomed, clean, faults>>
  BY DEF Tick
<1>2. OnRecord(doomed')
  BY <1>1 DEF IInv, CopiesOnRecord
<1>3. /\ CopiesOnRecord' /\ GoneMadeRoom' /\ Spaced' /\ VersionsLag'
      /\ created' = created
  BY <1>1, <1>2, Elsewhere
<1>4. TypeOK'
  <2>1. now' \in 0..MaxCreated
    BY <1>1, Numbers DEF IInv
  <2>2. stamps' \in Seq(0..now')
    <3>1. 0..now \subseteq 0..now'
      BY <1>1, Numbers DEF IInv
    <3>2. stamps \in Seq(0..now)
      BY DEF IInv, TypeOK
    <3> DEFINE S == 0..now
               T == 0..now'
    <3>3. stamps \in Seq(S) /\ S \subseteq T
      BY <3>1, <3>2
    <3> HIDE DEF S, T
    <3>4. stamps \in Seq(T)
      BY <3>3
    <3> QED
      BY <1>1, <3>4 DEF T
  <2> QED
    BY <1>1, <1>3, <2>1, <2>2 DEF IInv, TypeOK
<1>5. DoomedMadeRoom'
  BY <1>1, <1>3 DEF IInv, DoomedMadeRoom, MadeRoom, Newer
<1>6. ListedSoon' /\ FewAreSpared' /\ CopiesBounded'
  BY <1>1 DEF IInv, ListedSoon, FewAreSpared, CopiesBounded
<1> QED
  BY <1>3, <1>4, <1>5, <1>6 DEF IInv

\* A copy is created.
LEMMA PersistKeeps ==
    ASSUME IInv, Persist
    PROVE  IInv'
<1> DEFINE new == [number |-> created + 1, stamp |-> now]
<1>1. /\ TypeOK /\ pc = "idle" /\ pc' = "rotate" /\ created < MaxCreated /\ Len(watch) <= MaxLag
      /\ created > 0 => now >= latest + gap
      /\ copies' = copies \cup {new} /\ watch' = Append(watch, copies') /\ clean' = FALSE
      /\ UNCHANGED <<gap, cache, now, doomed, faults>>
  BY DEF Persist, Store, IInv
<1>2. /\ created' = created + 1
      /\ \A n \in 1..created : stamps'[n] = stamps[n]
      /\ stamps'[created + 1] = now
      /\ stamps' \in Seq(0..now)
      /\ \A n \in 1..created : MadeRoom(n) => MadeRoom(n)'
  BY <1>1, Created
<1>3. /\ created \in Nat /\ MaxCreated \in Nat /\ now \in Nat /\ MaxLag \in Nat /\ gap \in Nat
      /\ \A n \in 1..created : stamps[n] \in Nat
  BY <1>1, Numbers
<1>4. new \in Copy /\ new.number = created + 1 /\ new.stamp = now
  BY <1>1, <1>3 DEF Copy
<1>5. doomed = {}
  BY <1>1 DEF TypeOK
<1> HIDE DEF new
<1>6. copies' \in SUBSET Copy /\ copies \in SUBSET Copy
  BY <1>1, <1>4 DEF TypeOK
<1> DEFINE T == SUBSET Copy
<1>7. watch \in Seq(T) /\ copies' \in T
  BY <1>1, <1>6 DEF TypeOK
<1> HIDE DEF T
<1>8. /\ Len(watch) \in Nat /\ DOMAIN watch = 1..Len(watch)
      /\ watch' \in Seq(T) /\ Len(watch') = Len(watch) + 1 /\ DOMAIN watch' = 1..(Len(watch) + 1)
      /\ \A v \in 1..Len(watch) : watch'[v] = watch[v]
      /\ watch'[Len(watch) + 1] = copies'
  BY <1>1, <1>7
<1>9. TypeOK'
  <2>1. watch' \in Seq(SUBSET Copy)
    BY <1>8 DEF T
  <2>2. created' <= MaxCreated /\ stamps' \in Seq(0..now')
    BY <1>1, <1>2, <1>3
  <2>3. /\ gap' \in Gaps /\ cache' \in SUBSET Copy /\ now' \in 0..MaxCreated
        /\ doomed' \in SUBSET Copy /\ faults' \in 0..MaxFaults
    BY <1>1 DEF TypeOK
  <2>4. pc' \in {"idle", "rotate", "delete"} /\ clean' \in BOOLEAN /\ doomed' = {}
    BY <1>1, <1>5
  <2> QED
    BY <1>6, <2>1, <2>2, <2>3, <2>4 DEF TypeOK
<1>10. ASSUME NEW S, OnRecord(S)
       PROVE  \A c \in S : c.number \in 1..created' /\ c.stamp = stamps'[c.number]
  BY <1>2, <1>3, <1>10 DEF OnRecord
<1>11. \A c \in copies' : c.number \in 1..created' /\ c.stamp = stamps'[c.number]
  <2>1. \A c \in copies : c.number \in 1..created' /\ c.stamp = stamps'[c.number]
    BY <1>10 DEF IInv, CopiesOnRecord
  <2>2. new.number \in 1..created' /\ new.stamp = stamps'[new.number]
    BY <1>2, <1>3, <1>4
  <2> QED
    BY <1>1, <2>1, <2>2
<1>12. CopiesOnRecord'
  <2>1. \A c \in cache' : c.number \in 1..created' /\ c.stamp = stamps'[c.number]
    BY <1>1, <1>10 DEF IInv, CopiesOnRecord
  <2>2. \A v \in DOMAIN watch' : \A c \in watch'[v] :
           c.number \in 1..created' /\ c.stamp = stamps'[c.number]
    <3> SUFFICES ASSUME NEW v \in DOMAIN watch'
                 PROVE  \A c \in watch'[v] : c.number \in 1..created' /\ c.stamp = stamps'[c.number]
      OBVIOUS
    <3>1. CASE v = Len(watch) + 1
      BY <1>8, <1>11, <3>1
    <3>2. CASE v # Len(watch) + 1
      <4>1. v \in DOMAIN watch /\ watch'[v] = watch[v]
        BY <1>8, <3>2
      <4>2. OnRecord(watch[v])
        BY <4>1 DEF IInv, CopiesOnRecord
      <4> QED
        BY <1>10, <4>1, <4>2
    <3> QED
      BY <3>1, <3>2
  <2> QED
    BY <1>1, <1>5, <1>11, <2>1, <2>2 DEF CopiesOnRecord, OnRecord
<1>13. DoomedMadeRoom'
  BY <1>1, <1>5 DEF DoomedMadeRoom
<1>14. GoneMadeRoom'
  <2>1. Gone' \subseteq Gone
    <3> SUFFICES ASSUME NEW n \in 1..created', \A c \in copies' : c.number # n
                 PROVE  n \in 1..created /\ \A c \in copies : c.number # n
      BY DEF Gone
    <3>1. n # created + 1
      BY <1>1, <1>4
    <3> QED
      BY <1>1, <1>2, <1>3, <3>1
  <2>2. \A n \in Gone : n \in 1..created /\ MadeRoom(n)
    BY DEF Gone, IInv, GoneMadeRoom
  <2>3. \A n \in Gone' : MadeRoom(n)'
    <3> SUFFICES ASSUME NEW n \in Gone'
                 PROVE  MadeRoom(n)'
      OBVIOUS
    <3>1. n \in 1..created /\ MadeRoom(n)
      BY <2>1, <2>2
    <3> QED
      BY <1>2, <3>1
  <2> QED
    BY <2>3 DEF GoneMadeRoom
<1>15. Spaced'
  <2> SUFFICES ASSUME gap > 0, NEW m \in 1..created', NEW n \in 1..created', m < n
               PROVE  stamps'[m] < stamps'[n]
    BY <1>1 DEF Spaced
  <2>1. m \in 1..created /\ stamps'[m] = stamps[m]
    BY <1>2, <1>3
  <2>2. CASE n = created + 1
    <3>1. created > 0 /\ latest = stamps[created]
      BY <1>3, <2>1 DEF latest, created
    <3>2. stamps[m] <= stamps[created]
      BY <1>3, <2>1 DEF IInv, Spaced
    <3>3. created \in 1..created /\ stamps[created] \in Nat /\ stamps[m] \in Nat
      BY <1>3, <2>1, <3>1
    <3>4. now >= stamps[created] + gap
      BY <1>1, <3>1
    <3>5. stamps'[n] = now /\ stamps'[m] = stamps[m]
      BY <1>2, <2>1, <2>2
    <3>6. stamps[m] < now
      BY <1>3, <3>2, <3>3, <3>4
    <3> QED
      BY <3>5, <3>6
  <2>3. CASE n # created + 1
    <3>1. n \in 1..created
      BY <1>2, <1>3, <2>3
    <3> QED
      BY <1>2, <2>1, <3>1 DEF IInv, Spaced
  <2> QED
    BY <2>2, <2>3
<1>16. VersionsLag'
  <2>1. ASSUME NEW S
        PROVE  /\ Cardinality(copies \ S) \in Nat
               /\ Cardinality(copies' \ S) \in Nat
               /\ Cardinality(copies' \ S) <= Cardinality(copies \ S) + 1
    <3>1. IsFiniteSet(copies)
      BY <1>1, FinitelyMany DEF IInv, CopiesOnRecord, TypeOK
    <3>2. IsFiniteSet(copies \ S) /\ Cardinality(copies \ S) \in Nat
      BY <3>1, OneLess
    <3>3. copies' \ S \subseteq (copies \ S) \cup {new}
      BY <1>1
    <3> QED
      BY <3>2, <3>3, OneMore
  <2>2. Cardinality(copies' \ cache') <= Len(watch')
    <3>1. Cardinality(copies \ cache) <= Len(watch)
      BY DEF IInv, VersionsLag
    <3>2. Cardinality(copies \ cache) \in Nat /\ Cardinality(copies' \ cache) \in Nat
          /\ Cardinality(copies' \ cache) <= Cardinality(copies \ cache) + 1
      BY <2>1
    <3> QED
      BY <1>1, <1>8, <3>1, <3>2
  <2>3. ASSUME NEW v \in DOMAIN watch'
        PROVE  Cardinality(copies' \ watch'[v]) <= Len(watch') - v
    <3>1. CASE v = Len(watch) + 1
      <4>1. copies' \ watch'[v] = {}
        BY <1>8, <3>1
      <4>2. Cardinality(copies' \ watch'[v]) = 0
        BY <4>1, FS_EmptySet
      <4> QED
        BY <1>8, <3>1, <4>2
    <3>2. CASE v # Len(watch) + 1
      <4>1. v \in DOMAIN watch /\ watch'[v] = watch[v] /\ v \in Nat
        BY <1>8, <3>2
      <4>2. Cardinality(copies \ watch[v]) <= Len(watch) - v
        BY <4>1 DEF IInv, VersionsLag
      <4>3. Cardinality(copies \ watch[v]) \in Nat /\ Cardinality(copies' \ watch[v]) \in Nat
            /\ Cardinality(copies' \ watch[v]) <= Cardinality(copies \ watch[v]) + 1
        BY <2>1
      <4> QED
        BY <1>8, <4>1, <4>2, <4>3
    <3> QED
      BY <3>1, <3>2
  <2> QED
    BY <2>2, <2>3 DEF VersionsLag
<1>17. ListedSoon' /\ FewAreSpared' /\ CopiesBounded'
  BY <1>1, <1>3, <1>8 DEF ListedSoon, FewAreSpared, CopiesBounded
<1> QED
  BY <1>9, <1>12, <1>13, <1>14, <1>15, <1>16, <1>17 DEF IInv

\* The copies are what the cache knows of them and what it has not heard of yet.
LEMMA KnownAndUnheard ==
    ASSUME IInv, pc = "rotate", NEW D, D \subseteq cache
    PROVE  /\ IsFiniteSet(cache) /\ IsFiniteSet(cache \ D) /\ IsFiniteSet(copies \ D)
           /\ Cardinality(cache \ D) \in Nat
           /\ Cardinality(cache \ D) = Cardinality(cache) - Cardinality(D)
           /\ Cardinality(copies \ D) \in Nat
           /\ Cardinality(copies \ D) <= Cardinality(cache \ D) + MaxLag + 1
<1>1. TypeOK /\ OnRecord(cache) /\ OnRecord(copies) /\ cache \subseteq Copy /\ copies \subseteq Copy
  BY DEF IInv, CopiesOnRecord, TypeOK
<1>2. IsFiniteSet(cache) /\ IsFiniteSet(copies)
  BY <1>1, FinitelyMany
<1>3. /\ IsFiniteSet(cache \ D) /\ Cardinality(cache \ D) \in Nat
      /\ IsFiniteSet(copies \ cache) /\ Cardinality(copies \ cache) \in Nat
      /\ IsFiniteSet(copies \ D)
  BY <1>2, OneLess
<1>4. Cardinality(cache \ D) = Cardinality(cache) - Cardinality(D)
  <2>1. cache \cap D = D
    OBVIOUS
  <2> QED
    BY <1>2, <2>1, FS_Difference
<1>5. Cardinality(copies \ cache) <= MaxLag + 1
  <2>1. Cardinality(copies \ cache) <= Len(watch) /\ Len(watch) <= MaxLag + 1
    BY DEF IInv, VersionsLag, ListedSoon
  <2>2. Len(watch) \in Nat /\ MaxLag \in Nat
    BY <1>1, Numbers DEF TypeOK
  <2> QED
    BY <1>3, <2>1, <2>2
<1> DEFINE both == (cache \ D) \cup (copies \ cache)
<1>6. /\ IsFiniteSet(both)
      /\ Cardinality(both) = Cardinality(cache \ D) + Cardinality(copies \ cache)
           - Cardinality((cache \ D) \cap (copies \ cache))
  BY <1>3, FS_Union
<1>7. (cache \ D) \cap (copies \ cache) = {}
  OBVIOUS
<1>8. Cardinality((cache \ D) \cap (copies \ cache)) = 0
  BY <1>7, FS_EmptySet
<1>9. copies \ D \subseteq both
  OBVIOUS
<1> HIDE DEF both
<1>10. Cardinality(copies \ D) \in Nat /\ Cardinality(copies \ D) <= Cardinality(both)
  BY <1>6, <1>9, OneLess
<1>11. MaxLag \in Nat
  BY RetentionAssumption
<1> QED
  BY <1>2, <1>3, <1>4, <1>5, <1>6, <1>8, <1>10, <1>11

\* The list fails.
LEMMA ListFailsKeeps ==
    ASSUME IInv, ListFails
    PROVE  IInv'
<1>1. /\ pc = "rotate" /\ pc' = "idle" /\ faults < MaxFaults /\ faults' = faults + 1
      /\ UNCHANGED <<gap, copies, watch, cache, now, stamps, doomed, clean>>
  BY DEF ListFails, Fault
<1>2. OnRecord(doomed')
  BY <1>1 DEF IInv, CopiesOnRecord
<1>3. /\ CopiesOnRecord' /\ GoneMadeRoom' /\ Spaced' /\ VersionsLag'
      /\ created' = created
  BY <1>1, <1>2, Elsewhere
<1>4. faults' \in 0..MaxFaults
  BY <1>1, RetentionAssumption DEF IInv, TypeOK
<1>5. TypeOK'
  BY <1>1, <1>3, <1>4 DEF IInv, TypeOK
<1>6. DoomedMadeRoom' /\ ListedSoon' /\ FewAreSpared'
  BY <1>1, <1>3 DEF IInv, TypeOK, DoomedMadeRoom, ListedSoon, FewAreSpared
<1>7. CopiesBounded'
  BY <1>1 DEF IInv, ListedSoon, CopiesBounded
<1> QED
  BY <1>3, <1>5, <1>6, <1>7 DEF IInv

\* Nothing is to be deleted.
LEMMA KeepAllKeeps ==
    ASSUME IInv, KeepAll
    PROVE  IInv'
<1>1. /\ pc = "rotate" /\ pc' = "idle" /\ clean' = TRUE /\ Cardinality(cache) <= MaxCopies
      /\ UNCHANGED <<gap, copies, watch, cache, now, stamps, doomed, faults>>
  BY DEF KeepAll
<1>2. OnRecord(doomed')
  BY <1>1 DEF IInv, CopiesOnRecord
<1>3. /\ CopiesOnRecord' /\ GoneMadeRoom' /\ Spaced' /\ VersionsLag'
      /\ created' = created
  BY <1>1, <1>2, Elsewhere
<1>4. TypeOK'
  BY <1>1, <1>3 DEF IInv, TypeOK
<1>5. DoomedMadeRoom' /\ ListedSoon' /\ FewAreSpared'
  BY <1>1, <1>3 DEF IInv, TypeOK, DoomedMadeRoom, ListedSoon, FewAreSpared
<1>6. CopiesBounded'
  <2>1. cache \ {} = cache /\ copies \ {} = copies /\ {} \subseteq cache
    OBVIOUS
  <2>2. /\ Cardinality(cache) \in Nat /\ Cardinality(copies) \in Nat
        /\ Cardinality(copies) <= Cardinality(cache) + MaxLag + 1
    BY <1>1, <2>1, KnownAndUnheard
  <2>3. Cardinality(copies) <= MaxCopies + MaxLag + 1
    BY <1>1, <2>2, RetentionAssumption
  <2> QED
    BY <1>1, <2>3 DEF CopiesBounded
<1> QED
  BY <1>3, <1>4, <1>5, <1>6 DEF IInv

\* The oldest of the list are to be deleted.
LEMMA StartDeletingKeeps ==
    ASSUME IInv, StartDeleting
    PROVE  IInv'
<1>1. /\ pc = "rotate" /\ pc' = "delete" /\ clean' = TRUE
      /\ Cardinality(cache) > MaxCopies
      /\ doomed' \subseteq cache
      /\ Cardinality(doomed') = Cardinality(cache) - MaxCopies
      /\ \A d \in doomed', k \in cache \ doomed' : d.stamp <= k.stamp
      /\ UNCHANGED <<gap, copies, watch, cache, now, stamps, faults>>
  BY DEF StartDeleting, FirstOf
<1>2. TypeOK /\ OnRecord(cache) /\ cache \subseteq Copy
  BY DEF IInv, CopiesOnRecord, TypeOK
<1>3. OnRecord(doomed')
  BY <1>1, <1>2 DEF OnRecord
<1>4. /\ CopiesOnRecord' /\ GoneMadeRoom' /\ Spaced' /\ VersionsLag'
      /\ created' = created
  BY <1>1, <1>3, Elsewhere
<1>5. TypeOK'
  <2>1. doomed' \in SUBSET Copy
    BY <1>1, <1>2
  <2> QED
    BY <1>1, <1>2, <1>4, <2>1 DEF TypeOK
<1> DEFINE spared == cache \ doomed'
<1>6. /\ Cardinality(spared) = MaxCopies
      /\ Cardinality(copies \ doomed') <= MaxCopies + MaxLag + 1
  <2>1. /\ Cardinality(spared) \in Nat
        /\ Cardinality(spared) = Cardinality(cache) - Cardinality(doomed')
        /\ Cardinality(copies \ doomed') \in Nat
        /\ Cardinality(copies \ doomed') <= Cardinality(spared) + MaxLag + 1
    BY <1>1, KnownAndUnheard
  <2>2. Cardinality(cache) \in Nat /\ MaxCopies \in Nat /\ MaxLag \in Nat
    BY <1>2, FinitelyMany, RetentionAssumption
  <2> QED
    BY <1>1, <2>1, <2>2
<1>7. DoomedMadeRoom'
  <2> SUFFICES ASSUME NEW d \in doomed'
               PROVE  MadeRoom(d.number)
    BY <1>1, <1>4 DEF DoomedMadeRoom, MadeRoom, Newer
  <2>1. d \in cache /\ d.number \in 1..created /\ d.stamp = stamps[d.number]
    BY <1>1, <1>2 DEF OnRecord
  <2>2. \A c \in spared : c.number # d.number /\ c.stamp >= stamps[d.number]
    <3> SUFFICES ASSUME NEW c \in spared
                 PROVE  c.number # d.number /\ c.stamp >= stamps[d.number]
      OBVIOUS
    <3>1. c \in Copy /\ d \in Copy /\ c # d /\ c.stamp = stamps[c.number]
      BY <1>1, <1>2 DEF OnRecord
    <3>2. d.stamp <= c.stamp /\ d.stamp \in Nat /\ c.stamp \in Nat
      BY <1>1, <3>1 DEF Copy
    <3>3. c.number # d.number
      BY <2>1, <3>1 DEF Copy
    <3> QED
      BY <2>1, <3>2, <3>3
  <2>3. OnRecord(spared) /\ spared \subseteq Copy
    BY <1>2 DEF OnRecord
  <2>4. Cardinality(spared) >= MaxCopies
    BY <1>6, RetentionAssumption
  <2> HIDE DEF spared
  <2> QED
    BY <1>2, <2>1, <2>2, <2>3, <2>4, SparedMakeRoom
<1>8. ListedSoon' /\ CopiesBounded'
  BY <1>1 DEF ListedSoon, CopiesBounded
<1>9. FewAreSpared'
  BY <1>1, <1>6 DEF FewAreSpared
<1> QED
  BY <1>4, <1>5, <1>7, <1>8, <1>9 DEF IInv

\* A copy that was listed is deleted, was gone already, or stays because the call
\* fails.
LEMMA DeleteKeeps ==
    ASSUME IInv, DeleteNext
    PROVE  IInv'
<1>1. PICK d \in doomed :
         /\ doomed' = doomed \ {d}
         /\ \/ /\ IF d \in copies THEN Store(copies \ {d}) ELSE UNCHANGED <<copies, watch>>
               /\ UNCHANGED <<clean, faults>>
            \/ /\ Fault
               /\ clean' = FALSE
               /\ UNCHANGED <<copies, watch>>
  BY DEF DeleteNext
<1>2. /\ pc = "delete" /\ pc' = "delete" /\ UNCHANGED <<gap, cache, now, stamps>>
      /\ TypeOK /\ doomed \subseteq Copy /\ OnRecord(doomed) /\ OnRecord(copies)
  BY DEF DeleteNext, IInv, CopiesOnRecord, TypeOK
<1>3. /\ OnRecord(doomed') /\ doomed' \in SUBSET Copy /\ created' = created
      /\ faults' \in 0..MaxFaults /\ clean' \in BOOLEAN
  <2>1. faults' \in 0..MaxFaults
    BY <1>1, RetentionAssumption DEF Fault, IInv, TypeOK
  <2>2. clean' \in BOOLEAN
    BY <1>1 DEF IInv, TypeOK
  <2> QED
    BY <1>1, <1>2, <2>1, <2>2 DEF OnRecord, created
<1>4. DoomedMadeRoom' /\ ListedSoon' /\ CopiesBounded'
  BY <1>1, <1>2, <1>3 DEF IInv, DoomedMadeRoom, MadeRoom, Newer, ListedSoon, CopiesBounded
<1>5. CASE UNCHANGED <<copies, watch>>
  <2>1. CopiesOnRecord' /\ GoneMadeRoom' /\ Spaced' /\ VersionsLag'
    BY <1>2, <1>3, <1>5, Elsewhere
  <2>2. TypeOK'
    BY <1>2, <1>3, <1>5 DEF TypeOK
  <2>3. FewAreSpared'
    <3>1. clean' => clean /\ d \notin copies
      <4>1. CASE d \in copies
        <5>1. Store(copies \ {d}) => copies' # copies
          BY <4>1 DEF Store
        <5> QED
          BY <1>1, <1>5, <4>1, <5>1
      <4>2. CASE d \notin copies
        BY <1>1, <4>2
      <4> QED
        BY <4>1, <4>2
    <3>2. d \notin copies => copies' \ doomed' = copies \ doomed
      BY <1>1, <1>5
    <3>3. clean' => Cardinality(copies' \ doomed') <= MaxCopies + MaxLag + 1
      BY <1>2, <3>1, <3>2 DEF IInv, FewAreSpared
    <3> QED
      BY <3>3 DEF FewAreSpared
  <2> QED
    BY <1>4, <2>1, <2>2, <2>3 DEF IInv
<1>6. CASE ~UNCHANGED <<copies, watch>>
  <2>1. /\ d \in copies /\ copies' = copies \ {d} /\ watch' = Append(watch, copies')
        /\ UNCHANGED <<clean, faults>>
    BY <1>1, <1>6 DEF Store
  <2>2. copies' \in SUBSET Copy
    BY <1>2, <2>1 DEF TypeOK
  <2> DEFINE T == SUBSET Copy
  <2>3. watch \in Seq(T) /\ copies' \in T
    BY <1>2, <2>2 DEF TypeOK
  <2> HIDE DEF T
  <2>4. /\ Len(watch) \in Nat /\ DOMAIN watch = 1..Len(watch)
        /\ watch' \in Seq(T) /\ Len(watch') = Len(watch) + 1 /\ DOMAIN watch' = 1..(Len(watch) + 1)
        /\ \A v \in 1..Len(watch) : watch'[v] = watch[v]
        /\ watch'[Len(watch) + 1] = copies'
    BY <2>1, <2>3
  <2>5. TypeOK'
    <3>1. watch' \in Seq(SUBSET Copy)
      BY <2>4 DEF T
    <3> QED
      BY <1>2, <1>3, <2>2, <3>1 DEF TypeOK
  <2>6. OnRecord(copies')
    BY <1>2, <2>1 DEF OnRecord
  <2>7. \A v \in DOMAIN watch' : OnRecord(watch'[v])
    <3>1. \A v \in DOMAIN watch : OnRecord(watch[v])
      BY DEF IInv, CopiesOnRecord
    <3> QED
      BY <2>4, <2>6, <3>1
  <2>8. CopiesOnRecord'
    BY <1>2, <1>3, <2>6, <2>7 DEF IInv, CopiesOnRecord, OnRecord
  <2>9. GoneMadeRoom'
    <3>1. ASSUME NEW n \in 1..created, \A c \in copies' : c.number # n
          PROVE  MadeRoom(n)
      <4>1. CASE n \in Gone
        BY <4>1 DEF IInv, GoneMadeRoom
      <4>2. CASE n \notin Gone
        <5>1. PICK c \in copies : c.number = n
          BY <3>1, <4>2 DEF Gone
        <5>2. c = d
          BY <2>1, <3>1, <5>1
        <5> QED
          BY <5>1, <5>2 DEF IInv, DoomedMadeRoom
      <4> QED
        BY <4>1, <4>2
    <3> QED
      BY <1>2, <1>3, <3>1 DEF GoneMadeRoom, Gone, MadeRoom, Newer
  <2>10. Spaced'
    BY <1>2, <1>3 DEF IInv, Spaced
  <2>11. VersionsLag'
    <3>1. ASSUME NEW S
          PROVE  /\ Cardinality(copies \ S) \in Nat
                 /\ Cardinality(copies' \ S) \in Nat
                 /\ Cardinality(copies' \ S) <= Cardinality(copies \ S)
      <4>1. IsFiniteSet(copies)
        BY <1>2, FinitelyMany DEF TypeOK
      <4>2. IsFiniteSet(copies \ S)
        BY <4>1, OneLess
      <4>3. copies' \ S \subseteq copies \ S
        BY <2>1
      <4> QED
        BY <4>2, <4>3, OneLess
    <3>2. Cardinality(copies' \ cache') <= Len(watch')
      <4>1. Cardinality(copies \ cache) <= Len(watch)
        BY DEF IInv, VersionsLag
      <4>2. /\ Cardinality(copies \ cache) \in Nat /\ Cardinality(copies' \ cache) \in Nat
            /\ Cardinality(copies' \ cache) <= Cardinality(copies \ cache)
        BY <3>1
      <4> QED
        BY <1>2, <2>4, <4>1, <4>2
    <3>3. ASSUME NEW v \in DOMAIN watch'
          PROVE  Cardinality(copies' \ watch'[v]) <= Len(watch') - v
      <4>1. CASE v = Len(watch) + 1
        <5>1. copies' \ watch'[v] = {}
          BY <2>4, <4>1
        <5>2. Cardinality(copies' \ watch'[v]) = 0
          BY <5>1, FS_EmptySet
        <5> QED
          BY <2>4, <4>1, <5>2
      <4>2. CASE v # Len(watch) + 1
        <5>1. v \in DOMAIN watch /\ watch'[v] = watch[v] /\ v \in Nat
          BY <2>4, <4>2
        <5>2. Cardinality(copies \ watch[v]) <= Len(watch) - v
          BY <5>1 DEF IInv, VersionsLag
        <5>3. /\ Cardinality(copies \ watch[v]) \in Nat /\ Cardinality(copies' \ watch[v]) \in Nat
              /\ Cardinality(copies' \ watch[v]) <= Cardinality(copies \ watch[v])
          BY <3>1
        <5> QED
          BY <2>4, <5>1, <5>2, <5>3
      <4> QED
        BY <4>1, <4>2
    <3> QED
      BY <3>2, <3>3 DEF VersionsLag
  <2>12. FewAreSpared'
    <3>1. copies' \ doomed' = copies \ doomed
      BY <1>1, <2>1
    <3> QED
      BY <1>2, <2>1, <3>1 DEF IInv, FewAreSpared
  <2> QED
    BY <1>4, <2>5, <2>8, <2>9, <2>10, <2>11, <2>12 DEF IInv
<1> QED
  BY <1>5, <1>6

\* The loop is over.
LEMMA FinishKeeps ==
    ASSUME IInv, Finish
    PROVE  IInv'
<1>1. /\ pc = "delete" /\ pc' = "idle" /\ doomed = {}
      /\ UNCHANGED <<gap, copies, watch, cache, now, stamps, doomed, clean, faults>>
  BY DEF Finish
<1>2. OnRecord(doomed')
  BY <1>1 DEF OnRecord
<1>3. /\ CopiesOnRecord' /\ GoneMadeRoom' /\ Spaced' /\ VersionsLag'
      /\ created' = created
  BY <1>1, <1>2, Elsewhere
<1>4. TypeOK'
  BY <1>1, <1>3 DEF IInv, TypeOK
<1>5. DoomedMadeRoom' /\ ListedSoon' /\ FewAreSpared'
  BY <1>1 DEF DoomedMadeRoom, ListedSoon, FewAreSpared
<1>6. CopiesBounded'
  <2>1. copies \ doomed = copies
    BY <1>1
  <2> QED
    BY <1>1, <2>1 DEF IInv, FewAreSpared, CopiesBounded
<1> QED
  BY <1>3, <1>4, <1>5, <1>6 DEF IInv

\* The operator dies and is restarted.
LEMMA RestartKeeps ==
    ASSUME IInv, Restart
    PROVE  IInv'
<1>1. /\ pc' = "idle" /\ doomed' = {} /\ cache' = copies /\ watch' = <<>> /\ clean' = FALSE
      /\ faults < MaxFaults /\ faults' = faults + 1
      /\ UNCHANGED <<gap, copies, now, stamps>>
  BY DEF Restart, Fault
<1>2. created' = created
  BY <1>1 DEF created
<1>3. TypeOK'
  <2>1. faults' \in 0..MaxFaults
    BY <1>1, RetentionAssumption DEF IInv, TypeOK
  <2>2. watch' \in Seq(SUBSET Copy)
    BY <1>1
  <2> QED
    BY <1>1, <1>2, <2>1, <2>2 DEF IInv, TypeOK
<1>4. CopiesOnRecord'
  <2>1. \A v \in DOMAIN watch' : FALSE
    BY <1>1
  <2> QED
    BY <1>1, <1>2, <2>1 DEF IInv, CopiesOnRecord, OnRecord
<1>5. GoneMadeRoom' /\ DoomedMadeRoom'
  BY <1>1, <1>2 DEF IInv, GoneMadeRoom, DoomedMadeRoom, Gone, MadeRoom, Newer
<1>6. Spaced'
  BY <1>1, <1>2 DEF IInv, Spaced
<1>7. VersionsLag'
  <2>1. copies' \ cache' = {}
    BY <1>1
  <2>2. Cardinality(copies' \ cache') = 0
    BY <2>1, FS_EmptySet
  <2>3. Len(watch') = 0 /\ \A v \in DOMAIN watch' : FALSE
    BY <1>1
  <2> QED
    BY <2>2, <2>3 DEF VersionsLag
<1>8. ListedSoon' /\ FewAreSpared' /\ CopiesBounded'
  BY <1>1 DEF ListedSoon, FewAreSpared, CopiesBounded
<1> QED
  BY <1>3, <1>4, <1>5, <1>6, <1>7, <1>8 DEF IInv

\* Every step keeps the invariant.
LEMMA Inductive == IInv /\ [Next]_vars => IInv'
<1> SUFFICES ASSUME IInv, [Next]_vars
             PROVE  IInv'
  OBVIOUS
<1>1. CASE UNCHANGED vars
  <2>1. /\ UNCHANGED <<gap, copies, watch, cache, now, stamps>>
        /\ UNCHANGED <<pc, doomed, clean, faults>>
    BY <1>1 DEF vars
  <2>2. OnRecord(doomed')
    BY <2>1 DEF IInv, CopiesOnRecord
  <2>3. /\ CopiesOnRecord' /\ GoneMadeRoom' /\ Spaced' /\ VersionsLag'
        /\ created' = created
    BY <2>1, <2>2, Elsewhere
  <2>4. TypeOK' /\ DoomedMadeRoom' /\ ListedSoon' /\ FewAreSpared' /\ CopiesBounded'
    BY <2>1, <2>3
       DEF IInv, TypeOK, DoomedMadeRoom, MadeRoom, Newer, ListedSoon, FewAreSpared, CopiesBounded
  <2> QED
    BY <2>3, <2>4 DEF IInv
<1> QED
  BY <1>1, DeliverKeeps, TickKeeps, PersistKeeps, ListFailsKeeps, KeepAllKeeps,
     StartDeletingKeeps, DeleteKeeps, FinishKeeps, RestartKeeps
     DEF Next

-----------------------------------------------------------------------------
(* The theorems.                                                             *)

\* The invariant holds for any number of copies to keep, any lag and any faults.
THEOREM Invariance == Spec => []IInv
BY Initially, Inductive, PTL DEF Spec

\* A copy is deleted only when enough others are no older, on whatever old list the
\* rotation acts and wherever it is cut off (srepolicy_controller.go:679-696).
THEOREM DeletionMadeRoom == Spec => []GoneMadeRoom
<1>1. IInv => GoneMadeRoom
  BY DEF IInv
<1> QED
  BY <1>1, Invariance, PTL

\* A rotation without a failed call leaves no more copies than are to be kept and
\* the cache had not heard of (srepolicy_controller.go:679-696).
THEOREM BoundRestored == Spec => []CopiesBounded
<1>1. IInv => CopiesBounded
  BY DEF IInv
<1> QED
  BY <1>1, Invariance, PTL

\* The last copies are kept if each is of a second of its own
\* (srepolicy_controller.go:683-690).
THEOREM LastAreKept == Spec => []LastCopiesKept
<1>1. ASSUME IInv, gap > 0, NEW n \in Gone
      PROVE  created - n >= MaxCopies
  <2>1. n \in 1..created /\ MadeRoom(n)
    BY <1>1 DEF IInv, GoneMadeRoom, Gone
  <2>2. /\ created \in Nat /\ MaxCopies \in Nat
        /\ \A m \in 1..created : stamps[m] \in Nat
    BY <1>1, Numbers DEF IInv
  <2>3. Newer(n) \subseteq (n + 1)..created
    <3> SUFFICES ASSUME NEW m \in 1..created, m # n, stamps[m] >= stamps[n], ~(m > n)
                 PROVE  FALSE
      BY <2>1, <2>2 DEF Newer
    <3>1. m < n /\ stamps[m] \in Nat /\ stamps[n] \in Nat
      BY <2>1, <2>2
    <3>2. stamps[m] < stamps[n]
      BY <1>1, <2>1, <3>1 DEF IInv, Spaced
    <3> QED
      BY <3>1, <3>2
  <2>4. /\ IsFiniteSet((n + 1)..created)
        /\ Cardinality((n + 1)..created) = created - n
    <3>1. n + 1 \in Int /\ created \in Int
      BY <2>1, <2>2
    <3>2. /\ IsFiniteSet((n + 1)..created)
          /\ Cardinality((n + 1)..created) =
                IF n + 1 > created THEN 0 ELSE created - (n + 1) + 1
      BY <3>1, FS_Interval
    <3> QED
      BY <2>1, <2>2, <3>2
  <2>5. /\ Cardinality(Newer(n)) \in Nat
        /\ Cardinality(Newer(n)) <= Cardinality((n + 1)..created)
    BY <2>3, <2>4, OneLess
  <2> QED
    BY <2>1, <2>2, <2>4, <2>5 DEF MadeRoom
<1>2. IInv => LastCopiesKept
  BY <1>1 DEF LastCopiesKept
<1> QED
  BY <1>2, Invariance, PTL
=============================================================================
