--------------------------- MODULE ConditionsProofs ---------------------------
(* Proofs about module Conditions, for any policies, endpoints and bounds.  *)
EXTENDS Conditions, TLAPS

-----------------------------------------------------------------------------
(* Objects and their conditions.                                           *)

\* The object new has the condition, and is else as old.
SetOn(new, old, type, ok) ==
    /\ new \in Object
    /\ new.conditions[type] = [ok |-> ok, cycle |-> cycles]
    /\ \A t \in Types \ {type} : new.conditions[t] = old.conditions[t]
    /\ new.version = old.version /\ new.paused = old.paused
    /\ new.triggers = old.triggers /\ new.phase = old.phase
    /\ new.scan = old.scan /\ new.firing = old.firing

\* What With returns.
LEMMA WithFacts ==
    ASSUME cycles \in Nat, NEW obj \in Object, NEW type \in Types, NEW ok \in BOOLEAN
    PROVE  SetOn(With(obj, type, ok), obj, type, ok)
<1> DEFINE c == [ok |-> ok, cycle |-> cycles]
<1>1. c \in Condition
  BY DEF Condition
<1>2. obj.conditions \in [Types -> Condition]
  BY DEF Object
<1>3. With(obj, type, ok) = [obj EXCEPT !.conditions = [obj.conditions EXCEPT ![type] = c]]
  BY DEF With
<1>4. [obj.conditions EXCEPT ![type] = c] \in [Types -> Condition]
  BY <1>1, <1>2
<1> QED
  BY <1>1, <1>2, <1>3, <1>4 DEF Object, SetOn

\* Two objects that agree in all but their conditions.
LEMMA SameButConditions ==
    ASSUME NEW a \in Object, NEW b \in Object
    PROVE  [a EXCEPT !.conditions = b.conditions] = b
             <=> /\ a.version = b.version /\ a.paused = b.paused
                 /\ a.triggers = b.triggers /\ a.phase = b.phase
                 /\ a.scan = b.scan /\ a.firing = b.firing
  BY DEF Object

-----------------------------------------------------------------------------
(* The parts of the invariant that speak of the call in progress.          *)

Called ==
    /\ pc \in Checking => ~policy.paused
    /\ pc # "idle" => policy.version <= stored[name].version
    /\ SharedIsCopied
    /\ CycleSoFar
    /\ CurrentCopy

-----------------------------------------------------------------------------
(* Setting a condition.                                                    *)

\* The step of setCondition, from a copy that differs from the call's in its scan
\* time, count or phase at most, on a condition the cycle has not come to yet.
SetsCondition(copy, type, ok) ==
    /\ pc \in Checking
    /\ copy \in Object
    /\ copy.version = policy.version
    /\ copy.paused = policy.paused
    /\ copy.conditions = policy.conditions
    /\ type \in Pending
    /\ ok \in BOOLEAN
    /\ SetCondition(copy, type, ok)
    /\ UNCHANGED <<stored, cycles, name>>

\* What is pending is a condition.
LEMMA PendingTypes == Pending \subseteq Types
  BY DEF Pending, Types

\* Its effect on the cache: at most one condition of the call's policy changes
\* there, one that the policy has, to the cycle in progress.
LEMMA SetConditionCache ==
    ASSUME IInv, NEW copy, NEW type, NEW ok, SetsCondition(copy, type, ok)
    PROVE  /\ cached' \in [Policies -> Object]
           /\ \A p \in Policies :
                 /\ cached'[p].version = cached[p].version
                 /\ cached'[p].paused = cached[p].paused
                 /\ cached'[p].triggers = cached[p].triggers
                 /\ cached'[p].phase = cached[p].phase
                 /\ cached'[p].scan = cached[p].scan
                 /\ cached'[p].firing = cached[p].firing
                 /\ \A t \in Types :
                       \/ cached'[p].conditions[t] = cached[p].conditions[t]
                       \/ /\ p = name /\ t = type /\ shared
                          /\ cached[p].conditions[t] # NotThere
                          /\ cached'[p].conditions[t].cycle = cycles
<1>1. CASE cached' = cached
  BY <1>1 DEF IInv, TypeOK
<1>2. CASE /\ copy.conditions[type] # NotThere
           /\ shared
           /\ cached' = [cached EXCEPT ![name] = With(cached[name], type, ok)]
  <2> DEFINE w == With(cached[name], type, ok)
  <2>1. /\ cached \in [Policies -> Object] /\ name \in Policies /\ cycles \in Nat
        /\ cached[name] \in Object
    BY DEF IInv, TypeOK
  <2>2. type \in Types /\ ok \in BOOLEAN /\ pc # "idle"
    BY PendingTypes DEF SetsCondition, Checking
  <2>3. /\ w \in Object
        /\ w.conditions[type] = [ok |-> ok, cycle |-> cycles]
        /\ \A t \in Types \ {type} : w.conditions[t] = cached[name].conditions[t]
        /\ w.version = cached[name].version /\ w.paused = cached[name].paused
        /\ w.triggers = cached[name].triggers /\ w.phase = cached[name].phase
        /\ w.scan = cached[name].scan /\ w.firing = cached[name].firing
    <3>1. SetOn(w, cached[name], type, ok)
      BY <2>1, <2>2, WithFacts
    <3> HIDE DEF w
    <3> QED
      BY <3>1 DEF SetOn
  <2>4. cached[name].conditions[type] # NotThere
    BY <1>2, <2>2 DEF IInv, SharedIsCopied, SetsCondition
  <2> HIDE DEF w
  <2>5. cached' = [cached EXCEPT ![name] = w]
    BY <1>2 DEF w
  <2>6. cached' \in [Policies -> Object]
    BY <2>1, <2>3, <2>5
  <2>7. cached'[name] = w /\ \A p \in Policies \ {name} : cached'[p] = cached[p]
    BY <2>1, <2>5
  <2>8. w.conditions[type].cycle = cycles
    BY <2>3
  <2> QED
    BY <1>2, <2>3, <2>4, <2>6, <2>7, <2>8
<1> QED
  BY <1>1, <1>2 DEF SetsCondition, SetCondition

\* Its effect on the copy.
LEMMA SetConditionCopy ==
    ASSUME IInv, NEW copy, NEW type, NEW ok, SetsCondition(copy, type, ok)
    PROVE  /\ policy' \in Object
           /\ shared' \in BOOLEAN
           /\ shared' => shared
           /\ policy'.version = policy.version /\ policy'.paused = policy.paused
           /\ policy'.phase = copy.phase
           /\ policy'.scan = copy.scan /\ policy'.firing = copy.firing
           /\ policy'.conditions[type] = [ok |-> ok, cycle |-> cycles]
           /\ \A t \in Types \ {type} : policy'.conditions[t] = policy.conditions[t]
<1>1. cycles \in Nat /\ type \in Types /\ ok \in BOOLEAN /\ copy \in Object
  BY PendingTypes DEF IInv, TypeOK, SetsCondition
<1>2. policy' = With(copy, type, ok)
  BY DEF SetsCondition, SetCondition
<1>3. shared' \in BOOLEAN /\ (shared' => shared)
  BY DEF IInv, TypeOK, SetsCondition, SetCondition
<1> DEFINE w == With(copy, type, ok)
<1>4. SetOn(w, copy, type, ok)
  BY <1>1, WithFacts
<1> HIDE DEF w
<1>5. policy' = w
  BY <1>2 DEF w
<1> QED
  BY <1>3, <1>4, <1>5 DEF SetsCondition, SetOn

\* The stored and the cached policies stay as they should be.
LEMMA SetConditionPoliced ==
    ASSUME IInv, NEW copy, NEW type, NEW ok, SetsCondition(copy, type, ok)
    PROVE  (PastOnly /\ StatusIsOneCycle /\ CacheHasPhantomsOnly /\ PausedIsExact)'
<1>1. /\ stored' = stored /\ cycles' = cycles /\ name' = name
      /\ pc \in Checking /\ pc # "idle" /\ ~policy.paused
  BY DEF SetsCondition, IInv, Checking
<1>2. /\ stored \in [Policies -> Object] /\ cached \in [Policies -> Object]
      /\ cycles \in Nat /\ name \in Policies
  BY DEF IInv, TypeOK
<1>3. /\ stored[name].scan < cycles
      /\ shared => ~cached[name].paused
  BY <1>1 DEF IInv, CycleSoFar, SharedIsCopied
<1>4. PastOnly'
  <2> SUFFICES ASSUME NEW p \in Policies
               PROVE  /\ stored[p].scan <= cycles
                      /\ cached'[p].version <= stored[p].version
                      /\ \A t \in Types : cached'[p].conditions[t].cycle <= cycles
    BY <1>1 DEF PastOnly
  <2> QED
    BY <1>2, SetConditionCache DEF IInv, PastOnly
<1>5. StatusIsOneCycle'
  BY <1>1 DEF IInv, StatusIsOneCycle, OneCycle
<1>6. CacheHasPhantomsOnly'
  <2> SUFFICES ASSUME NEW p \in Policies, cached'[p].version = stored[p].version
               PROVE  /\ [cached'[p] EXCEPT !.conditions = stored[p].conditions] = stored[p]
                      /\ \A t \in Types :
                            \/ cached'[p].conditions[t] = stored[p].conditions[t]
                            \/ /\ stored[p].conditions[t] # NotThere
                               /\ cached'[p].conditions[t].cycle > stored[p].scan
    BY <1>1 DEF CacheHasPhantomsOnly, PhantomsOnly
  <2>1. /\ cached[p].version = stored[p].version
        /\ cached[p] \in Object /\ cached'[p] \in Object /\ stored[p] \in Object
    BY <1>2, SetConditionCache
  <2>2. /\ [cached[p] EXCEPT !.conditions = stored[p].conditions] = stored[p]
        /\ \A t \in Types :
              \/ cached[p].conditions[t] = stored[p].conditions[t]
              \/ /\ stored[p].conditions[t] # NotThere
                 /\ cached[p].conditions[t].cycle > stored[p].scan
    BY <2>1 DEF IInv, CacheHasPhantomsOnly, PhantomsOnly
  <2>3. [cached'[p] EXCEPT !.conditions = stored[p].conditions] = stored[p]
    <3>1. /\ cached[p].version = stored[p].version /\ cached[p].paused = stored[p].paused
          /\ cached[p].triggers = stored[p].triggers /\ cached[p].phase = stored[p].phase
          /\ cached[p].scan = stored[p].scan /\ cached[p].firing = stored[p].firing
      BY <2>1, <2>2, SameButConditions
    <3>2. /\ cached'[p].version = stored[p].version /\ cached'[p].paused = stored[p].paused
          /\ cached'[p].triggers = stored[p].triggers /\ cached'[p].phase = stored[p].phase
          /\ cached'[p].scan = stored[p].scan /\ cached'[p].firing = stored[p].firing
      BY <3>1, SetConditionCache
    <3> QED
      BY <2>1, <3>2, SameButConditions
  <2>4. ASSUME NEW t \in Types
        PROVE  \/ cached'[p].conditions[t] = stored[p].conditions[t]
               \/ /\ stored[p].conditions[t] # NotThere
                  /\ cached'[p].conditions[t].cycle > stored[p].scan
    <3>1. \/ cached'[p].conditions[t] = cached[p].conditions[t]
          \/ /\ p = name
             /\ cached[p].conditions[t] # NotThere
             /\ cached'[p].conditions[t].cycle = cycles
      BY SetConditionCache
    <3>2. CASE cached'[p].conditions[t] = cached[p].conditions[t]
      BY <2>2, <3>2
    <3>3. CASE /\ p = name
               /\ cached[p].conditions[t] # NotThere
               /\ cached'[p].conditions[t].cycle = cycles
      <4>1. stored[p].conditions[t] # NotThere
        BY <2>2, <3>3
      <4>2. cycles > stored[p].scan
        BY <1>2, <1>3, <2>1, <3>3 DEF Object
      <4> QED
        BY <3>3, <4>1, <4>2
    <3> QED
      BY <3>1, <3>2, <3>3
  <2> QED
    BY <2>3, <2>4
<1>7. PausedIsExact'
  <2> SUFFICES ASSUME NEW p \in Policies, cached'[p].version = stored[p].version,
                      cached'[p].paused
               PROVE  cached'[p].conditions = stored[p].conditions
    BY <1>1 DEF PausedIsExact
  <2>1. cached[p].version = stored[p].version /\ cached[p].paused
    BY SetConditionCache
  <2>2. cached[p].conditions = stored[p].conditions
    BY <2>1 DEF IInv, PausedIsExact
  <2>3. \A t \in Types : cached'[p].conditions[t] = cached[p].conditions[t]
    BY <1>3, <2>1, SetConditionCache
  <2>4. cached[p] \in Object /\ cached'[p] \in Object
    BY <1>2, SetConditionCache
  <2>5. /\ cached[p].conditions \in [Types -> Condition]
        /\ cached'[p].conditions \in [Types -> Condition]
    BY <2>4 DEF Object
  <2>6. cached'[p].conditions = cached[p].conditions
    BY <2>3, <2>5
  <2> QED
    BY <2>2, <2>6
<1> QED
  BY <1>4, <1>5, <1>6, <1>7

\* What holds of the call afterwards, wherever it goes on.
LEMMA SetConditionCalled ==
    ASSUME IInv, NEW copy, NEW type, NEW ok, SetsCondition(copy, type, ok)
    PROVE  /\ ~policy'.paused
           /\ policy'.version <= stored'[name'].version
           /\ shared' =>
                 /\ cached'[name'].version = policy'.version
                 /\ cached'[name'].paused = policy'.paused
                 /\ \A t \in Pending \ {type} :
                       policy'.conditions[t] = cached'[name'].conditions[t]
           /\ stored'[name'].scan < cycles'
           /\ \A t \in Types : policy'.conditions[t].cycle <= cycles'
           /\ policy'.version = stored'[name'].version =>
                 \A t \in Types :
                     \/ policy'.conditions[t] = stored'[name'].conditions[t]
                     \/ policy'.conditions[t].cycle > stored'[name'].scan
<1>1. /\ stored' = stored /\ cycles' = cycles /\ name' = name
      /\ pc \in Checking /\ pc # "idle" /\ ~policy.paused
  BY DEF SetsCondition, IInv, Checking
<1>2. /\ stored \in [Policies -> Object] /\ name \in Policies /\ cycles \in Nat
      /\ stored[name].scan \in Nat
  BY DEF IInv, TypeOK, Object
<1>3. /\ policy'.version = policy.version /\ policy'.paused = policy.paused
      /\ shared' => shared
      /\ policy'.conditions[type].cycle = cycles
      /\ \A t \in Types \ {type} : policy'.conditions[t] = policy.conditions[t]
  <2>1. policy'.conditions[type] = [ok |-> ok, cycle |-> cycles]
    BY SetConditionCopy
  <2>2. policy'.conditions[type].cycle = cycles
    BY <2>1
  <2>3. /\ policy'.version = policy.version /\ policy'.paused = policy.paused
        /\ shared' => shared
    BY SetConditionCopy
  <2>4. \A t \in Types \ {type} : policy'.conditions[t] = policy.conditions[t]
    BY SetConditionCopy
  <2> QED
    BY <2>2, <2>3, <2>4
<1>4. /\ stored[name].scan < cycles
      /\ \A t \in Types : policy.conditions[t].cycle <= cycles
  BY <1>1 DEF IInv, CycleSoFar
<1>5. ASSUME shared'
      PROVE  /\ cached'[name].version = policy'.version
             /\ cached'[name].paused = policy'.paused
             /\ \A t \in Pending \ {type} :
                   policy'.conditions[t] = cached'[name].conditions[t]
  <2>1. /\ cached[name].version = policy.version
        /\ cached[name].paused = policy.paused
        /\ \A t \in Pending : policy.conditions[t] = cached[name].conditions[t]
    BY <1>1, <1>3, <1>5 DEF IInv, SharedIsCopied
  <2>2. /\ cached'[name].version = cached[name].version
        /\ cached'[name].paused = cached[name].paused
        /\ \A t \in Types \ {type} : cached'[name].conditions[t] = cached[name].conditions[t]
    BY <1>2, SetConditionCache
  <2> QED
    BY <1>3, <2>1, <2>2, PendingTypes
<1>6. \A t \in Types : policy'.conditions[t].cycle <= cycles
  BY <1>2, <1>3, <1>4
<1>7. ASSUME policy.version = stored[name].version, NEW t \in Types
      PROVE  \/ policy'.conditions[t] = stored[name].conditions[t]
             \/ policy'.conditions[t].cycle > stored[name].scan
  <2>1. CASE t = type
    BY <1>2, <1>3, <1>4, <2>1
  <2>2. CASE t # type
    BY <1>1, <1>3, <1>7, <2>2 DEF IInv, CurrentCopy
  <2> QED
    BY <2>1, <2>2
<1> QED
  BY <1>1, <1>3, <1>4, <1>5, <1>6, <1>7 DEF IInv

-----------------------------------------------------------------------------
(* Users, the informer and the process.                                    *)

\* An object with another version and spec.
Edited(obj, paused, triggers) ==
    [obj EXCEPT !.version = @ + 1, !.paused = paused, !.triggers = triggers]

\* The object new has the next version, and the status of old.
Succeeds(new, old) ==
    /\ new \in Object
    /\ new.version = old.version + 1
    /\ new.conditions = old.conditions
    /\ new.scan = old.scan /\ new.firing = old.firing

\* What a user's edit makes of an object.
LEMMA EditedFacts ==
    ASSUME NEW obj \in Object, NEW paused \in BOOLEAN, NEW triggers \in BOOLEAN
    PROVE  Succeeds(Edited(obj, paused, triggers), obj)
<1> DEFINE new == Edited(obj, paused, triggers)
<1>1. obj.version + 1 \in Nat
  BY DEF Object
<1>2. new \in Object
  BY <1>1 DEF Object, Edited
<1>3. /\ new.version = obj.version + 1
      /\ new.conditions = obj.conditions
      /\ new.scan = obj.scan /\ new.firing = obj.firing
  BY DEF Object, Edited
<1> HIDE DEF new
<1> QED
  BY <1>2, <1>3 DEF Succeeds, new

\* A user's edit: the copies of the policy there are become old versions.
LEMMA EditKeeps ==
    ASSUME IInv, NEW p \in Policies, Edit(p)
    PROVE  IInv'
<1>1. /\ stored \in [Policies -> Object] /\ cached \in [Policies -> Object]
      /\ cycles \in Nat /\ name \in Policies /\ policy \in Object
  BY DEF IInv, TypeOK
<1>2. PICK paused \in BOOLEAN, triggers \in BOOLEAN :
         stored' = [stored EXCEPT ![p].version = @ + 1, ![p].paused = paused,
                                  ![p].triggers = triggers]
  BY DEF Edit
<1> DEFINE new == Edited(stored[p], paused, triggers)
<1>3. stored' = [stored EXCEPT ![p] = new]
  BY <1>1, <1>2 DEF Edited
<1>4. /\ new \in Object
      /\ new.version = stored[p].version + 1
      /\ new.conditions = stored[p].conditions
      /\ new.scan = stored[p].scan /\ new.firing = stored[p].firing
  <2>1. stored[p] \in Object /\ paused \in BOOLEAN /\ triggers \in BOOLEAN
    BY <1>1, <1>2
  <2>2. Succeeds(new, stored[p])
    BY <2>1, EditedFacts
  <2> HIDE DEF new
  <2> QED
    BY <2>2 DEF Succeeds
<1> HIDE DEF new
<1>5. /\ stored' \in [Policies -> Object]
      /\ stored'[p] = new
      /\ \A q \in Policies \ {p} : stored'[q] = stored[q]
  BY <1>1, <1>3, <1>4
<1>6. UNCHANGED <<cached, config, cycles, pc, name, policy, shared, fetched,
                  lastOTelEndpoint, finished>>
  BY DEF Edit
<1>7. edits' \in Nat
  BY DEF Edit, IInv, TypeOK
<1>8. \A q \in Policies : cached[q].version \in Nat /\ stored[q].version \in Nat
  BY <1>1 DEF Object
<1>9. TypeOK'
  BY <1>5, <1>6, <1>7 DEF IInv, TypeOK
<1>10. PastOnly'
  <2>1. cached[p].version <= new.version
    BY <1>4, <1>8 DEF IInv, PastOnly
  <2> QED
    BY <1>4, <1>5, <1>6, <2>1 DEF IInv, PastOnly
<1>11. StatusIsOneCycle'
  BY <1>4, <1>5 DEF IInv, StatusIsOneCycle, OneCycle
<1>12. cached[p].version # new.version
  BY <1>4, <1>8 DEF IInv, PastOnly
<1>13. CacheHasPhantomsOnly' /\ PausedIsExact'
  <2> SUFFICES ASSUME NEW q \in Policies, cached[q].version = stored'[q].version
               PROVE  /\ PhantomsOnly(q)'
                      /\ cached[q].paused => cached[q].conditions = stored'[q].conditions
    BY <1>6 DEF CacheHasPhantomsOnly, PhantomsOnly, PausedIsExact
  <2>1. q # p
    BY <1>5, <1>12
  <2>2. stored'[q] = stored[q] /\ cached'[q] = cached[q]
    BY <1>5, <1>6, <2>1
  <2>3. PhantomsOnly(q) => PhantomsOnly(q)'
    BY <2>2 DEF PhantomsOnly
  <2> QED
    BY <2>2, <2>3 DEF IInv, CacheHasPhantomsOnly, PausedIsExact
<1>14. pc # "idle" => policy.version <= stored'[name].version
  <2>0. policy.version \in Nat
    BY <1>1 DEF Object
  <2>1. CASE name = p
    BY <1>4, <1>5, <1>8, <2>0, <2>1 DEF IInv
  <2>2. CASE name # p
    BY <1>1, <1>5, <2>2 DEF IInv
  <2> QED
    BY <2>1, <2>2
<1>15. pc # "idle" /\ name = p => policy.version # stored'[name].version
  <2>1. policy.version \in Nat
    BY <1>1 DEF Object
  <2> QED
    BY <1>4, <1>5, <1>8, <2>1 DEF IInv
<1>16. (pc \in Checking => ~policy.paused)'
  BY <1>6 DEF IInv, Checking
<1>17. SharedIsCopied'
  BY <1>6 DEF IInv, SharedIsCopied, Pending
<1>18. CycleSoFar'
  BY <1>1, <1>4, <1>5, <1>6 DEF IInv, CycleSoFar
<1>19. CurrentCopy'
  BY <1>1, <1>5, <1>6, <1>15 DEF IInv, CurrentCopy
<1> QED
  BY <1>6, <1>9, <1>10, <1>11, <1>13, <1>14, <1>16, <1>17, <1>18, <1>19 DEF IInv

\* A change of the configuration touches no policy.
LEMMA EditConfigKeeps ==
    ASSUME IInv, EditConfig
    PROVE  IInv'
<1>1. UNCHANGED <<stored, cached, cycles, pc, name, policy, shared, fetched,
                  lastOTelEndpoint, finished>>
  BY DEF EditConfig
<1>2. TypeOK'
  BY DEF IInv, TypeOK, EditConfig
<1>3. (PastOnly /\ StatusIsOneCycle /\ CacheHasPhantomsOnly /\ PausedIsExact)'
  BY <1>1 DEF IInv, PastOnly, StatusIsOneCycle, OneCycle, CacheHasPhantomsOnly,
              PhantomsOnly, PausedIsExact
<1>4. Called'
  BY <1>1 DEF IInv, Called, Checking, SharedIsCopied, Pending, CycleSoFar, CurrentCopy
<1> QED
  BY <1>2, <1>3, <1>4 DEF IInv, Called

\* A copy that is what is stored has all the cache is asked for.
LEMMA ExactCopies ==
    ASSUME NEW p \in Policies, stored[p] \in Object, cached[p] = stored[p]
    PROVE  PhantomsOnly(p)
<1>1. [stored[p] EXCEPT !.conditions = stored[p].conditions] = stored[p]
  BY SameButConditions
<1> QED
  BY <1>1 DEF PhantomsOnly

\* The cache gets what is stored; the copy of a call loses its slice.
LEMMA DeliverEventKeeps ==
    ASSUME IInv, NEW p \in Policies, DeliverEvent(p)
    PROVE  IInv'
<1>1. /\ stored \in [Policies -> Object] /\ cached \in [Policies -> Object]
      /\ cycles \in Nat /\ name \in Policies /\ policy \in Object
  BY DEF IInv, TypeOK
<1>2. /\ UNCHANGED <<stored, config, edits, cycles, pc, name, policy, fetched,
                     lastOTelEndpoint, finished>>
      /\ shared' = (shared /\ p # name)
  BY DEF DeliverEvent, users
<1>3. /\ cached' \in [Policies -> Object]
      /\ cached'[p] = stored[p]
      /\ \A q \in Policies \ {p} : cached'[q] = cached[q]
  BY <1>1 DEF DeliverEvent
<1>4. TypeOK'
  BY <1>2, <1>3 DEF IInv, TypeOK
<1>5. \A t \in Types : stored[p].conditions[t].cycle <= cycles
  <2> TAKE t \in Types
  <2>1. stored[p].conditions[t].cycle <= stored[p].scan /\ stored[p].scan <= cycles
    BY DEF IInv, StatusIsOneCycle, OneCycle, PastOnly
  <2>2. stored[p].conditions[t].cycle \in Nat /\ stored[p].scan \in Nat
    BY <1>1 DEF Object, Condition
  <2> QED
    BY <1>1, <2>1, <2>2
<1>6. PastOnly'
  <2>1. stored[p].version <= stored[p].version
    BY <1>1 DEF Object
  <2> QED
    BY <1>2, <1>3, <1>5, <2>1 DEF IInv, PastOnly
<1>7. StatusIsOneCycle'
  BY <1>2 DEF IInv, StatusIsOneCycle, OneCycle
<1>8. CacheHasPhantomsOnly' /\ PausedIsExact'
  <2> SUFFICES ASSUME NEW q \in Policies
               PROVE  /\ PhantomsOnly(q)'
                      /\ cached'[q].version = stored[q].version /\ cached'[q].paused =>
                            cached'[q].conditions = stored[q].conditions
    BY <1>2 DEF CacheHasPhantomsOnly, PausedIsExact
  <2>1. CASE q = p
    BY <1>1, <1>2, <1>3, <2>1, ExactCopies, SameButConditions DEF PhantomsOnly
  <2>2. CASE q # p
    <3>1. cached'[q] = cached[q] /\ stored'[q] = stored[q]
      BY <1>2, <1>3, <2>2
    <3>2. PhantomsOnly(q)'
      BY <3>1 DEF IInv, CacheHasPhantomsOnly, PhantomsOnly
    <3> QED
      BY <3>1, <3>2 DEF IInv, PausedIsExact
  <2> QED
    BY <2>1, <2>2
<1>9. SharedIsCopied'
  <2> SUFFICES ASSUME pc # "idle", shared'
               PROVE  /\ cached'[name].version = policy.version
                      /\ cached'[name].paused = policy.paused
                      /\ \A t \in Pending : policy.conditions[t] = cached'[name].conditions[t]
    BY <1>2 DEF SharedIsCopied, Pending
  <2>1. cached'[name] = cached[name] /\ shared
    BY <1>1, <1>2, <1>3
  <2> QED
    BY <2>1 DEF IInv, SharedIsCopied
<1>10. CycleSoFar' /\ CurrentCopy'
  BY <1>2 DEF IInv, CycleSoFar, CurrentCopy
<1> QED
  BY <1>2, <1>4, <1>6, <1>7, <1>8, <1>9, <1>10 DEF IInv, Checking

\* A policy that nobody has touched is an object.
LEMMA NewPolicyType == NewPolicy \in Object
  BY DEF NewPolicy, NotThere, Object, Condition

\* After a restart the cache has what is stored and no call is in progress.
LEMMA RestartKeeps ==
    ASSUME IInv, Restart
    PROVE  IInv'
<1>1. /\ stored \in [Policies -> Object] /\ cycles \in Nat
  BY DEF IInv, TypeOK
<1>2. /\ UNCHANGED <<stored, config, edits, cycles, name, finished>>
      /\ cached' = stored /\ pc' = "idle"
  BY DEF Restart, Return, users
<1>3. TypeOK'
  BY <1>2, NewPolicyType DEF IInv, TypeOK, Restart, Return
<1>4. PastOnly'
  <2> SUFFICES ASSUME NEW p \in Policies
               PROVE  /\ stored[p].scan <= cycles
                      /\ stored[p].version <= stored[p].version
                      /\ \A t \in Types : stored[p].conditions[t].cycle <= cycles
    BY <1>2 DEF PastOnly
  <2>1. /\ stored[p].scan <= cycles
        /\ \A t \in Types : stored[p].conditions[t].cycle <= stored[p].scan
    BY DEF IInv, StatusIsOneCycle, OneCycle, PastOnly
  <2>2. /\ stored[p].scan \in Nat /\ stored[p].version \in Nat
        /\ \A t \in Types : stored[p].conditions[t].cycle \in Nat
    BY <1>1 DEF Object, Condition
  <2> QED
    BY <1>1, <2>1, <2>2
<1>5. StatusIsOneCycle'
  BY <1>2 DEF IInv, StatusIsOneCycle, OneCycle
<1>6. CacheHasPhantomsOnly'
  <2> SUFFICES ASSUME NEW p \in Policies
               PROVE  PhantomsOnly(p)'
    BY DEF CacheHasPhantomsOnly
  <2>1. stored[p] \in Object
    BY <1>1
  <2>2. [stored[p] EXCEPT !.conditions = stored[p].conditions] = stored[p]
    BY <2>1, SameButConditions
  <2> QED
    BY <1>2, <2>2 DEF PhantomsOnly
<1>7. PausedIsExact'
  BY <1>2 DEF PausedIsExact
<1>8. Called'
  BY <1>2 DEF Called, Checking, SharedIsCopied, CycleSoFar, CurrentCopy
<1> QED
  BY <1>3, <1>4, <1>5, <1>6, <1>7, <1>8 DEF IInv, Called

\* A status that was not stored leaves no more behind than its phantoms.
LEMMA UpdateFailsKeeps ==
    ASSUME IInv, UpdateFails
    PROVE  IInv'
<1>1. /\ UNCHANGED <<stored, cached, config, edits, cycles, name, finished>>
      /\ pc' = "idle"
  BY DEF UpdateFails, Return, users
<1>2. TypeOK'
  BY <1>1, NewPolicyType DEF IInv, TypeOK, UpdateFails, Return
<1>3. (PastOnly /\ StatusIsOneCycle /\ CacheHasPhantomsOnly /\ PausedIsExact)'
  BY <1>1 DEF IInv, PastOnly, StatusIsOneCycle, OneCycle, CacheHasPhantomsOnly,
              PhantomsOnly, PausedIsExact
<1>4. Called'
  BY <1>1 DEF Called, Checking, SharedIsCopied, CycleSoFar, CurrentCopy
<1> QED
  BY <1>2, <1>3, <1>4 DEF IInv, Called

-----------------------------------------------------------------------------
(* Reconcile.                                                              *)

\* The copy that Get returns starts with what the cache has.
LEMMA BeginKeeps ==
    ASSUME IInv, NEW p \in Policies, Begin(p)
    PROVE  IInv'
<1>1. /\ stored \in [Policies -> Object] /\ cached \in [Policies -> Object]
      /\ cycles \in Nat /\ cached[p] \in Object
  BY DEF IInv, TypeOK
<1>2. /\ UNCHANGED <<stored, cached, config, edits, fetched, lastOTelEndpoint, finished>>
      /\ name' = p /\ shared' = TRUE
  BY DEF Begin, users
<1>3. /\ stored[p].scan <= cycles
      /\ cached[p].version <= stored[p].version
      /\ \A t \in Types : cached[p].conditions[t].cycle <= cycles
  BY DEF IInv, PastOnly
<1>4. /\ stored[p].scan \in Nat
      /\ \A q \in Policies, t \in Types : cached[q].conditions[t].cycle \in Nat
      /\ \A q \in Policies : stored[q].scan \in Nat
  BY <1>1 DEF Object, Condition
<1>5. (StatusIsOneCycle /\ CacheHasPhantomsOnly /\ PausedIsExact)'
  BY <1>2 DEF IInv, StatusIsOneCycle, OneCycle, CacheHasPhantomsOnly,
              PhantomsOnly, PausedIsExact
<1>6. CASE cached[p].paused
  <2>1. /\ policy' = [cached[p] EXCEPT !.phase = "Paused"]
        /\ pc' = "write" /\ cycles' = cycles
    BY <1>6 DEF Begin
  <2>2. /\ policy' \in Object
        /\ policy'.version = cached[p].version /\ policy'.paused = cached[p].paused
        /\ policy'.conditions = cached[p].conditions
        /\ policy'.scan = cached[p].scan /\ policy'.firing = cached[p].firing
    BY <1>1, <2>1 DEF Object
  <2>3. TypeOK'
    BY <1>2, <2>1, <2>2 DEF IInv, TypeOK
  <2>4. PastOnly'
    BY <1>2, <2>1 DEF IInv, PastOnly
  <2>5. SharedIsCopied' /\ CycleSoFar'
    BY <1>2, <1>6, <2>1, <2>2 DEF SharedIsCopied, Pending, CycleSoFar
  <2>6. CurrentCopy'
    <3> SUFFICES ASSUME cached[p].version = stored[p].version
                 PROVE  /\ cached[p].conditions = stored[p].conditions
                        /\ cached[p].scan = stored[p].scan
                        /\ cached[p].firing = stored[p].firing
      BY <1>2, <1>6, <2>2 DEF CurrentCopy
    <3>1. [cached[p] EXCEPT !.conditions = stored[p].conditions] = stored[p]
      BY DEF IInv, CacheHasPhantomsOnly, PhantomsOnly
    <3>2. cached[p].scan = stored[p].scan /\ cached[p].firing = stored[p].firing
      BY <1>1, <3>1, SameButConditions
    <3> QED
      BY <1>6, <3>2 DEF IInv, PausedIsExact
  <2> QED
    BY <1>2, <1>3, <1>5, <2>1, <2>2, <2>3, <2>4, <2>5, <2>6 DEF IInv, Checking
<1>7. CASE ~cached[p].paused
  <2>1. policy' = cached[p] /\ pc' = "otel" /\ cycles' = cycles + 1
    BY <1>7 DEF Begin
  <2>2. TypeOK'
    BY <1>1, <1>2, <2>1 DEF IInv, TypeOK, Checking
  <2>3. PastOnly'
    BY <1>1, <1>2, <1>4, <2>1 DEF IInv, PastOnly
  <2>4. SharedIsCopied'
    BY <1>2, <2>1 DEF SharedIsCopied
  <2>5. CycleSoFar'
    BY <1>1, <1>2, <1>3, <1>4, <2>1 DEF CycleSoFar
  <2>6. CurrentCopy'
    BY <1>2, <1>7, <2>1 DEF IInv, CacheHasPhantomsOnly, PhantomsOnly, CurrentCopy
  <2> QED
    BY <1>2, <1>3, <1>5, <1>7, <2>1, <2>2, <2>3, <2>4, <2>5, <2>6 DEF IInv
<1> QED
  BY <1>6, <1>7

\* A condition is set: the stored and cached policies are as before, and the call
\* as SetConditionCalled has it.
LEMMA ReconcileOTelKeeps ==
    ASSUME IInv, ReconcileOTel
    PROVE  IInv'
<1>1. /\ pc = "otel" /\ pc' = "ocp" /\ ~policy.paused /\ policy \in Object
      /\ UNCHANGED <<stored, config, edits, cycles, name, finished>>
      /\ fetched' \in {config, NoConfig}
  BY DEF ReconcileOTel, users, IInv, TypeOK, Checking
<1>2. CASE fetched' \notin {NoConfig, lastOTelEndpoint}
  <2>1. SetsCondition(policy, "OTelHealthy", TRUE)
    BY <1>1, <1>2 DEF ReconcileOTel, SetsCondition, Checking, Pending, Types
  <2>2. lastOTelEndpoint' = fetched'
    BY <1>2 DEF ReconcileOTel
  <2>3. policy' \in Object /\ shared' \in BOOLEAN
    BY <2>1, SetConditionCopy
  <2>4. cached' \in [Policies -> Object]
    BY <2>1, SetConditionCache
  <2>5. TypeOK'
    BY <1>1, <2>2, <2>3, <2>4 DEF IInv, TypeOK, Checking
  <2>6. (PastOnly /\ StatusIsOneCycle /\ CacheHasPhantomsOnly /\ PausedIsExact)'
    BY <2>1, SetConditionPoliced
  <2>7. Called'
    <3>1. Pending \ {"OTelHealthy"} = Pending'
      BY <1>1 DEF Pending, Types
    <3> QED
      BY <1>1, <2>1, <3>1, SetConditionCalled
         DEF Called, Checking, SharedIsCopied, CycleSoFar, CurrentCopy
  <2> QED
    BY <2>5, <2>6, <2>7 DEF IInv, Called
<1>3. CASE fetched' \in {NoConfig, lastOTelEndpoint}
  <2>1. UNCHANGED <<lastOTelEndpoint, policy, shared, cached>>
    BY <1>3 DEF ReconcileOTel
  <2>2. TypeOK'
    BY <1>1, <2>1 DEF IInv, TypeOK, Checking
  <2>3. (PastOnly /\ StatusIsOneCycle /\ CacheHasPhantomsOnly /\ PausedIsExact)'
    BY <1>1, <2>1 DEF IInv, PastOnly, StatusIsOneCycle, OneCycle, CacheHasPhantomsOnly,
                      PhantomsOnly, PausedIsExact
  <2>4. Pending' \subseteq Pending
    BY <1>1 DEF Pending, Types
  <2>5. Called'
    BY <1>1, <2>1, <2>4 DEF IInv, Called, Checking, SharedIsCopied, CycleSoFar, CurrentCopy
  <2> QED
    BY <2>2, <2>3, <2>5 DEF IInv, Called
<1> QED
  BY <1>2, <1>3

\* OCPClusterHealthy is set by every cycle, in place if it was there.
LEMMA OCPClusterChecksKeeps ==
    ASSUME IInv, OCPClusterChecks
    PROVE  IInv'
<1>1. /\ pc = "ocp" /\ pc' = "prometheus" /\ ~policy.paused /\ policy \in Object
      /\ UNCHANGED <<stored, config, edits, cycles, name, fetched, lastOTelEndpoint, finished>>
  BY DEF OCPClusterChecks, users, IInv, TypeOK, Checking
<1>2. PICK healthy \in BOOLEAN : SetCondition(policy, "OCPClusterHealthy", healthy)
  BY DEF OCPClusterChecks
<1>3. SetsCondition(policy, "OCPClusterHealthy", healthy)
  BY <1>1, <1>2 DEF SetsCondition, Checking, Pending
<1>4. /\ policy' \in Object /\ shared' \in BOOLEAN
      /\ policy'.conditions["OCPClusterHealthy"] = [ok |-> healthy, cycle |-> cycles]
  BY <1>3, SetConditionCopy
<1>5. cached' \in [Policies -> Object]
  BY <1>3, SetConditionCache
<1>6. TypeOK'
  BY <1>1, <1>4, <1>5 DEF IInv, TypeOK, Checking
<1>7. (PastOnly /\ StatusIsOneCycle /\ CacheHasPhantomsOnly /\ PausedIsExact)'
  BY <1>3, SetConditionPoliced
<1>8. Called'
  <2>1. Pending \ {"OCPClusterHealthy"} = Pending'
    BY <1>1 DEF Pending
  <2>2. policy'.conditions["OCPClusterHealthy"].cycle = cycles
    BY <1>4
  <2> QED
    BY <1>1, <1>3, <2>1, <2>2, SetConditionCalled
       DEF Called, Checking, SharedIsCopied, CycleSoFar, CurrentCopy
<1> QED
  BY <1>6, <1>7, <1>8 DEF IInv, Called

\* Without a poll no alert is firing, and no condition is set.
LEMMA SkipPrometheusKeeps ==
    ASSUME IInv, SkipPrometheus
    PROVE  IInv'
<1>1. /\ pc = "prometheus" /\ pc' = "end" /\ policy \in Object
      /\ UNCHANGED <<stored, cached, config, edits, cycles, name, shared, fetched,
                     lastOTelEndpoint, finished>>
      /\ policy' = [policy EXCEPT !.firing = FALSE]
  BY DEF SkipPrometheus, users, IInv, TypeOK
<1>2. /\ policy' \in Object /\ ~policy'.firing
      /\ policy'.version = policy.version /\ policy'.paused = policy.paused
      /\ policy'.conditions = policy.conditions
  BY <1>1 DEF Object
<1>3. ~policy.paused
  BY <1>1 DEF IInv, Checking
<1>4. TypeOK'
  BY <1>1, <1>2 DEF IInv, TypeOK, Checking
<1>5. (PastOnly /\ StatusIsOneCycle /\ CacheHasPhantomsOnly /\ PausedIsExact)'
  BY <1>1 DEF IInv, PastOnly, StatusIsOneCycle, OneCycle, CacheHasPhantomsOnly,
              PhantomsOnly, PausedIsExact
<1>6. SharedIsCopied'
  <2>1. Pending' \subseteq Pending
    BY <1>1 DEF Pending
  <2> QED
    BY <1>1, <1>2, <2>1 DEF IInv, SharedIsCopied
<1>7. CycleSoFar'
  BY <1>1, <1>2, <1>3 DEF IInv, CycleSoFar
<1>8. CurrentCopy'
  BY <1>1, <1>2, <1>3 DEF IInv, CurrentCopy
<1> QED
  BY <1>1, <1>2, <1>3, <1>4, <1>5, <1>6, <1>7, <1>8 DEF IInv

\* With a poll the alerts and PrometheusHealthy are of the cycle.
LEMMA PollAlertsKeeps ==
    ASSUME IInv, PollAlerts
    PROVE  IInv'
<1>1. /\ pc = "prometheus" /\ pc' = "end" /\ ~policy.paused /\ policy \in Object
      /\ UNCHANGED <<stored, config, edits, cycles, name, fetched, lastOTelEndpoint, finished>>
  BY DEF PollAlerts, users, IInv, TypeOK, Checking
<1>2. PICK reachable \in BOOLEAN, firing \in BOOLEAN :
         /\ firing => reachable
         /\ SetCondition([policy EXCEPT !.firing = firing], "PrometheusHealthy", reachable)
  BY DEF PollAlerts
<1> DEFINE copy == [policy EXCEPT !.firing = firing]
<1>3. /\ copy \in Object /\ copy.firing = firing
      /\ copy.version = policy.version /\ copy.paused = policy.paused
      /\ copy.conditions = policy.conditions
  BY <1>1, <1>2 DEF Object
<1>4. SetCondition(copy, "PrometheusHealthy", reachable)
  BY <1>2
<1> HIDE DEF copy
<1>5. SetsCondition(copy, "PrometheusHealthy", reachable)
  BY <1>1, <1>2, <1>3, <1>4 DEF SetsCondition, Checking, Pending
<1>6. /\ policy' \in Object /\ shared' \in BOOLEAN
      /\ policy'.firing = firing
      /\ policy'.conditions["PrometheusHealthy"] = [ok |-> reachable, cycle |-> cycles]
      /\ policy'.conditions["OCPClusterHealthy"] = policy.conditions["OCPClusterHealthy"]
  BY <1>3, <1>5, SetConditionCopy DEF Types
<1>7. cached' \in [Policies -> Object]
  BY <1>5, SetConditionCache
<1>8. TypeOK'
  BY <1>1, <1>6, <1>7 DEF IInv, TypeOK, Checking
<1>9. (PastOnly /\ StatusIsOneCycle /\ CacheHasPhantomsOnly /\ PausedIsExact)'
  BY <1>5, SetConditionPoliced
<1>10. Called'
  <2>1. Pending \ {"PrometheusHealthy"} = Pending'
    BY <1>1 DEF Pending
  <2>2. policy.conditions["OCPClusterHealthy"].cycle = cycles
    BY <1>1 DEF IInv, CycleSoFar
  <2>3. policy'.firing =>
           policy'.conditions["PrometheusHealthy"] = [ok |-> TRUE, cycle |-> cycles]
    BY <1>2, <1>6
  <2>4. CycleSoFar'
    BY <1>1, <1>5, <1>6, <2>2, <2>3, SetConditionCalled DEF CycleSoFar
  <2> QED
    BY <1>1, <1>5, <2>1, <2>4, SetConditionCalled
       DEF Called, Checking, SharedIsCopied, CurrentCopy
<1> QED
  BY <1>8, <1>9, <1>10 DEF IInv, Called

\* Ready and lastScanTime are of the cycle, which is complete then.
LEMMA EndCycleKeeps ==
    ASSUME IInv, EndCycle
    PROVE  IInv'
<1>1. /\ pc = "end" /\ pc' = "write" /\ ~policy.paused /\ policy \in Object
      /\ UNCHANGED <<stored, config, edits, cycles, name, fetched, lastOTelEndpoint, finished>>
      /\ SetCondition(Complete(policy), "Ready", TRUE)
  BY DEF EndCycle, users, IInv, TypeOK, Checking
<1>2. /\ Complete(policy) \in Object /\ Complete(policy).scan = cycles
      /\ Complete(policy).firing = policy.firing
      /\ Complete(policy).version = policy.version
      /\ Complete(policy).paused = policy.paused
      /\ Complete(policy).conditions = policy.conditions
  BY <1>1 DEF Complete, Object, IInv, TypeOK
<1>3. SetsCondition(Complete(policy), "Ready", TRUE)
  BY <1>1, <1>2 DEF SetsCondition, Checking, Pending
<1>4. /\ policy' \in Object /\ shared' \in BOOLEAN
      /\ policy'.scan = cycles /\ policy'.firing = policy.firing
      /\ policy'.conditions["Ready"] = [ok |-> TRUE, cycle |-> cycles]
      /\ policy'.conditions["OCPClusterHealthy"] = policy.conditions["OCPClusterHealthy"]
      /\ policy'.conditions["PrometheusHealthy"] = policy.conditions["PrometheusHealthy"]
  <2>1. /\ policy' \in Object /\ shared' \in BOOLEAN
        /\ policy'.scan = cycles /\ policy'.firing = policy.firing
        /\ policy'.conditions["Ready"] = [ok |-> TRUE, cycle |-> cycles]
    BY <1>2, <1>3, SetConditionCopy
  <2>2. \A t \in Types \ {"Ready"} : policy'.conditions[t] = policy.conditions[t]
    BY <1>3, SetConditionCopy
  <2> QED
    BY <2>1, <2>2 DEF Types
<1>5. cached' \in [Policies -> Object]
  BY <1>3, SetConditionCache
<1>6. TypeOK'
  BY <1>1, <1>4, <1>5 DEF IInv, TypeOK, Checking
<1>7. (PastOnly /\ StatusIsOneCycle /\ CacheHasPhantomsOnly /\ PausedIsExact)'
  BY <1>3, SetConditionPoliced
<1>8. Called'
  <2>1. Pending \ {"Ready"} = Pending'
    BY <1>1 DEF Pending
  <2>2. /\ policy.conditions["OCPClusterHealthy"].cycle = cycles
        /\ policy.firing =>
              policy.conditions["PrometheusHealthy"] = [ok |-> TRUE, cycle |-> cycles]
    BY <1>1 DEF IInv, CycleSoFar
  <2>3. policy'.conditions["Ready"].cycle = cycles
    BY <1>4
  <2>4. CycleSoFar'
    BY <1>1, <1>3, <1>4, <2>2, <2>3, SetConditionCalled DEF CycleSoFar
  <2> QED
    BY <1>1, <1>3, <2>1, <2>4, SetConditionCalled
       DEF Called, Checking, SharedIsCopied, CurrentCopy
<1> QED
  BY <1>6, <1>7, <1>8 DEF IInv, Called

\* What an accepted write stores: one cycle's status, with no condition older than
\* what was stored.
LEMMA AcceptedStatus ==
    ASSUME IInv, pc = "write", Accepts
    PROVE  /\ OneCycle(policy)
           /\ policy.scan <= cycles
           /\ \A t \in Types :
                 policy.conditions[t].cycle >= stored[name].conditions[t].cycle
<1>1. /\ stored[name] \in Object /\ name \in Policies /\ policy \in Object
      /\ cycles \in Nat
  BY DEF IInv, TypeOK
<1>2. OneCycle(stored[name]) /\ stored[name].scan <= cycles
  BY <1>1 DEF IInv, StatusIsOneCycle, PastOnly
<1>3. /\ stored[name].scan \in Nat
      /\ \A t \in Types : /\ stored[name].conditions[t].cycle \in Nat
                          /\ policy.conditions[t].cycle \in Nat
  BY <1>1 DEF Object, Condition
<1>4. CASE policy.paused
  <2>1. /\ policy.conditions = stored[name].conditions
        /\ policy.scan = stored[name].scan
        /\ policy.firing = stored[name].firing
    BY <1>4 DEF IInv, CurrentCopy, Accepts
  <2>2. OneCycle(policy)
    BY <1>2, <2>1 DEF OneCycle
  <2> QED
    BY <1>2, <1>3, <2>1, <2>2
<1>5. CASE ~policy.paused
  <2>1. /\ policy.scan = cycles
        /\ \A t \in Types : policy.conditions[t].cycle <= cycles
        /\ policy.conditions["OCPClusterHealthy"].cycle = cycles
        /\ policy.conditions["Ready"].cycle = cycles
        /\ policy.firing =>
              policy.conditions["PrometheusHealthy"] = [ok |-> TRUE, cycle |-> cycles]
    BY <1>5 DEF IInv, CycleSoFar
  <2>2. OneCycle(policy)
    BY <2>1 DEF OneCycle
  <2>3. ASSUME NEW t \in Types
        PROVE  policy.conditions[t].cycle >= stored[name].conditions[t].cycle
    <3>1. \/ policy.conditions[t] = stored[name].conditions[t]
          \/ policy.conditions[t].cycle > stored[name].scan
      BY <1>5 DEF IInv, CurrentCopy, Accepts
    <3>2. stored[name].conditions[t].cycle <= stored[name].scan
      BY <1>2 DEF OneCycle
    <3> QED
      BY <1>3, <3>1, <3>2
  <2> QED
    BY <1>1, <2>1, <2>2, <2>3
<1> QED
  BY <1>4, <1>5

\* What an accepted write does to the stored policies.
LEMMA UpdateEffect ==
    ASSUME IInv, Update
    PROVE  /\ stored' \in [Policies -> Object]
           /\ \/ stored' = stored
              \/ /\ stored'[name].version = stored[name].version + 1
                 /\ stored'[name].conditions = policy.conditions
                 /\ stored'[name].scan = policy.scan
                 /\ stored'[name].firing = policy.firing
                 /\ \A p \in Policies \ {name} : stored'[p] = stored[p]
<1> DEFINE new == [stored[name] EXCEPT
                     !.phase = policy.phase, !.conditions = policy.conditions,
                     !.scan = policy.scan, !.firing = policy.firing]
           next == [new EXCEPT !.version = @ + 1]
<1>1. /\ stored \in [Policies -> Object] /\ name \in Policies
      /\ stored[name] \in Object /\ policy \in Object
  BY DEF IInv, TypeOK
<1>2. \/ stored' = stored
      \/ stored' = [stored EXCEPT ![name] = next]
  BY DEF Update
<1>3. /\ new \in Object
      /\ new.version = stored[name].version /\ new.conditions = policy.conditions
      /\ new.scan = policy.scan /\ new.firing = policy.firing
  BY <1>1 DEF Object
<1>4. /\ next \in Object
      /\ next.version = stored[name].version + 1 /\ next.conditions = policy.conditions
      /\ next.scan = policy.scan /\ next.firing = policy.firing
  <2> HIDE DEF new
  <2>1. new.version + 1 \in Nat
    BY <1>3 DEF Object
  <2> QED
    BY <1>3, <2>1 DEF Object
<1> HIDE DEF next
<1> QED
  BY <1>1, <1>2, <1>4

\* The stored status becomes that of one cycle, or of the pause.
LEMMA UpdateKeeps ==
    ASSUME IInv, Update
    PROVE  IInv'
<1>1. /\ UNCHANGED <<cached, config, edits, cycles, name, lastOTelEndpoint>>
      /\ pc = "write" /\ Accepts /\ pc' = "idle"
  BY DEF Update, Return, users
<1>2. /\ stored \in [Policies -> Object] /\ cached \in [Policies -> Object]
      /\ cycles \in Nat /\ name \in Policies /\ policy \in Object
  BY DEF IInv, TypeOK
<1>3. TypeOK'
  <2>1. finished' \subseteq Nat
    BY <1>2 DEF Update, IInv, TypeOK, Object
  <2> QED
    BY <1>1, <2>1, NewPolicyType, UpdateEffect DEF IInv, TypeOK, Update, Return
<1>4. Called'
  BY <1>1 DEF Called, Checking, SharedIsCopied, CycleSoFar, CurrentCopy
<1>5. CASE stored' = stored
  <2>1. (PastOnly /\ StatusIsOneCycle /\ CacheHasPhantomsOnly /\ PausedIsExact)'
    BY <1>1, <1>5 DEF IInv, PastOnly, StatusIsOneCycle, OneCycle, CacheHasPhantomsOnly,
                      PhantomsOnly, PausedIsExact
  <2> QED
    BY <1>3, <1>4, <2>1 DEF IInv, Called
<1>6. CASE /\ stored'[name].version = stored[name].version + 1
           /\ stored'[name].conditions = policy.conditions
           /\ stored'[name].scan = policy.scan
           /\ stored'[name].firing = policy.firing
           /\ \A p \in Policies \ {name} : stored'[p] = stored[p]
  <2>1. OneCycle(policy) /\ policy.scan <= cycles
    BY <1>1, AcceptedStatus
  <2>2. /\ cached[name].version <= stored[name].version
        /\ cached[name].version \in Nat /\ stored[name].version \in Nat
    BY <1>2 DEF IInv, PastOnly, Object
  <2>3. PastOnly'
    BY <1>1, <1>6, <2>1, <2>2 DEF IInv, PastOnly
  <2>4. StatusIsOneCycle'
    <3> SUFFICES ASSUME NEW p \in Policies
                 PROVE  OneCycle(stored[p])'
      BY DEF StatusIsOneCycle
    <3>1. CASE p = name
      BY <1>6, <2>1, <3>1 DEF OneCycle
    <3>2. CASE p # name
      BY <1>6, <3>2 DEF IInv, StatusIsOneCycle, OneCycle
    <3> QED
      BY <3>1, <3>2
  <2>5. cached'[name].version # stored'[name].version
    BY <1>1, <1>6, <2>2
  <2>6. CacheHasPhantomsOnly' /\ PausedIsExact'
    <3> SUFFICES ASSUME NEW q \in Policies, cached[q].version = stored'[q].version
                 PROVE  /\ PhantomsOnly(q)'
                        /\ cached[q].paused => cached[q].conditions = stored'[q].conditions
      BY <1>1 DEF CacheHasPhantomsOnly, PhantomsOnly, PausedIsExact
    <3>1. stored'[q] = stored[q] /\ cached'[q] = cached[q]
      BY <1>1, <1>6, <2>5
    <3>2. PhantomsOnly(q) => PhantomsOnly(q)'
      BY <3>1 DEF PhantomsOnly
    <3> QED
      BY <3>1, <3>2 DEF IInv, CacheHasPhantomsOnly, PausedIsExact
  <2> QED
    BY <1>3, <1>4, <2>3, <2>4, <2>6 DEF IInv, Called
<1> QED
  BY <1>5, <1>6, UpdateEffect

-----------------------------------------------------------------------------
(* The theorems.                                                           *)

\* The invariant holds at the start.
LEMMA Initially == Init => IInv
<1> SUFFICES ASSUME Init
             PROVE  IInv
  OBVIOUS
<1>1. /\ NewPolicy \in Object
      /\ NewPolicy.scan = 0 /\ NewPolicy.firing = FALSE
      /\ \A t \in Types : NewPolicy.conditions[t].cycle = 0
      /\ NewPolicy.version = 1
  BY NewPolicyType DEF NewPolicy, NotThere
<1>2. /\ \A p \in Policies : stored[p] = NewPolicy /\ cached[p] = stored[p]
      /\ pc = "idle" /\ cycles = 0
  BY DEF Init
<1>3. TypeOK
  BY <1>1 DEF Init, TypeOK
<1>4. PastOnly
  <2> SUFFICES ASSUME NEW p \in Policies
               PROVE  /\ NewPolicy.scan <= 0
                      /\ NewPolicy.version <= NewPolicy.version
                      /\ \A t \in Types : NewPolicy.conditions[t].cycle <= 0
    BY <1>2 DEF PastOnly
  <2> QED
    BY <1>1
<1>5. StatusIsOneCycle
  <2>1. OneCycle(NewPolicy)
    BY <1>1 DEF OneCycle, Types
  <2> QED
    BY <1>2, <2>1 DEF StatusIsOneCycle
<1>6. CacheHasPhantomsOnly
  BY <1>1, <1>2, ExactCopies DEF CacheHasPhantomsOnly
<1>7. PausedIsExact
  BY <1>2 DEF PausedIsExact
<1>8. Called
  BY <1>2 DEF Called, Checking, SharedIsCopied, CycleSoFar, CurrentCopy
<1> QED
  BY <1>3, <1>4, <1>5, <1>6, <1>7, <1>8 DEF IInv, Called

\* Every step keeps the invariant.
LEMMA Inductive == IInv /\ [Next]_vars => IInv'
<1> SUFFICES ASSUME IInv, [Next]_vars
             PROVE  IInv'
  OBVIOUS
<1>1. ASSUME NEW p \in Policies, Edit(p)
      PROVE  IInv'
  BY <1>1, EditKeeps
<1>2. ASSUME NEW p \in Policies, DeliverEvent(p)
      PROVE  IInv'
  BY <1>2, DeliverEventKeeps
<1>3. CASE EditConfig
  BY <1>3, EditConfigKeeps
<1>4. CASE Restart
  BY <1>4, RestartKeeps
<1>5. ASSUME NEW p \in Policies, Begin(p)
      PROVE  IInv'
  BY <1>5, BeginKeeps
<1>6. CASE ReconcileOTel
  BY <1>6, ReconcileOTelKeeps
<1>7. CASE OCPClusterChecks
  BY <1>7, OCPClusterChecksKeeps
<1>8. CASE SkipPrometheus
  BY <1>8, SkipPrometheusKeeps
<1>9. CASE PollAlerts
  BY <1>9, PollAlertsKeeps
<1>10. CASE EndCycle
  BY <1>10, EndCycleKeeps
<1>11. CASE Update
  BY <1>11, UpdateKeeps
<1>12. CASE UpdateFails
  BY <1>12, UpdateFailsKeeps
<1>13. CASE UNCHANGED vars
  BY <1>13 DEF vars, users, IInv, TypeOK, PastOnly, StatusIsOneCycle, OneCycle,
               CacheHasPhantomsOnly, PhantomsOnly, PausedIsExact, Checking,
               SharedIsCopied, Pending, CycleSoFar, CurrentCopy
<1> QED
  BY <1>1, <1>2, <1>3, <1>4, <1>5, <1>6, <1>7, <1>8, <1>9, <1>10, <1>11, <1>12, <1>13
     DEF Next, Reconcile

\* The inductive invariant holds whatever the policies, endpoints and bounds are.
THEOREM Invariance == Spec => []IInv
  BY Initially, Inductive, PTL DEF Spec

\* A stored status is of one cycle (srepolicy_controller.go:157-264), although the
\* cache keeps conditions of cycles that failed.
THEOREM StatusOfOneCycle == Spec => []StatusIsOneCycle
<1>1. IInv => StatusIsOneCycle
  BY DEF IInv
<1> QED
  BY <1>1, Invariance, PTL

\* The shallow DeepCopyInto (zz_generated.deepcopy.go:8) does no more to the cache
\* than leave newer conditions in it.
THEOREM PhantomsAtMost == Spec => []CacheHasPhantomsOnly
<1>1. IInv => CacheHasPhantomsOnly
  BY DEF IInv
<1> QED
  BY <1>1, Invariance, PTL

\* No stored condition is ever replaced by an older one, or lost
\* (srepolicy_controller.go:628).
THEOREM ConditionsMonotone == Spec => ConditionsNeverGoBack
<1> DEFINE Onward == \A p \in Policies, t \in Types :
                        stored'[p].conditions[t].cycle >= stored[p].conditions[t].cycle
<1>1. ASSUME IInv, [Next]_vars
      PROVE  Onward
  <2>1. ASSUME NEW p \in Policies, NEW t \in Types
        PROVE  stored[p].conditions[t].cycle >= stored[p].conditions[t].cycle
    <3>1. stored[p] \in Object
      BY <1>1 DEF IInv, TypeOK
    <3>2. stored[p].conditions[t].cycle \in Nat
      BY <3>1 DEF Object, Condition
    <3> QED
      BY <3>2
  <2>2. CASE stored' = stored
    BY <2>1, <2>2
  <2>3. ASSUME NEW p \in Policies, Edit(p)
        PROVE  Onward
    <3>1. ASSUME NEW q \in Policies
          PROVE  stored'[q].conditions = stored[q].conditions
      <4>1. PICK paused \in BOOLEAN, triggers \in BOOLEAN :
               stored' = [stored EXCEPT ![p].version = @ + 1, ![p].paused = paused,
                                        ![p].triggers = triggers]
        BY <2>3 DEF Edit
      <4>2. stored \in [Policies -> Object] /\ stored[p] \in Object
        BY <1>1, <2>3 DEF IInv, TypeOK
      <4>3. CASE q = p
        <5> DEFINE new == Edited(stored[p], paused, triggers)
        <5>1. stored'[p] = new
          BY <2>3, <4>1, <4>2 DEF Edited
        <5>2. Succeeds(new, stored[p])
          BY <4>1, <4>2, EditedFacts
        <5> HIDE DEF new
        <5> QED
          BY <4>3, <5>1, <5>2 DEF Succeeds
      <4>4. CASE q # p
        BY <4>1, <4>2, <4>4
      <4> QED
        BY <4>3, <4>4
    <3> QED
      BY <2>1, <3>1
  <2>4. CASE Update
    <3>1. pc = "write" /\ Accepts
      BY <2>4 DEF Update
    <3>2. \A t \in Types : policy.conditions[t].cycle >= stored[name].conditions[t].cycle
      BY <1>1, <3>1, AcceptedStatus
    <3>3. \/ stored' = stored
          \/ /\ stored'[name].conditions = policy.conditions
             /\ \A p \in Policies \ {name} : stored'[p] = stored[p]
      BY <1>1, <2>4, UpdateEffect
    <3>4. ASSUME NEW p \in Policies, NEW t \in Types
          PROVE  stored'[p].conditions[t].cycle >= stored[p].conditions[t].cycle
      <4>1. CASE stored'[p] = stored[p]
        BY <2>1, <4>1
      <4>2. CASE p = name /\ stored'[name].conditions = policy.conditions
        BY <3>2, <4>2
      <4> QED
        BY <3>3, <4>1, <4>2
    <3> QED
      BY <3>4
  <2> QED
    BY <1>1, <2>2, <2>3, <2>4
       DEF Next, Reconcile, EditConfig, DeliverEvent, Restart, Begin, ReconcileOTel,
           OCPClusterChecks, SkipPrometheus, PollAlerts, EndCycle, UpdateFails, vars
<1> QED
  BY <1>1, Invariance, PTL DEF Spec, ConditionsNeverGoBack

=============================================================================
