-------------------------- MODULE LogCollectorProofs --------------------------
(* Proofs about module LogCollector, for any lines, pods, selectors and     *)
(* logs, and any limits.                                                    *)
EXTENDS LogCollector, FiniteSetTheorems, TLAPS

-----------------------------------------------------------------------------
(* Sequences and sets.                                                      *)

\* What is left of a list without its first element.
LEMMA TailOf ==
    ASSUME NEW S, NEW q \in Seq(S), q # <<>>
    PROVE  /\ Len(q) \in Nat /\ Len(q) >= 1 /\ Head(q) = q[1] /\ Head(q) \in S
           /\ Tail(q) \in Seq(S)
           /\ Len(Tail(q)) = Len(q) - 1
           /\ \A i \in 1..Len(Tail(q)) : Tail(q)[i] = q[i + 1]
           /\ Range(q) = {Head(q)} \cup Range(Tail(q))
           /\ Range(q) \subseteq S
           /\ IsInjective(q) => IsInjective(Tail(q)) /\ Head(q) \notin Range(Tail(q))
<1>1. /\ Len(q) \in Nat /\ Len(q) >= 1 /\ Head(q) = q[1] /\ Head(q) \in S
      /\ DOMAIN q = 1..Len(q) /\ \A i \in 1..Len(q) : q[i] \in S
  OBVIOUS
<1>2. /\ Tail(q) \in Seq(S) /\ Len(Tail(q)) = Len(q) - 1
      /\ DOMAIN Tail(q) = 1..(Len(q) - 1)
      /\ \A i \in 1..(Len(q) - 1) : Tail(q)[i] = q[i + 1]
  OBVIOUS
<1>3. Range(q) = {Head(q)} \cup Range(Tail(q))
  <2>1. ASSUME NEW x \in Range(q)
        PROVE  x \in {Head(q)} \cup Range(Tail(q))
    <3>1. PICK i \in 1..Len(q) : q[i] = x
      BY <1>1, <2>1 DEF Range
    <3>2. CASE i = 1
      BY <1>1, <3>1, <3>2
    <3>3. CASE i # 1
      <4>1. i - 1 \in 1..(Len(q) - 1)
        BY <1>1, <3>3
      <4>2. Tail(q)[i - 1] = x
        BY <1>1, <1>2, <3>1, <4>1
      <4> QED
        BY <1>2, <4>1, <4>2 DEF Range
    <3> QED
      BY <3>2, <3>3
  <2>2. ASSUME NEW x \in Range(Tail(q))
        PROVE  x \in Range(q)
    <3>1. PICK i \in 1..(Len(q) - 1) : Tail(q)[i] = x
      BY <1>2, <2>2 DEF Range
    <3>2. i + 1 \in 1..Len(q) /\ q[i + 1] = x
      BY <1>1, <1>2, <3>1
    <3> QED
      BY <1>1, <3>2 DEF Range
  <2>3. Head(q) \in Range(q)
    <3>1. 1 \in 1..Len(q)
      BY <1>1
    <3> QED
      BY <1>1, <3>1 DEF Range
  <2> QED
    BY <2>1, <2>2, <2>3
<1>4. ASSUME IsInjective(q)
      PROVE  IsInjective(Tail(q)) /\ Head(q) \notin Range(Tail(q))
  <2>1. \A i, j \in 1..Len(q) : q[i] = q[j] => i = j
    BY <1>1, <1>4 DEF IsInjective
  <2>2. \A i \in 1..(Len(q) - 1) : i + 1 \in 1..Len(q) /\ i + 1 # 1
    BY <1>1
  <2>3. IsInjective(Tail(q))
    <3> SUFFICES ASSUME NEW i \in 1..(Len(q) - 1), NEW j \in 1..(Len(q) - 1),
                        Tail(q)[i] = Tail(q)[j]
                 PROVE  i = j
      BY <1>2 DEF IsInjective
    <3>1. i + 1 = j + 1
      BY <1>2, <2>1, <2>2
    <3> QED
      BY <1>1, <3>1
  <2>4. ASSUME Head(q) \in Range(Tail(q))
        PROVE  FALSE
    <3>1. PICK i \in 1..(Len(q) - 1) : Tail(q)[i] = q[1]
      BY <1>1, <1>2, <2>4 DEF Range
    <3>2. q[i + 1] = q[1] /\ 1 \in 1..Len(q)
      BY <1>1, <1>2, <3>1
    <3> QED
      BY <2>1, <2>2, <3>2
  <2> QED
    BY <2>3, <2>4
<1>5. Range(q) \subseteq S
  BY <1>1 DEF Range
<1> QED
  BY <1>1, <1>2, <1>3, <1>4, <1>5

\* A list with one more element.
LEMMA Appended ==
    ASSUME NEW S, NEW q \in Seq(S), NEW e \in S
    PROVE  /\ Append(q, e) \in Seq(S)
           /\ Len(q) \in Nat /\ Len(Append(q, e)) = Len(q) + 1
           /\ DOMAIN q = 1..Len(q) /\ DOMAIN Append(q, e) = 1..(Len(q) + 1)
           /\ \A i \in 1..Len(q) : Append(q, e)[i] = q[i]
           /\ Append(q, e)[Len(q) + 1] = e
           /\ Range(Append(q, e)) = Range(q) \cup {e}
<1>1. /\ Append(q, e) \in Seq(S)
      /\ Len(q) \in Nat /\ Len(Append(q, e)) = Len(q) + 1
      /\ DOMAIN q = 1..Len(q) /\ DOMAIN Append(q, e) = 1..(Len(q) + 1)
      /\ \A i \in 1..Len(q) : Append(q, e)[i] = q[i]
      /\ Append(q, e)[Len(q) + 1] = e
  OBVIOUS
<1>2. \A i : i \in 1..(Len(q) + 1) <=> i \in 1..Len(q) \/ i = Len(q) + 1
  BY <1>1
<1>3. Range(Append(q, e)) = Range(q) \cup {e}
  BY <1>1, <1>2 DEF Range
<1> QED
  BY <1>1, <1>3

\* One list after another.
LEMMA Joined ==
    ASSUME NEW S, NEW q \in Seq(S), NEW r \in Seq(S)
    PROVE  /\ q \o r \in Seq(S) /\ Len(q) \in Nat /\ Len(r) \in Nat
           /\ DOMAIN (q \o r) = 1..(Len(q) + Len(r))
           /\ \A i \in 1..Len(q) : (q \o r)[i] = q[i]
           /\ \A i \in 1..Len(r) : (q \o r)[Len(q) + i] = r[i]
<1>1. /\ q \o r \in Seq(S) /\ Len(q) \in Nat /\ Len(r) \in Nat
      /\ DOMAIN (q \o r) = 1..(Len(q) + Len(r))
      /\ \A i \in 1..Len(q) : (q \o r)[i] = q[i]
  OBVIOUS
<1>2. ASSUME NEW i \in 1..Len(r)
      PROVE  (q \o r)[Len(q) + i] = r[i]
  OBVIOUS
<1> QED
  BY <1>1, <1>2

\* The elements of a list.
LEMMA ElementsOf ==
    ASSUME NEW S, NEW q \in Seq(S)
    PROVE  /\ Len(q) \in Nat /\ DOMAIN q = 1..Len(q)
           /\ \A i \in 1..Len(q) : q[i] \in S /\ q[i] \in Range(q)
           /\ Range(q) \subseteq S
           /\ q = <<>> <=> Len(q) = 0
BY DEF Range

\* A subset has no more elements.
LEMMA NoMore ==
    ASSUME NEW S, IsFiniteSet(S), NEW T, T \subseteq S
    PROVE  /\ IsFiniteSet(T) /\ Cardinality(T) \in Nat /\ Cardinality(S) \in Nat
           /\ Cardinality(T) <= Cardinality(S)
BY FS_Subset, FS_CardinalityType

\* With one element more, a set has at most one more.
LEMMA OneMore ==
    ASSUME NEW S, IsFiniteSet(S), NEW x, NEW T, T \subseteq S \cup {x}
    PROVE  /\ IsFiniteSet(T) /\ Cardinality(T) \in Nat /\ Cardinality(S) \in Nat
           /\ Cardinality(T) <= Cardinality(S) + 1
<1>1. /\ IsFiniteSet(S \cup {x}) /\ Cardinality(S) \in Nat
      /\ Cardinality(S \cup {x}) \in Nat
      /\ Cardinality(S \cup {x}) <= Cardinality(S) + 1
  <2>1. /\ IsFiniteSet(S \cup {x})
        /\ Cardinality(S \cup {x}) = IF x \in S THEN Cardinality(S) ELSE Cardinality(S) + 1
    BY FS_AddElement
  <2>2. Cardinality(S) \in Nat
    BY FS_CardinalityType
  <2> QED
    BY <2>1, <2>2
<1>2. IsFiniteSet(T) /\ Cardinality(T) \in Nat /\ Cardinality(T) <= Cardinality(S \cup {x})
  BY <1>1, NoMore
<1> QED
  BY <1>1, <1>2

\* A set with a new element has one more.
LEMMA JustOneMore ==
    ASSUME NEW S, IsFiniteSet(S), NEW x, x \notin S
    PROVE  /\ IsFiniteSet(S \cup {x})
           /\ Cardinality(S) \in Nat
           /\ Cardinality(S \cup {x}) = Cardinality(S) + 1
BY FS_AddElement, FS_CardinalityType

-----------------------------------------------------------------------------
(* The lists of a collection.                                               *)

\* The selectors to be listed are a finite list.
LEMMA TargetsAreAList ==
    ASSUME NEW s \in Calls
    PROVE  TargetsOf(s) \in Seq(Range(TargetsOf(s)))
<1> DEFINE m == Len(VMSelectors)
           n == Len(s.targetNamespaces) * m
           ofVMs == [i \in 1..n |->
                       [vm |-> TRUE,
                        ns |-> s.targetNamespaces[((i - 1) \div m) + 1],
                        selector |-> VMSelectors[((i - 1) % m) + 1]]]
           vms == IF s.vmPodLogs THEN ofVMs ELSE <<>>
           ops == IF s.operatorLogs THEN OperatorTargets ELSE <<>>
<1>1. m \in Nat /\ Len(s.targetNamespaces) \in Nat
  BY ListsAssumption DEF IsList
<1>2. n \in Nat
  BY <1>1
<1> DEFINE S == {ofVMs[i] : i \in 1..n} \cup Range(OperatorTargets)
<1>3. ofVMs \in Seq(S)
  <2>1. \A i \in 1..n : ofVMs[i] \in S
    OBVIOUS
  <2> HIDE DEF n
  <2>2. ofVMs \in [1..n -> S]
    BY <2>1
  <2> HIDE DEF ofVMs, S
  <2> QED
    BY <1>2, <2>2
<1>4. OperatorTargets \in Seq(S)
  <2>1. OperatorTargets \in Seq(Range(OperatorTargets))
    BY ListsAssumption DEF IsList
  <2>2. Range(OperatorTargets) \subseteq S
    OBVIOUS
  <2> HIDE DEF S
  <2> QED
    BY <2>1, <2>2
<1>5. TargetsOf(s) = vms \o ops
  BY DEF TargetsOf
<1> HIDE DEF ofVMs, S
<1>6. TargetsOf(s) \in Seq(S)
  BY <1>3, <1>4, <1>5
<1> HIDE DEF vms, ops
<1>7. TargetsOf(s) \in [1..Len(TargetsOf(s)) -> Range(TargetsOf(s))] /\ Len(TargetsOf(s)) \in Nat
  BY <1>6 DEF Range
<1> QED
  BY <1>7

\* The types that steps need.
LEMMA Types ==
    ASSUME TypeOK
    PROVE  /\ TargetsOf(spec) \in Seq(Target) /\ Len(TargetsOf(spec)) \in Nat
           /\ DOMAIN TargetsOf(spec) = 1..Len(TargetsOf(spec))
           /\ Len(targets) \in Nat /\ Position \in Int
           /\ Len(entries) \in Nat /\ DOMAIN entries = 1..Len(entries)
           /\ \A i \in 1..Len(entries) :
                 entries[i] \in Entry /\ entries[i].container \in Containers
           /\ Len(results) \in Nat /\ DOMAIN results = 1..Len(results)
           /\ DOMAIN stream = 1..Len(stream) /\ Len(stream) \in Nat
           /\ MaxErrLinesPerContainer \in Nat \ {0}
<1>1. TargetsOf(spec) \in Seq(Target)
  BY TargetsAreAList DEF TypeOK, Target
<1>2. /\ Len(entries) \in Nat /\ DOMAIN entries = 1..Len(entries)
      /\ \A i \in 1..Len(entries) : entries[i] \in Entry
  BY DEF TypeOK
<1>3. \A e \in Entry : e.container \in Containers
  BY DEF Entry
<1>4. Len(targets) \in Nat /\ Len(results) \in Nat /\ DOMAIN results = 1..Len(results)
  BY DEF TypeOK
<1>5. DOMAIN stream = 1..Len(stream) /\ Len(stream) \in Nat
  BY DEF TypeOK
<1>6. Len(TargetsOf(spec)) \in Nat /\ DOMAIN TargetsOf(spec) = 1..Len(TargetsOf(spec))
  BY <1>1
<1>7. Position \in Int
  BY <1>4, <1>6 DEF Position
<1> QED
  BY <1>1, <1>2, <1>3, <1>4, <1>5, <1>6, <1>7, BoundsAssumption

\* The sets that are counted are finite.
LEMMA Finite ==
    ASSUME TypeOK, NEW c
    PROVE  /\ IsFiniteSet(Visits(c)) /\ IsFiniteSet(VisitsSoFar(c))
           /\ Cardinality(Visits(c)) \in Nat /\ Cardinality(VisitsSoFar(c)) \in Nat
           /\ Cardinality(VisitsSoFar(c)) <= Cardinality(Visits(c))
           /\ IsFiniteSet(EntriesOf(c)) /\ Cardinality(EntriesOf(c)) \in Nat
           /\ IsFiniteSet(Reported(c)) /\ Cardinality(Reported(c)) \in Nat
<1>1. IsFiniteSet(1..Len(TargetsOf(spec)))
  BY Types, FS_Interval
<1>2. Visits(c) \subseteq 1..Len(TargetsOf(spec)) /\ VisitsSoFar(c) \subseteq Visits(c)
  BY Types DEF Visits, VisitsSoFar
<1>3. /\ IsFiniteSet(Visits(c)) /\ IsFiniteSet(VisitsSoFar(c))
      /\ Cardinality(Visits(c)) \in Nat /\ Cardinality(VisitsSoFar(c)) \in Nat
      /\ Cardinality(VisitsSoFar(c)) <= Cardinality(Visits(c))
  BY <1>1, <1>2, NoMore
<1>4. IsFiniteSet(1..Len(entries)) /\ IsFiniteSet(1..Len(results))
  BY Types, FS_Interval
<1>5. EntriesOf(c) \subseteq 1..Len(entries) /\ Reported(c) \subseteq 1..Len(results)
  BY Types DEF EntriesOf, Reported
<1> QED
  BY <1>3, <1>4, <1>5, NoMore

\* Before the report there is nothing to say of findings.
LEMMA NoFindings ==
    ASSUME IInv, pc \notin {"report", "done"}, pc' # "done", TypeOK', UNCHANGED findings
    PROVE  FindingsSoFar' /\ FindingsAreDistinct' /\ FindingsAreCounted' /\ ErrorsAreReported'
<1>1. reported = 0 /\ results = <<>> /\ seen = {}
  <2>1. reported = 0 /\ results = <<>>
    BY DEF IInv, FindingsSoFar
  <2>2. DOMAIN results = {}
    BY <2>1
  <2>3. seen = {}
    BY <2>2 DEF IInv, FindingsSoFar
  <2> QED
    BY <2>1, <2>3
<1>2. reported' = 0 /\ results' = <<>> /\ seen' = {}
  BY <1>1 DEF findings
<1>3. DOMAIN results' = {} /\ 1..reported' = {}
  BY <1>2
<1>4. FindingsSoFar'
  BY <1>2, <1>3 DEF FindingsSoFar
<1>5. FindingsAreDistinct'
  BY <1>3 DEF FindingsAreDistinct, Distinct, Reported
<1>6. FindingsAreCounted'
  <2> SUFFICES ASSUME NEW c \in Containers
               PROVE  Cardinality(Reported(c)') <= Cardinality({k \in EntriesOf(c)' : k <= reported'})
    BY DEF FindingsAreCounted
  <2>1. Reported(c)' = {} /\ Cardinality({}) = 0
    BY <1>3, FS_EmptySet DEF Reported
  <2>2. IsFiniteSet(1..Len(entries')) /\ EntriesOf(c)' \subseteq 1..Len(entries')
    <3>1. Len(entries') \in Nat /\ DOMAIN entries' = 1..Len(entries')
      BY DEF TypeOK
    <3> QED
      BY <3>1, FS_Interval DEF EntriesOf
  <2>3. Cardinality({k \in EntriesOf(c)' : k <= reported'}) \in Nat
    <3>1. {k \in EntriesOf(c)' : k <= reported'} \subseteq 1..Len(entries')
      BY <2>2
    <3> QED
      BY <2>2, <3>1, NoMore
  <2> QED
    BY <2>1, <2>3
<1>7. ErrorsAreReported'
  BY DEF ErrorsAreReported
<1> QED
  BY <1>4, <1>5, <1>6, <1>7

\* A product grows with its second factor.
LEMMA Room ==
    ASSUME NEW k \in Nat, NEW n \in Nat, k <= n
    PROVE  /\ MaxErrLinesPerContainer * k \in Nat
           /\ MaxErrLinesPerContainer * n \in Nat
           /\ MaxErrLinesPerContainer * k <= MaxErrLinesPerContainer * n
           /\ MaxErrLinesPerContainer * (k + 1) =
                 MaxErrLinesPerContainer * k + MaxErrLinesPerContainer
<1>1. MaxErrLinesPerContainer \in Nat
  BY BoundsAssumption
<1> QED
  BY <1>1

\* The visits after a step are finitely many, and so are the entries.
LEMMA FiniteNext ==
    ASSUME TypeOK', NEW c
    PROVE  /\ IsFiniteSet(VisitsSoFar(c)') /\ Cardinality(VisitsSoFar(c)') \in Nat
           /\ IsFiniteSet(EntriesOf(c)') /\ Cardinality(EntriesOf(c)') \in Nat
<1>1. TargetsOf(spec') \in Seq(Range(TargetsOf(spec')))
  BY TargetsAreAList DEF TypeOK
<1>2. Len(TargetsOf(spec')) \in Nat /\ DOMAIN TargetsOf(spec') = 1..Len(TargetsOf(spec'))
  BY <1>1
<1>3. IsFiniteSet(1..Len(TargetsOf(spec')))
  BY <1>2, FS_Interval
<1>4. VisitsSoFar(c)' \subseteq 1..Len(TargetsOf(spec'))
  BY <1>2 DEF VisitsSoFar, Visits
<1>5. Len(entries') \in Nat /\ DOMAIN entries' = 1..Len(entries')
  BY DEF TypeOK
<1>6. IsFiniteSet(1..Len(entries')) /\ EntriesOf(c)' \subseteq 1..Len(entries')
  BY <1>5, FS_Interval DEF EntriesOf
<1> QED
  BY <1>3, <1>4, <1>6, NoMore

\* More visits leave room for the same entries.
LEMMA RoomEnough ==
    ASSUME IInv, TypeOK', UNCHANGED entries,
           \A c \in Containers :
              VisitsSoFar(c) \subseteq VisitsSoFar(c)' /\ OnHand(c)' = OnHand(c)
    PROVE  EntriesAreBounded'
<1> SUFFICES ASSUME NEW c \in Containers
             PROVE  Cardinality(EntriesOf(c)') <=
                      MaxErrLinesPerContainer * Cardinality(VisitsSoFar(c)') + OnHand(c)'
  BY DEF EntriesAreBounded
<1>1. TypeOK
  BY DEF IInv
<1>2. EntriesOf(c)' = EntriesOf(c) /\ OnHand(c)' = OnHand(c)
  BY DEF EntriesOf
<1>3. /\ Cardinality(VisitsSoFar(c)) \in Nat /\ IsFiniteSet(VisitsSoFar(c))
      /\ Cardinality(EntriesOf(c)) \in Nat
  BY <1>1, Finite
<1>4. Cardinality(VisitsSoFar(c)') \in Nat /\ IsFiniteSet(VisitsSoFar(c)')
  BY FiniteNext
<1>5. Cardinality(VisitsSoFar(c)) <= Cardinality(VisitsSoFar(c)')
  BY <1>4, NoMore
<1>6. Cardinality(EntriesOf(c)) <=
         MaxErrLinesPerContainer * Cardinality(VisitsSoFar(c)) + OnHand(c)
  BY DEF IInv, EntriesAreBounded
<1>7. /\ MaxErrLinesPerContainer * Cardinality(VisitsSoFar(c)) \in Nat
      /\ MaxErrLinesPerContainer * Cardinality(VisitsSoFar(c)') \in Nat
      /\ MaxErrLinesPerContainer * Cardinality(VisitsSoFar(c)) <=
            MaxErrLinesPerContainer * Cardinality(VisitsSoFar(c)')
  BY <1>3, <1>4, <1>5, Room
<1>8. OnHand(c) \in Nat
  BY <1>1, BoundsAssumption DEF OnHand, TypeOK
<1> QED
  BY <1>2, <1>3, <1>6, <1>7, <1>8

\* As long as the lines and the entries are there, entries are real.
LEMMA StillReal ==
    ASSUME IInv, UNCHANGED <<log, entries>>
    PROVE  EntriesAreReal'
BY DEF IInv, EntriesAreReal, FromLog

\* As long as the entries are there, so is what was heard.
LEMMA StillKept ==
    ASSUME IInv, UNCHANGED <<entries, heard>>
    PROVE  HeardIsKept'
BY DEF IInv, HeardIsKept, IsKept, AmongFirst

\* As long as nothing is read, the stream is what it was.
LEMMA SameStream ==
    ASSUME IInv, UNCHANGED <<log, stream, scanned, count, entries>>,
           pc = "scan" <=> pc' = "scan", pc = "scan" => UNCHANGED containers
    PROVE  StreamSoFar' /\ ScannedIsKept' /\ \A c : OnHand(c)' = OnHand(c)
<1>1. CASE pc = "scan"
  BY <1>1 DEF IInv, StreamSoFar, ScannedIsKept, IsKept, OnHand
<1>2. CASE pc # "scan"
  <2>1. stream = <<>> /\ count = 0
    BY <1>2 DEF IInv, StreamSoFar
  <2>2. scanned = 0
    <3>1. Len(stream) = 0
      BY <2>1
    <3> QED
      BY <3>1 DEF IInv, TypeOK
  <2>3. 1..scanned' = {}
    BY <2>2
  <2> QED
    BY <1>2, <2>1, <2>3 DEF IInv, StreamSoFar, ScannedIsKept, OnHand
<1> QED
  BY <1>1, <1>2

-----------------------------------------------------------------------------
(* Steps outside the collection.                                            *)

\* What does not depend on the logs stays true while they alone change.
LEMMA LogsAside ==
    ASSUME IInv, UNCHANGED <<spec, pc, targets, todo, reading, collection, findings, history>>
    PROVE  /\ TargetsLeft' /\ VisitsLeft' /\ ScannedIsKept' /\ HeardIsKept'
           /\ EntriesAreBounded' /\ NothingYet' /\ FindingsSoFar'
           /\ FindingsAreDistinct' /\ FindingsAreCounted'
           /\ DoneIsAccounted' /\ ErrorsAreReported'
<1> USE DEF reading, collection, findings, history
<1>1. TargetsLeft'
  BY DEF IInv, TargetsLeft, Position, InList
<1>2. VisitsLeft'
  BY DEF IInv, VisitsLeft, InList
<1>3. ScannedIsKept' /\ HeardIsKept'
  BY DEF IInv, ScannedIsKept, HeardIsKept, IsKept, AmongFirst
<1>4. EntriesAreBounded'
  <2>1. \A c : /\ EntriesOf(c)' = EntriesOf(c) /\ OnHand(c)' = OnHand(c)
               /\ VisitsSoFar(c)' = VisitsSoFar(c)
    BY DEF EntriesOf, OnHand, VisitsSoFar, Visits, Position, InList, IsDue
  <2> QED
    BY <2>1 DEF IInv, EntriesAreBounded
<1>5. NothingYet'
  BY DEF IInv, NothingYet
<1>6. FindingsSoFar'
  BY DEF IInv, FindingsSoFar
<1>7. FindingsAreDistinct'
  BY DEF IInv, FindingsAreDistinct, Distinct, Reported
<1>8. FindingsAreCounted'
  <2>1. \A c : Reported(c)' = Reported(c) /\ EntriesOf(c)' = EntriesOf(c)
    BY DEF EntriesOf, Reported
  <2> QED
    BY <2>1 DEF IInv, FindingsAreCounted
<1>9. DoneIsAccounted' /\ ErrorsAreReported'
  BY DEF IInv, DoneIsAccounted, ErrorsAreReported, Position
<1> QED
  BY <1>1, <1>2, <1>3, <1>4, <1>5, <1>6, <1>7, <1>8, <1>9

\* Nothing happens.
LEMMA StutterStep ==
    ASSUME IInv, UNCHANGED vars
    PROVE  IInv'
<1> USE DEF vars, reading, collection, findings, history
<1>1. TypeOK'
  BY DEF IInv, TypeOK, Target
<1>2. StreamSoFar'
  BY DEF IInv, StreamSoFar
<1>3. EntriesAreReal'
  BY StillReal
<1> QED
  BY <1>1, <1>2, <1>3, LogsAside DEF IInv

\* A container writes a line.
LEMMA WriteStep ==
    ASSUME IInv, Write
    PROVE  IInv'
<1>1. PICK c \in Containers, l \in Lines : log' = [log EXCEPT ![c] = Append(@, l)]
  BY DEF Write
<1>2. UNCHANGED <<spec, pc, targets, todo, reading, collection, findings, history>>
  BY DEF Write
<1>3. log \in [Containers -> Seq(Lines)]
  BY DEF IInv, TypeOK
<1>4. /\ log' \in [Containers -> Seq(Lines)]
      /\ \A x \in Containers : Range(log[x]) \subseteq Range(log'[x])
  <2>1. log[c] \in Seq(Lines)
    BY <1>3
  <2>2. Append(log[c], l) \in Seq(Lines) /\ Range(log[c]) \subseteq Range(Append(log[c], l))
    BY <2>1, Appended
  <2> QED
    BY <1>1, <1>3, <2>2
<1>5. TypeOK'
  BY <1>2, <1>4 DEF IInv, TypeOK, Target, reading, collection, findings, history
<1>6. StreamSoFar'
  <2>1. /\ (pc # "scan" => stream = <<>> /\ count = 0)'
        /\ (count = Cardinality({q \in 1..scanned : stream[q] \in Significant}))'
    BY <1>2 DEF IInv, StreamSoFar, reading
  <2>2. ASSUME pc' = "scan"
        PROVE  Range(stream') \subseteq Range(log'[Head(containers')])
    <3>1. containers # <<>> /\ Range(stream) \subseteq Range(log[Head(containers)])
      BY <1>2, <2>2 DEF IInv, StreamSoFar, VisitsLeft
    <3>2. Head(containers) \in Containers
      BY <3>1, TailOf DEF IInv, TypeOK
    <3> QED
      BY <1>2, <1>4, <3>1, <3>2 DEF reading
  <2> QED
    BY <2>1, <2>2 DEF StreamSoFar
<1>7. EntriesAreReal'
  <2>1. entries' = entries
    BY <1>2 DEF collection
  <2> SUFFICES ASSUME NEW i \in DOMAIN entries
               PROVE  FromLog(entries[i].container, entries[i].line)'
    BY <2>1 DEF EntriesAreReal
  <2>2. FromLog(entries[i].container, entries[i].line)
    BY DEF IInv, EntriesAreReal
  <2>3. entries[i].container \in Containers
    BY Types DEF IInv
  <2> QED
    BY <1>4, <2>1, <2>2, <2>3 DEF FromLog
<1> QED
  BY <1>2, <1>5, <1>6, <1>7, LogsAside DEF IInv

-----------------------------------------------------------------------------
(* Steps from list to list.                                                 *)

\* While no stream is read and nothing is reported, most stays as it was.
LEMMA Aside ==
    ASSUME IInv, TypeOK', UNCHANGED <<log, stream, scanned, count, entries, heard, findings>>,
           pc \notin {"scan", "report", "done"}, pc' \notin {"start", "scan", "done"}
    PROVE  /\ StreamSoFar' /\ EntriesAreReal' /\ ScannedIsKept' /\ HeardIsKept' /\ NothingYet'
           /\ FindingsSoFar' /\ FindingsAreDistinct' /\ FindingsAreCounted'
           /\ ErrorsAreReported'
           /\ \A c : OnHand(c)' = OnHand(c)
<1>1. StreamSoFar' /\ ScannedIsKept' /\ \A c : OnHand(c)' = OnHand(c)
  BY SameStream
<1>2. EntriesAreReal' /\ HeardIsKept'
  BY StillReal, StillKept
<1>3. FindingsSoFar' /\ FindingsAreDistinct' /\ FindingsAreCounted' /\ ErrorsAreReported'
  BY NoFindings
<1>4. NothingYet'
  BY DEF NothingYet
<1> QED
  BY <1>1, <1>2, <1>3, <1>4

\* The selector at hand is the one after those that are done with.
LEMMA AtHand ==
    ASSUME IInv, targets # <<>>
    PROVE  /\ Position \in Nat /\ Position + 1 \in 1..Len(TargetsOf(spec))
           /\ TargetsOf(spec)[Position + 1] = Head(targets)
           /\ Head(targets) \in Target
<1>1. targets \in Seq(Target)
  BY DEF IInv, TypeOK
<1>2. Len(targets) \in Nat /\ Len(targets) >= 1 /\ Head(targets) = targets[1] /\ Head(targets) \in Target
  BY <1>1, TailOf
<1>3. Len(TargetsOf(spec)) \in Nat /\ Len(targets) <= Len(TargetsOf(spec))
  BY Types DEF IInv, TargetsLeft
<1>4. Position \in Nat /\ Position + 1 \in 1..Len(TargetsOf(spec))
  BY <1>2, <1>3 DEF Position
<1>5. TargetsOf(spec)[Position + 1] = targets[1]
  <2>1. 1 \in 1..Len(targets)
    BY <1>2
  <2> QED
    BY <2>1 DEF IInv, TargetsLeft
<1> QED
  BY <1>2, <1>4, <1>5

\* Going on to the next selector.
LEMMA NextTarget ==
    ASSUME IInv, targets # <<>>, targets' = Tail(targets), spec' = spec,
           pc \notin {"start", "report", "done"}, pc' = "list"
    PROVE  /\ TargetsLeft' /\ targets' \in Seq(Target) /\ Position' = Position + 1
<1>1. targets \in Seq(Target)
  BY DEF IInv, TypeOK
<1>2. /\ Len(targets) \in Nat /\ Len(targets) >= 1
      /\ Tail(targets) \in Seq(Target) /\ Len(Tail(targets)) = Len(targets) - 1
      /\ \A i \in 1..Len(Tail(targets)) : Tail(targets)[i] = targets[i + 1]
  BY <1>1, TailOf
<1>3. Len(TargetsOf(spec)) \in Nat /\ Len(targets) <= Len(TargetsOf(spec))
  BY Types DEF IInv, TargetsLeft
<1>4. Position' = Position + 1 /\ Position \in Nat
  BY <1>2, <1>3 DEF Position
<1>5. \A j \in 1..Len(targets') : targets'[j] = TargetsOf(spec)[Position' + j]
  <2> SUFFICES ASSUME NEW j \in 1..Len(Tail(targets))
               PROVE  Tail(targets)[j] = TargetsOf(spec)[Position + 1 + j]
    BY <1>4
  <2>1. j + 1 \in 1..Len(targets) /\ j \in Nat
    BY <1>2
  <2>2. targets[j + 1] = TargetsOf(spec)[Position + (j + 1)]
    BY <2>1 DEF IInv, TargetsLeft
  <2>3. Position + (j + 1) = Position + 1 + j
    BY <1>4, <2>1
  <2> QED
    BY <1>2, <2>2, <2>3
<1>6. Wanted(spec)
  BY DEF IInv, TargetsLeft
<1>7. Len(targets') <= Len(TargetsOf(spec))
  BY <1>2, <1>3
<1> QED
  BY <1>2, <1>4, <1>5, <1>6, <1>7 DEF TargetsLeft, InList

\* The collection starts, or is not wanted.
LEMMA StartStep ==
    ASSUME IInv, Start
    PROVE  IInv'
<1>1. /\ pc = "start" /\ pc' = (IF Wanted(spec) THEN "list" ELSE "done")
      /\ targets' = (IF Wanted(spec) THEN TargetsOf(spec) ELSE <<>>)
      /\ UNCHANGED <<log, spec, todo, containers, stream, scanned, count, entries,
                     errors, reported, seen, results, listed, heard>>
  BY DEF Start, reading, collection, findings, history
<1>2. TypeOK
  BY DEF IInv
<1>3. TypeOK'
  <2>1. TargetsOf(spec) \in Seq(Target) /\ <<>> \in Seq(Target)
    BY <1>2, Types
  <2>2. targets' \in Seq(Target) /\ pc' \in {"list", "done"}
    BY <1>1, <2>1
  <2> QED
    BY <1>1, <1>2, <2>2 DEF TypeOK, Target
<1>4. entries = <<>> /\ errors = <<>> /\ results = <<>> /\ reported = 0
  BY <1>1 DEF IInv, NothingYet, FindingsSoFar
<1>5. containers = <<>> /\ todo = {}
  BY <1>1 DEF IInv, VisitsLeft, InList
<1>6. Position' = 0 \/ ~Wanted(spec)
  BY <1>1, <1>2, Types DEF Position
<1>7. TargetsLeft'
  <2>1. CASE Wanted(spec)
    <3>1. Len(TargetsOf(spec)) \in Nat
      BY <1>2, Types
    <3>2. Position' = 0 /\ targets' = TargetsOf(spec) /\ pc' = "list" /\ spec' = spec
      BY <1>1, <1>6, <2>1
    <3>3. \A j \in 1..Len(targets') : targets'[j] = TargetsOf(spec')[Position' + j]
      BY <3>1, <3>2
    <3> QED
      BY <2>1, <3>1, <3>2, <3>3 DEF TargetsLeft, InList
  <2>2. CASE ~Wanted(spec)
    <3>1. targets' = <<>> /\ pc' = "done" /\ spec' = spec
      BY <1>1, <2>2
    <3>2. Len(targets') = 0 /\ Len(TargetsOf(spec')) \in Nat
      BY <1>2, <3>1, Types
    <3>3. 1..Len(targets') = {}
      BY <3>2
    <3> QED
      BY <3>1, <3>2, <3>3 DEF TargetsLeft, InList
  <2> QED
    BY <2>1, <2>2
<1>8. VisitsLeft'
  BY <1>1, <1>5 DEF IInv, VisitsLeft, InList
<1>9. StreamSoFar' /\ ScannedIsKept' /\ EntriesAreReal' /\ HeardIsKept'
  BY <1>1, SameStream, StillReal, StillKept
<1>10. EntriesAreBounded'
  <2> SUFFICES ASSUME NEW c \in Containers
               PROVE  Cardinality(EntriesOf(c)') <=
                        MaxErrLinesPerContainer * Cardinality(VisitsSoFar(c)') + OnHand(c)'
    BY DEF EntriesAreBounded
  <2>1. EntriesOf(c)' = {} /\ Cardinality({}) = 0
    <3>1. DOMAIN entries' = {}
      BY <1>1, <1>4
    <3> QED
      BY <3>1, FS_EmptySet DEF EntriesOf
  <2>2. Cardinality(VisitsSoFar(c)') \in Nat
    BY <1>3, FiniteNext
  <2>3. MaxErrLinesPerContainer * Cardinality(VisitsSoFar(c)') \in Nat
    BY <2>2, Room
  <2>4. OnHand(c)' = 0
    BY <1>1 DEF OnHand
  <2> QED
    BY <2>1, <2>3, <2>4
<1>11. NothingYet'
  BY <1>1 DEF NothingYet
<1>12. DOMAIN results' = {} /\ 1..reported' = {} /\ Len(entries') = 0
  BY <1>1, <1>4
<1>13. FindingsSoFar'
  <2>1. seen' = {}
    BY <1>1, <1>12 DEF IInv, FindingsSoFar
  <2> QED
    BY <1>1, <1>4, <1>12, <2>1 DEF FindingsSoFar
<1>14. FindingsAreDistinct'
  BY <1>12 DEF FindingsAreDistinct, Distinct, Reported
<1>15. FindingsAreCounted'
  <2>1. \A c : Reported(c)' = {} /\ {k \in EntriesOf(c)' : k <= reported'} = {}
    <3>1. DOMAIN entries' = {}
      BY <1>1, <1>4
    <3> QED
      BY <1>12, <3>1 DEF Reported, EntriesOf
  <2> QED
    BY <2>1, FS_EmptySet DEF FindingsAreCounted
<1>16. DoneIsAccounted'
  BY <1>1, <1>6 DEF DoneIsAccounted
<1>17. ErrorsAreReported'
  BY <1>1, <1>4 DEF ErrorsAreReported, Range
<1> QED
  BY <1>3, <1>7, <1>8, <1>9, <1>10, <1>11, <1>13, <1>14, <1>15, <1>16, <1>17 DEF IInv

\* The pods of a selector are listed.
LEMMA ListPodsStep ==
    ASSUME IInv, ListPods
    PROVE  IInv'
<1>1. /\ pc = "list" /\ targets # <<>> /\ pc' = "pods"
      /\ todo' = Listed(Head(targets)) /\ listed' = listed \cup {Head(targets)}
      /\ UNCHANGED <<log, spec, targets, containers, stream, scanned, count, entries,
                     errors, reported, seen, results, heard>>
  BY DEF ListPods, reading, collection, findings
<1>2. TypeOK /\ Head(targets) \in Target
  BY AtHand, <1>1 DEF IInv
<1>3. TypeOK'
  <2>1. listed' \subseteq Target /\ todo' \subseteq Pods
    BY <1>1, <1>2 DEF TypeOK, Listed
  <2> QED
    BY <1>1, <1>2, <2>1 DEF TypeOK, Target
<1>4. TargetsLeft'
  BY <1>1 DEF IInv, TargetsLeft, Position, InList
<1>5. VisitsLeft'
  BY <1>1 DEF IInv, VisitsLeft, InList
<1>6. /\ StreamSoFar' /\ EntriesAreReal' /\ ScannedIsKept' /\ HeardIsKept' /\ NothingYet'
      /\ FindingsSoFar' /\ FindingsAreDistinct' /\ FindingsAreCounted'
      /\ ErrorsAreReported'
      /\ \A c : OnHand(c)' = OnHand(c)
  BY <1>1, <1>3, Aside DEF findings
<1>7. EntriesAreBounded'
  <2>1. ASSUME NEW c
        PROVE  VisitsSoFar(c) \subseteq VisitsSoFar(c)'
    BY <1>1 DEF VisitsSoFar, Visits, Position, InList
  <2> QED
    BY <1>1, <1>3, <1>6, <2>1, RoomEnough
<1>8. DoneIsAccounted'
  BY <1>1 DEF IInv, DoneIsAccounted, Position
<1> QED
  BY <1>3, <1>4, <1>5, <1>6, <1>7, <1>8 DEF IInv

\* Visits that have been made stay made when the next selector's turn comes.
LEMMA VisitsRemain ==
    ASSUME IInv, UNCHANGED spec, Position' = Position + 1, NEW c
    PROVE  VisitsSoFar(c) \subseteq VisitsSoFar(c)'
<1>1. Position \in Int
  BY Types DEF IInv
<1>2. Visits(c)' = Visits(c)
  BY DEF Visits
<1>3. Visits(c) \subseteq Int
  BY Types DEF Visits, IInv
<1> QED
  BY <1>1, <1>2, <1>3 DEF VisitsSoFar

\* A list fails.
LEMMA ListFailsStep ==
    ASSUME IInv, ListFails
    PROVE  IInv'
<1>1. /\ pc = "list" /\ targets # <<>> /\ pc' = "list" /\ targets' = Tail(targets)
      /\ errors' = IF Head(targets).vm THEN Append(errors, Head(targets)) ELSE errors
      /\ UNCHANGED <<log, spec, todo, containers, stream, scanned, count, entries,
                     reported, seen, results, listed, heard>>
  BY DEF ListFails, reading, findings, history
<1>2. TypeOK /\ Head(targets) \in Target
  BY AtHand, <1>1 DEF IInv
<1>3. TargetsLeft' /\ targets' \in Seq(Target) /\ Position' = Position + 1
  BY <1>1, NextTarget
<1>4. /\ errors' \in Seq(Target) /\ Range(errors) \subseteq Range(errors')
      /\ Head(targets).vm => Head(targets) \in Range(errors')
  <2>1. errors \in Seq(Target)
    BY <1>2 DEF TypeOK
  <2>2. /\ Append(errors, Head(targets)) \in Seq(Target)
        /\ Range(Append(errors, Head(targets))) = Range(errors) \cup {Head(targets)}
    BY <1>2, <2>1, Appended
  <2> QED
    BY <1>1, <2>1, <2>2
<1>5. TypeOK'
  BY <1>1, <1>2, <1>3, <1>4 DEF TypeOK, Target
<1>6. VisitsLeft'
  BY <1>1 DEF IInv, VisitsLeft, InList
<1>7. /\ StreamSoFar' /\ EntriesAreReal' /\ ScannedIsKept' /\ HeardIsKept' /\ NothingYet'
      /\ FindingsSoFar' /\ FindingsAreDistinct' /\ FindingsAreCounted'
      /\ ErrorsAreReported'
      /\ \A c : OnHand(c)' = OnHand(c)
  BY <1>1, <1>5, Aside DEF findings
<1>8. EntriesAreBounded'
  BY <1>1, <1>3, <1>5, <1>7, VisitsRemain, RoomEnough
<1>9. DoneIsAccounted'
  <2>1. /\ \A i \in 1..Position :
              LET t == TargetsOf(spec)[i]
              IN  t \in listed \/ ~t.vm \/ t \in Range(errors)
        /\ Wanted(spec)
    BY <1>1 DEF IInv, DoneIsAccounted, TargetsLeft
  <2>2. \A i \in 1..(Position + 1) : i \in 1..Position \/ i = Position + 1
    BY <1>1, AtHand
  <2>3. TargetsOf(spec)[Position + 1] = Head(targets)
    BY <1>1, AtHand
  <2> SUFFICES ASSUME NEW i \in 1..(Position + 1)
               PROVE  \/ TargetsOf(spec)[i] \in listed \/ ~TargetsOf(spec)[i].vm
                      \/ TargetsOf(spec)[i] \in Range(errors')
    BY <1>1, <1>3 DEF DoneIsAccounted
  <2>4. CASE i \in 1..Position
    BY <1>4, <2>1, <2>4
  <2>5. CASE i = Position + 1
    BY <1>4, <2>3, <2>5
  <2> QED
    BY <2>2, <2>4, <2>5
<1> QED
  BY <1>3, <1>5, <1>6, <1>7, <1>8, <1>9 DEF IInv

\* All pods of a list have been visited.
LEMMA EndListStep ==
    ASSUME IInv, EndList
    PROVE  IInv'
<1>1. /\ pc = "pods" /\ todo = {} /\ pc' = "list" /\ targets' = Tail(targets)
      /\ UNCHANGED <<log, spec, todo, containers, stream, scanned, count, entries,
                     errors, reported, seen, results, listed, heard>>
  BY DEF EndList, reading, collection, findings, history
<1>2. targets # <<>> /\ Head(targets) \in listed /\ Wanted(spec)
  BY <1>1 DEF IInv, TargetsLeft, InList
<1>3. TypeOK
  BY DEF IInv
<1>4. TargetsLeft' /\ targets' \in Seq(Target) /\ Position' = Position + 1
  BY <1>1, <1>2, NextTarget
<1>5. TypeOK'
  BY <1>1, <1>3, <1>4 DEF TypeOK, Target
<1>6. VisitsLeft'
  BY <1>1 DEF IInv, VisitsLeft, InList
<1>7. /\ StreamSoFar' /\ EntriesAreReal' /\ ScannedIsKept' /\ HeardIsKept' /\ NothingYet'
      /\ FindingsSoFar' /\ FindingsAreDistinct' /\ FindingsAreCounted'
      /\ ErrorsAreReported'
      /\ \A c : OnHand(c)' = OnHand(c)
  BY <1>1, <1>5, Aside DEF findings
<1>8. EntriesAreBounded'
  BY <1>1, <1>4, <1>5, <1>7, VisitsRemain, RoomEnough
<1>9. DoneIsAccounted'
  <2>1. \A i \in 1..Position :
           LET t == TargetsOf(spec)[i]
           IN  t \in listed \/ ~t.vm \/ t \in Range(errors)
    BY <1>1, <1>2 DEF IInv, DoneIsAccounted
  <2>2. \A i \in 1..(Position + 1) : i \in 1..Position \/ i = Position + 1
    BY <1>2, AtHand
  <2>3. TargetsOf(spec)[Position + 1] = Head(targets)
    BY <1>2, AtHand
  <2> QED
    BY <1>1, <1>2, <1>4, <2>1, <2>2, <2>3 DEF DoneIsAccounted
<1> QED
  BY <1>4, <1>5, <1>6, <1>7, <1>8, <1>9 DEF IInv

-----------------------------------------------------------------------------
(* Steps from pod to pod and from container to container.                   *)

\* Within a list, the selector at hand stays, and what is no longer due stays so.
LEMMA SameList ==
    ASSUME IInv, TypeOK', UNCHANGED <<spec, targets, entries>>, InList, InList',
           \A c : OnHand(c)' = OnHand(c),
           \A c \in Containers : IsDue(c)' => IsDue(c)
    PROVE  EntriesAreBounded'
<1>1. ASSUME NEW c \in Containers
      PROVE  VisitsSoFar(c) \subseteq VisitsSoFar(c)'
  <2>1. Visits(c)' = Visits(c) /\ Position' = Position
    BY DEF Visits, Position
  <2> QED
    BY <2>1 DEF VisitsSoFar
<1> QED
  BY <1>1, RoomEnough

\* While the selectors stay, so does what is known of those done with.
LEMMA SameTargets ==
    ASSUME IInv, UNCHANGED <<spec, targets, errors, listed>>, InList, InList'
    PROVE  TargetsLeft' /\ DoneIsAccounted'
<1>1. TargetsLeft'
  BY DEF IInv, TargetsLeft, Position, InList
<1>2. DoneIsAccounted'
  BY DEF IInv, DoneIsAccounted, Position, InList
<1> QED
  BY <1>1, <1>2

\* The containers read of a pod are its own, and each is read once.
LEMMA ContainersToRead ==
    ASSUME NEW p \in Pods,
           NEW q, q = p.containers \o (IF p.failed THEN p.initContainers ELSE <<>>)
    PROVE  q \in Seq(Containers) /\ IsInjective(q) /\ Range(q) \subseteq ContainersOf(p)
<1> DEFINE a == p.containers
           b == p.initContainers
<1>1. a \in Seq(Containers) /\ b \in Seq(Containers) /\ IsInjective(a \o b)
  BY PodsAssumption
<1>2. ContainersOf(p) = Range(a) \cup Range(b)
  BY DEF ContainersOf
<1>3. /\ a \o b \in Seq(Containers) /\ Len(a) \in Nat /\ Len(b) \in Nat
      /\ DOMAIN (a \o b) = 1..(Len(a) + Len(b)) /\ DOMAIN a = 1..Len(a) /\ DOMAIN b = 1..Len(b)
      /\ \A i \in 1..Len(a) : (a \o b)[i] = a[i]
      /\ \A i \in (Len(a) + 1)..(Len(a) + Len(b)) : (a \o b)[i] = b[i - Len(a)]
  <2> HIDE DEF a, b
  <2> QED
    BY <1>1
<1>4. q = a \o b \/ q = a
  <2>1. CASE p.failed
    BY <2>1
  <2>2. CASE ~p.failed
    <3>1. q = a \o <<>>
      BY <2>2
    <3> HIDE DEF a
    <3>2. a \o <<>> = a
      BY <1>1
    <3> QED
      BY <3>1, <3>2
  <2> QED
    BY <2>1, <2>2
<1> HIDE DEF a, b
<1>5. CASE q = a \o b
  <2>1. Range(q) \subseteq ContainersOf(p)
    <3> SUFFICES ASSUME NEW i \in 1..(Len(a) + Len(b))
                 PROVE  (a \o b)[i] \in Range(a) \cup Range(b)
      BY <1>2, <1>3, <1>5 DEF Range
    <3>1. CASE i \in 1..Len(a)
      BY <1>3, <3>1 DEF Range
    <3>2. CASE i \notin 1..Len(a)
      <4>1. i \in (Len(a) + 1)..(Len(a) + Len(b)) /\ i - Len(a) \in 1..Len(b)
        BY <1>3, <3>2
      <4> QED
        BY <1>3, <4>1 DEF Range
    <3> QED
      BY <3>1, <3>2
  <2> QED
    BY <1>1, <1>3, <1>5, <2>1
<1>6. CASE q = a
  <2>1. IsInjective(a)
    <3>1. \A i, j \in 1..(Len(a) + Len(b)) : (a \o b)[i] = (a \o b)[j] => i = j
      BY <1>1, <1>3 DEF IsInjective
    <3>2. \A i \in 1..Len(a) : i \in 1..(Len(a) + Len(b))
      BY <1>3
    <3> QED
      BY <1>3, <3>1, <3>2 DEF IsInjective
  <2> QED
    BY <1>1, <1>2, <1>6, <2>1
<1> QED
  BY <1>4, <1>5, <1>6

\* A pod of the list is visited.
LEMMA VisitPodStep ==
    ASSUME IInv, VisitPod
    PROVE  IInv'
<1>1. PICK p \in todo :
         /\ todo' = todo \ {p}
         /\ containers' = p.containers \o (IF p.failed THEN p.initContainers ELSE <<>>)
  BY DEF VisitPod
<1>2. /\ pc = "pods" /\ pc' = "open"
      /\ UNCHANGED <<log, spec, targets, stream, scanned, count, entries,
                     errors, reported, seen, results, listed, heard>>
  BY DEF VisitPod, collection, findings, history
<1>3. TypeOK /\ p \in Pods
  BY DEF IInv, TypeOK
<1>4. /\ containers' \in Seq(Containers) /\ IsInjective(containers')
      /\ Range(containers') \subseteq ContainersOf(p)
  BY <1>1, <1>3, ContainersToRead
<1>5. TypeOK'
  BY <1>1, <1>2, <1>3, <1>4 DEF TypeOK, Target
<1>6. InList /\ InList'
  BY <1>2 DEF InList
<1>7. TargetsLeft' /\ DoneIsAccounted'
  BY <1>2, <1>6, SameTargets
<1>8. VisitsLeft'
  <2>1. todo \subseteq Listed(Head(targets))
    BY <1>6 DEF IInv, VisitsLeft
  <2>2. p \in Listed(Head(targets')) \ todo' /\ todo' \subseteq Listed(Head(targets'))
    BY <1>1, <1>2, <2>1
  <2> QED
    BY <1>2, <1>4, <2>2, <1>6 DEF VisitsLeft
<1>9. /\ StreamSoFar' /\ EntriesAreReal' /\ ScannedIsKept' /\ HeardIsKept' /\ NothingYet'
      /\ FindingsSoFar' /\ FindingsAreDistinct' /\ FindingsAreCounted'
      /\ ErrorsAreReported'
      /\ \A c : OnHand(c)' = OnHand(c)
  BY <1>2, <1>5, Aside DEF findings
<1>10. EntriesAreBounded'
  <2>1. \A c \in Containers : IsDue(c)' => IsDue(c)
    BY <1>1, <1>4, <1>6 DEF IsDue
  <2> QED
    BY <1>2, <1>5, <1>6, <1>9, <2>1, SameList
<1> QED
  BY <1>5, <1>7, <1>8, <1>9, <1>10 DEF IInv

\* All containers of the pod have been read.
LEMMA EndPodStep ==
    ASSUME IInv, EndPod
    PROVE  IInv'
<1>1. /\ pc = "open" /\ containers = <<>> /\ pc' = "pods"
      /\ UNCHANGED <<log, spec, targets, todo, containers, stream, scanned, count, entries,
                     errors, reported, seen, results, listed, heard>>
  BY DEF EndPod, reading, collection, findings, history
<1>2. TypeOK'
  BY <1>1 DEF IInv, TypeOK, Target
<1>3. InList /\ InList'
  BY <1>1 DEF InList
<1>4. TargetsLeft' /\ DoneIsAccounted'
  BY <1>1, <1>3, SameTargets
<1>5. VisitsLeft'
  BY <1>1 DEF IInv, VisitsLeft, InList
<1>6. /\ StreamSoFar' /\ EntriesAreReal' /\ ScannedIsKept' /\ HeardIsKept' /\ NothingYet'
      /\ FindingsSoFar' /\ FindingsAreDistinct' /\ FindingsAreCounted'
      /\ ErrorsAreReported'
      /\ \A c : OnHand(c)' = OnHand(c)
  BY <1>1, <1>2, Aside DEF findings
<1>7. EntriesAreBounded'
  <2>1. \A c \in Containers : IsDue(c)' => IsDue(c)
    BY <1>1, <1>3 DEF IsDue
  <2> QED
    BY <1>1, <1>2, <1>3, <1>6, <2>1, SameList
<1> QED
  BY <1>2, <1>4, <1>5, <1>6, <1>7 DEF IInv

\* What is left of the containers is still of a pod of the list.
LEMMA NextContainer ==
    ASSUME IInv, InList, containers # <<>>
    PROVE  /\ Tail(containers) \in Seq(Containers) /\ IsInjective(Tail(containers))
           /\ Range(Tail(containers)) \subseteq Range(containers)
           /\ Head(containers) \notin Range(Tail(containers))
           /\ Head(containers) \in Containers /\ Head(containers) \in Range(containers)
           /\ \E p \in Listed(Head(targets)) \ todo :
                 Range(containers) \subseteq ContainersOf(p)
<1>1. containers \in Seq(Containers) /\ IsInjective(containers)
  BY DEF IInv, TypeOK, VisitsLeft
<1>2. \E p \in Listed(Head(targets)) \ todo : Range(containers) \subseteq ContainersOf(p)
  BY DEF IInv, VisitsLeft
<1> QED
  BY <1>1, <1>2, TailOf

\* A container cannot be opened.
LEMMA OpenFailsStep ==
    ASSUME IInv, OpenFails
    PROVE  IInv'
<1>1. /\ pc = "open" /\ containers # <<>> /\ pc' = "open" /\ containers' = Tail(containers)
      /\ UNCHANGED <<log, spec, targets, todo, stream, scanned, count, entries,
                     errors, reported, seen, results, listed, heard>>
  BY DEF OpenFails, collection, findings, history
<1>2. InList /\ InList'
  BY <1>1 DEF InList
<1>3. /\ Tail(containers) \in Seq(Containers) /\ IsInjective(Tail(containers))
      /\ Range(Tail(containers)) \subseteq Range(containers)
      /\ \E p \in Listed(Head(targets)) \ todo : Range(containers) \subseteq ContainersOf(p)
  BY <1>1, <1>2, NextContainer
<1>4. TypeOK'
  BY <1>1, <1>3 DEF IInv, TypeOK, Target
<1>5. TargetsLeft' /\ DoneIsAccounted'
  BY <1>1, <1>2, SameTargets
<1>6. VisitsLeft'
  BY <1>1, <1>2, <1>3 DEF IInv, VisitsLeft
<1>7. /\ StreamSoFar' /\ EntriesAreReal' /\ ScannedIsKept' /\ HeardIsKept' /\ NothingYet'
      /\ FindingsSoFar' /\ FindingsAreDistinct' /\ FindingsAreCounted'
      /\ ErrorsAreReported'
      /\ \A c : OnHand(c)' = OnHand(c)
  BY <1>1, <1>4, Aside DEF findings
<1>8. EntriesAreBounded'
  <2>1. \A c \in Containers : IsDue(c)' => IsDue(c)
    BY <1>1, <1>2, <1>3 DEF IsDue
  <2> QED
    BY <1>1, <1>2, <1>4, <1>7, <2>1, SameList
<1> QED
  BY <1>4, <1>5, <1>6, <1>7, <1>8 DEF IInv

\* The end of a log is made of lines of it.
LEMMA TailsAreOfTheLog ==
    ASSUME NEW lines \in Seq(Lines), NEW s \in Tails(lines)
    PROVE  s \in Seq(Lines) /\ Range(s) \subseteq Range(lines)
<1>1. PICK k \in 0..(IF Len(lines) < TailLines THEN Len(lines) ELSE TailLines) :
         s = SubSeq(lines, Len(lines) - k + 1, Len(lines))
  BY DEF Tails
<1>2. Len(lines) \in Nat /\ k \in 0..Len(lines) /\ DOMAIN lines = 1..Len(lines)
  BY <1>1, BoundsAssumption
<1>3. /\ s \in Seq(Lines) /\ DOMAIN s = 1..k
      /\ \A i \in 1..k : s[i] = lines[Len(lines) - k + i]
  <2>1. Len(lines) - k + 1 \in 1..(Len(lines) + 1)
    BY <1>2
  <2> QED
    BY <1>1, <1>2, <2>1
<1>4. \A i \in 1..k : Len(lines) - k + i \in 1..Len(lines)
  BY <1>2
<1> QED
  BY <1>2, <1>3, <1>4 DEF Range

\* A container's log is opened.
LEMMA OpenStep ==
    ASSUME IInv, Open
    PROVE  IInv'
<1>1. /\ pc = "open" /\ containers # <<>> /\ pc' = "scan"
      /\ stream' \in Tails(log[Head(containers)])
      /\ UNCHANGED <<log, spec, targets, todo, containers, scanned, count, entries,
                     errors, reported, seen, results, listed, heard>>
  BY DEF Open, collection, findings, history
<1>2. InList /\ InList'
  BY <1>1 DEF InList
<1>3. stream' \in Seq(Lines) /\ Range(stream') \subseteq Range(log[Head(containers)])
  <2>1. Head(containers) \in Containers
    BY <1>1, <1>2, NextContainer
  <2>2. log[Head(containers)] \in Seq(Lines)
    BY <2>1 DEF IInv, TypeOK
  <2> QED
    BY <1>1, <2>2, TailsAreOfTheLog
<1>4. scanned = 0 /\ count = 0
  <2>1. stream = <<>> /\ count = 0
    BY <1>1 DEF IInv, StreamSoFar
  <2>2. Len(stream) = 0
    BY <2>1
  <2> QED
    BY <2>1, <2>2 DEF IInv, TypeOK
<1>5. TypeOK'
  <2>1. scanned' \in 0..Len(stream')
    BY <1>1, <1>3, <1>4
  <2> QED
    BY <1>1, <1>3, <2>1 DEF IInv, TypeOK, Target
<1>6. TargetsLeft' /\ DoneIsAccounted'
  BY <1>1, <1>2, SameTargets
<1>7. VisitsLeft'
  BY <1>1, <1>2 DEF IInv, VisitsLeft
<1>8. StreamSoFar' /\ ScannedIsKept'
  <2>1. 1..scanned' = {}
    BY <1>1, <1>4
  <2>2. {q \in 1..scanned' : stream'[q] \in Significant} = {}
    BY <2>1
  <2> QED
    BY <1>1, <1>3, <1>4, <2>1, <2>2, FS_EmptySet DEF StreamSoFar, ScannedIsKept
<1>9. /\ EntriesAreReal' /\ HeardIsKept' /\ NothingYet'
      /\ FindingsSoFar' /\ FindingsAreDistinct' /\ FindingsAreCounted'
      /\ ErrorsAreReported'
  BY <1>1, <1>5, StillReal, StillKept, NoFindings DEF NothingYet, findings
<1>10. EntriesAreBounded'
  <2>1. \A c : OnHand(c)' = OnHand(c)
    BY <1>1, <1>4 DEF OnHand
  <2>2. \A c \in Containers : IsDue(c)' => IsDue(c)
    BY <1>1, <1>2 DEF IsDue
  <2> QED
    BY <1>1, <1>2, <1>5, <2>1, <2>2, SameList
<1> QED
  BY <1>5, <1>6, <1>7, <1>8, <1>9, <1>10 DEF IInv

-----------------------------------------------------------------------------
(* Reading a stream.                                                        *)

\* What is kept of a line.
LEMMA KeptIs ==
    ASSUME TypeOK, NEW l \in Lines, Head(containers) \in Containers
    PROVE  LET e == [container |-> Head(containers), line |-> l]
           IN  /\ e \in Entry
               /\ l \in Significant =>
                     entries \o Kept(l) = Append(entries, e) /\ Len(Kept(l)) = 1
               /\ l \notin Significant => entries \o Kept(l) = entries /\ Len(Kept(l)) = 0
<1> DEFINE e == [container |-> Head(containers), line |-> l]
<1>1. e \in Entry
  BY DEF Entry
<1>2. entries \in Seq(Entry)
  BY DEF TypeOK
<1>3. CASE l \in Significant
  <2>1. Kept(l) = <<e>>
    BY <1>3 DEF Kept
  <2> HIDE DEF e
  <2>2. entries \o <<e>> = Append(entries, e) /\ Len(<<e>>) = 1
    BY <1>1, <1>2
  <2> QED
    BY <1>1, <1>3, <2>1, <2>2 DEF e
<1>4. CASE l \notin Significant
  <2>1. Kept(l) = <<>>
    BY <1>4 DEF Kept
  <2>2. entries \o <<>> = entries /\ Len(<<>>) = 0
    BY <1>2
  <2> QED
    BY <1>1, <1>4, <2>1, <2>2
<1> QED
  BY <1>3, <1>4

\* What keeping a line adds to the entries.
LEMMA KeepsOne ==
    ASSUME TypeOK, NEW l \in Lines, Head(containers) \in Containers,
           entries' = entries \o Kept(l)
    PROVE  /\ entries' \in Seq(Entry) /\ Len(entries) <= Len(entries')
           /\ Len(Kept(l)) = IF l \in Significant THEN 1 ELSE 0
           /\ DOMAIN entries \subseteq DOMAIN entries'
           /\ \A i \in DOMAIN entries : entries'[i] = entries[i]
           /\ \A i \in DOMAIN entries' \ DOMAIN entries :
                 /\ l \in Significant /\ i = Len(entries) + 1
                 /\ entries'[i] = [container |-> Head(containers), line |-> l]
           /\ \A c : l \in Significant /\ c = Head(containers) => IsKept(c, l)'
           /\ \A c, line : IsKept(c, line) => IsKept(c, line)'
<1> DEFINE e == [container |-> Head(containers), line |-> l]
<1>1. /\ e \in Entry
      /\ l \in Significant => entries' = Append(entries, e) /\ Len(Kept(l)) = 1
      /\ l \notin Significant => entries' = entries /\ Len(Kept(l)) = 0
  BY KeptIs
<1>2. entries \in Seq(Entry)
  BY DEF TypeOK
<1>3. CASE l \notin Significant
  <2>1. entries' = entries /\ Len(Kept(l)) = 0
    BY <1>1, <1>3
  <2>2. Len(entries) \in Nat
    BY <1>2
  <2> QED
    BY <1>2, <1>3, <2>1, <2>2 DEF IsKept
<1>4. CASE l \in Significant
  <2>1. entries' = Append(entries, e) /\ Len(Kept(l)) = 1
    BY <1>1, <1>4
  <2> HIDE DEF e
  <2>2. /\ entries' \in Seq(Entry) /\ Len(entries) \in Nat /\ Len(entries') = Len(entries) + 1
        /\ DOMAIN entries = 1..Len(entries) /\ DOMAIN entries' = 1..(Len(entries) + 1)
        /\ \A i \in 1..Len(entries) : entries'[i] = entries[i]
        /\ entries'[Len(entries) + 1] = e
    BY <1>1, <1>2, <2>1, Appended
  <2>3. \A i \in DOMAIN entries' \ DOMAIN entries : i = Len(entries) + 1
    BY <2>2
  <2>4. Len(entries) + 1 \in DOMAIN entries' /\ DOMAIN entries \subseteq DOMAIN entries'
    BY <2>2
  <2>5. \A i \in DOMAIN entries' \ DOMAIN entries : entries'[i] = e
    BY <2>2, <2>3
  <2>6. ASSUME NEW c, c = Head(containers)
        PROVE  IsKept(c, l)'
    <3>1. \E i \in DOMAIN entries' : entries'[i] = [container |-> c, line |-> l]
      BY <2>2, <2>4, <2>6 DEF e
    <3> QED
      BY <3>1 DEF IsKept
  <2>7. \A c, line : IsKept(c, line) => IsKept(c, line)'
    BY <2>2, <2>4 DEF IsKept
  <2>8. Len(entries) <= Len(entries')
    BY <2>2
  <2> QED
    BY <1>4, <2>1, <2>2, <2>3, <2>4, <2>5, <2>6, <2>7, <2>8 DEF e
<1> QED
  BY <1>3, <1>4

\* A line that is kept is one more entry of its container, and of no other.
LEMMA EntriesGrow ==
    ASSUME TypeOK, NEW l \in Lines, Head(containers) \in Containers,
           entries' = entries \o Kept(l), NEW c
    PROVE  /\ c # Head(containers) => EntriesOf(c)' = EntriesOf(c)
           /\ Cardinality(EntriesOf(c)') \in Nat
           /\ Cardinality(EntriesOf(c)') <= Cardinality(EntriesOf(c)) + Len(Kept(l))
<1>1. /\ Len(Kept(l)) = IF l \in Significant THEN 1 ELSE 0
      /\ DOMAIN entries \subseteq DOMAIN entries'
      /\ \A i \in DOMAIN entries : entries'[i] = entries[i]
      /\ \A i \in DOMAIN entries' \ DOMAIN entries :
            /\ l \in Significant /\ i = Len(entries) + 1
            /\ entries'[i] = [container |-> Head(containers), line |-> l]
  BY KeepsOne
<1>2. IsFiniteSet(EntriesOf(c)) /\ Cardinality(EntriesOf(c)) \in Nat
  BY Finite
<1>3. ASSUME c # Head(containers)
      PROVE  EntriesOf(c)' = EntriesOf(c)
  BY <1>1, <1>3 DEF EntriesOf
<1>4. CASE l \in Significant
  <2>1. EntriesOf(c)' \subseteq EntriesOf(c) \cup {Len(entries) + 1}
    BY <1>1 DEF EntriesOf
  <2>2. /\ Cardinality(EntriesOf(c)') \in Nat
        /\ Cardinality(EntriesOf(c)') <= Cardinality(EntriesOf(c)) + 1
    BY <1>2, <2>1, OneMore
  <2> QED
    BY <1>1, <1>3, <1>4, <2>2
<1>5. CASE l \notin Significant
  <2>1. EntriesOf(c)' \subseteq EntriesOf(c)
    BY <1>1, <1>5 DEF EntriesOf
  <2>2. /\ Cardinality(EntriesOf(c)') \in Nat
        /\ Cardinality(EntriesOf(c)') <= Cardinality(EntriesOf(c))
    BY <1>2, <2>1, NoMore
  <2>3. Len(Kept(l)) = 0
    BY <1>1, <1>5
  <2> QED
    BY <1>2, <1>3, <2>2, <2>3
<1> QED
  BY <1>4, <1>5

\* A line that matches a pattern is kept with the container that wrote it.
LEMMA KeptIsReal ==
    ASSUME IInv, NEW l \in Lines, Head(containers) \in Containers,
           entries' = entries \o Kept(l), log' = log,
           \E x \in Range(log[Head(containers)]) : l \in {x} \cup Beginnings[x]
    PROVE  EntriesAreReal'
<1>1. /\ \A i \in DOMAIN entries : entries'[i] = entries[i]
      /\ \A i \in DOMAIN entries' \ DOMAIN entries :
            /\ l \in Significant
            /\ entries'[i] = [container |-> Head(containers), line |-> l]
  BY KeepsOne DEF IInv
<1>2. \A i \in DOMAIN entries : FromLog(entries[i].container, entries[i].line)
  BY DEF IInv, EntriesAreReal
<1>3. ASSUME NEW i \in DOMAIN entries'
      PROVE  /\ entries'[i].line \in Significant
             /\ \E x \in Range(log[entries'[i].container]) :
                   entries'[i].line \in {x} \cup Beginnings[x]
  <2>1. CASE i \in DOMAIN entries
    <3>1. entries'[i] = entries[i]
      BY <1>1, <2>1
    <3> QED
      BY <1>2, <2>1, <3>1 DEF FromLog
  <2>2. CASE i \notin DOMAIN entries
    <3>1. l \in Significant /\ entries'[i].line = l /\ entries'[i].container = Head(containers)
      BY <1>1, <2>2
    <3> QED
      BY <3>1
  <2> QED
    BY <2>1, <2>2
<1> QED
  BY <1>3 DEF EntriesAreReal, FromLog

\* While a stream is read, its container is at hand, and its lines are in the log.
LEMMA Reading ==
    ASSUME IInv, pc = "scan"
    PROVE  /\ InList /\ containers # <<>> /\ Head(containers) \in Containers
           /\ stream \in Seq(Lines) /\ scanned \in 0..Len(stream) /\ Len(stream) \in Nat
           /\ count \in 0..MaxErrLinesPerContainer
           /\ \A q \in 1..Len(stream) :
                 stream[q] \in Lines /\ stream[q] \in Range(log[Head(containers)])
<1>1. InList /\ containers # <<>>
  BY DEF IInv, InList, VisitsLeft
<1>2. Head(containers) \in Containers
  BY <1>1, NextContainer
<1>3. /\ stream \in Seq(Lines) /\ scanned \in 0..Len(stream) /\ Len(stream) \in Nat
      /\ count \in 0..MaxErrLinesPerContainer
  BY DEF IInv, TypeOK
<1>4. Range(stream) \subseteq Range(log[Head(containers)])
  BY DEF IInv, StreamSoFar
<1> QED
  BY <1>1, <1>2, <1>3, <1>4, ElementsOf

\* A line is scanned.
LEMMA ScanLineStep ==
    ASSUME IInv, ScanLine
    PROVE  IInv'
<1>1. /\ pc = "scan" /\ ~AtLimit /\ scanned < Len(stream) /\ pc' = "scan"
      /\ entries' = entries \o Kept(stream[scanned + 1])
      /\ count' = count + Len(Kept(stream[scanned + 1]))
      /\ scanned' = scanned + 1
      /\ UNCHANGED <<log, spec, targets, todo, containers, stream, errors,
                     reported, seen, results, listed, heard>>
  BY DEF ScanLine, findings, history
<1>2. /\ InList /\ containers # <<>> /\ Head(containers) \in Containers
      /\ stream \in Seq(Lines) /\ scanned \in 0..Len(stream) /\ Len(stream) \in Nat
      /\ count \in 0..MaxErrLinesPerContainer
  BY <1>1, Reading
<1>3. TypeOK /\ InList'
  BY <1>1 DEF IInv, InList
<1>4. PICK l \in Lines : l = stream[scanned + 1] /\ l \in Range(log[Head(containers)])
  <2>1. scanned + 1 \in 1..Len(stream)
    BY <1>1, <1>2
  <2> QED
    BY <1>1, <2>1, Reading
<1>5. /\ pc = "scan" /\ ~AtLimit /\ scanned < Len(stream) /\ pc' = "scan"
      /\ entries' = entries \o Kept(l) /\ count' = count + Len(Kept(l))
      /\ scanned' = scanned + 1
      /\ UNCHANGED <<log, spec, targets, todo, containers, stream, errors,
                     reported, seen, results, listed, heard>>
  BY <1>1, <1>4
<1>6. Len(Kept(l)) = (IF l \in Significant THEN 1 ELSE 0) /\ entries' \in Seq(Entry)
  BY <1>5, <1>2, <1>3, <1>4, KeepsOne
<1>7. TypeOK'
  <2>1. count' \in 0..MaxErrLinesPerContainer
    BY <1>5, <1>2, <1>6, BoundsAssumption DEF AtLimit
  <2>2. scanned' \in 0..Len(stream')
    BY <1>5, <1>2
  <2>3. reported' \in 0..Len(entries')
    <3>1. Len(entries) <= Len(entries')
      BY <1>5, <1>2, <1>3, <1>4, KeepsOne
    <3>2. Len(entries) \in Nat /\ Len(entries') \in Nat /\ reported \in 0..Len(entries)
      BY <1>3, <1>6 DEF TypeOK
    <3> QED
      BY <1>5, <3>1, <3>2
  <2> QED
    BY <1>5, <1>3, <1>6, <2>1, <2>2, <2>3 DEF TypeOK, Target
<1>8. TargetsLeft' /\ DoneIsAccounted'
  BY <1>5, <1>2, <1>3, SameTargets
<1>9. VisitsLeft'
  BY <1>5, <1>2, <1>3 DEF IInv, VisitsLeft
<1>10. StreamSoFar'
  <2>1. Range(stream') \subseteq Range(log'[Head(containers')])
    BY <1>5 DEF IInv, StreamSoFar
  <2>2. count' = Cardinality({q \in 1..scanned' : stream'[q] \in Significant})
    <3> DEFINE before == {q \in 1..scanned : stream[q] \in Significant}
               after == {q \in 1..(scanned + 1) : stream[q] \in Significant}
    <3>1. count = Cardinality(before)
      BY DEF IInv, StreamSoFar
    <3>2. IsFiniteSet(before) /\ scanned + 1 \notin before
      <4>1. IsFiniteSet(1..scanned)
        BY <1>2, FS_Interval
      <4>2. before \subseteq 1..scanned
        OBVIOUS
      <4>3. scanned + 1 \notin 1..scanned
        BY <1>2
      <4> QED
        BY <4>1, <4>2, <4>3, NoMore
    <3>3. CASE l \in Significant
      <4>1. after = before \cup {scanned + 1}
        BY <1>2, <1>4, <3>3
      <4>2. Cardinality(after) = Cardinality(before) + 1
        BY <3>2, <4>1, JustOneMore
      <4> QED
        BY <1>5, <1>6, <3>1, <3>3, <4>2
    <3>4. CASE l \notin Significant
      <4>1. after = before
        BY <1>2, <1>4, <3>4
      <4>2. count' = count
        BY <1>5, <1>2, <1>6, <3>4
      <4> QED
        BY <1>5, <3>1, <4>1, <4>2
    <3> QED
      BY <3>3, <3>4
  <2> QED
    BY <1>5, <2>1, <2>2 DEF StreamSoFar
<1>11. EntriesAreReal'
  BY <1>5, <1>2, <1>4, KeptIsReal
<1>12. /\ \A c : l \in Significant /\ c = Head(containers) => IsKept(c, l)'
       /\ \A c, line : IsKept(c, line) => IsKept(c, line)'
  BY <1>5, <1>2, <1>3, <1>4, KeepsOne
<1>13. ScannedIsKept'
  <2> SUFFICES ASSUME NEW p \in 1..(scanned + 1), NEW line \in Significant, line = stream[p],
                      NEW c, c = Head(containers)
               PROVE  IsKept(c, line)'
    <3>1. ASSUME NEW p \in 1..(scanned + 1), stream[p] \in Significant
          PROVE  \E i \in DOMAIN entries' :
                    entries'[i] = [container |-> Head(containers), line |-> stream[p]]
      BY <3>1 DEF IsKept
    <3> QED
      BY <1>5, <3>1 DEF ScannedIsKept, IsKept
  <2>1. CASE p \in 1..scanned
    <3>1. IsKept(c, line)
      BY <2>1 DEF IInv, ScannedIsKept
    <3> QED
      BY <1>12, <3>1
  <2>2. CASE p = scanned + 1
    <3>1. line = l
      BY <1>4, <2>2
    <3> QED
      BY <1>12, <3>1
  <2> QED
    BY <1>2, <2>1, <2>2
<1>14. HeardIsKept'
  BY <1>5, <1>12 DEF IInv, HeardIsKept, AmongFirst
<1>15. EntriesAreBounded'
  <2> SUFFICES ASSUME NEW c \in Containers
               PROVE  Cardinality(EntriesOf(c)') <=
                        MaxErrLinesPerContainer * Cardinality(VisitsSoFar(c)') + OnHand(c)'
    BY DEF EntriesAreBounded
  <2>1. VisitsSoFar(c)' = VisitsSoFar(c)
    BY <1>5, <1>2, <1>3 DEF VisitsSoFar, Visits, IsDue, Position
  <2>2. Cardinality(EntriesOf(c)) <=
           MaxErrLinesPerContainer * Cardinality(VisitsSoFar(c)) + OnHand(c)
    BY DEF IInv, EntriesAreBounded
  <2>3. /\ c # Head(containers) => EntriesOf(c)' = EntriesOf(c)
        /\ Cardinality(EntriesOf(c)') \in Nat
        /\ Cardinality(EntriesOf(c)') <= Cardinality(EntriesOf(c)) + Len(Kept(l))
    BY <1>5, <1>2, <1>3, <1>4, EntriesGrow
  <2>4. Cardinality(VisitsSoFar(c)) \in Nat /\ Cardinality(EntriesOf(c)) \in Nat
    BY <1>3, Finite
  <2>5. MaxErrLinesPerContainer * Cardinality(VisitsSoFar(c)) \in Nat
    BY <2>4, Room
  <2>6. CASE c = Head(containers)
    <3>1. OnHand(c) = count /\ OnHand(c)' = count + Len(Kept(l))
      BY <1>5, <2>6 DEF OnHand
    <3> QED
      BY <1>2, <1>6, <2>1, <2>2, <2>3, <2>4, <2>5, <3>1
  <2>7. CASE c # Head(containers)
    <3>1. OnHand(c)' = OnHand(c) /\ EntriesOf(c)' = EntriesOf(c)
      BY <1>5, <2>3, <2>7 DEF OnHand
    <3> QED
      BY <2>1, <2>2, <3>1
  <2> QED
    BY <2>6, <2>7
<1>16. NothingYet'
  BY <1>5 DEF NothingYet
<1>17. FindingsSoFar' /\ FindingsAreDistinct' /\ FindingsAreCounted' /\ ErrorsAreReported'
  BY <1>5, <1>7, NoFindings DEF findings
<1> QED
  BY <1>7, <1>8, <1>9, <1>10, <1>11, <1>13, <1>14, <1>15, <1>16, <1>17 DEF IInv

-----------------------------------------------------------------------------
(* The end of a stream.                                                     *)

\* With its stream the container is no longer due, and nothing is on hand.
LEMMA ClosedIsNotDue ==
    ASSUME IInv, pc = "scan", Close, NEW c, c = Head(containers)
    PROVE  IsDue(c) /\ ~IsDue(c)' /\ Position + 1 \in Visits(c)
<1>1. InList /\ containers # <<>> /\ targets # <<>>
  BY Reading DEF IInv, TargetsLeft
<1>2. /\ c \notin Range(Tail(containers)) /\ c \in Range(containers)
      /\ \E p \in Listed(Head(targets)) \ todo :
            Range(containers) \subseteq ContainersOf(p)
  BY <1>1, NextContainer
<1>3. PICK p \in Listed(Head(targets)) \ todo : Range(containers) \subseteq ContainersOf(p)
  BY <1>2
<1>4. IsDue(c)
  BY <1>1, <1>2 DEF IsDue
<1>5. ~IsDue(c)'
  <2>1. \A q \in todo : c \notin ContainersOf(q)
    <3>1. p \in Pods /\ todo \subseteq Pods /\ \A q \in todo : p # q
      BY <1>3 DEF Listed, IInv, TypeOK
    <3>2. c \in ContainersOf(p)
      BY <1>2, <1>3
    <3> QED
      BY <3>1, <3>2, PodsAssumption
  <2>2. containers' = Tail(containers) /\ todo' = todo
    BY DEF Close
  <2> QED
    BY <1>2, <2>1, <2>2 DEF IsDue
<1>6. Position + 1 \in Visits(c)
  <2>1. TargetsOf(spec)[Position + 1] = Head(targets) /\ Position + 1 \in 1..Len(TargetsOf(spec))
    BY <1>1, AtHand
  <2>2. DOMAIN TargetsOf(spec) = 1..Len(TargetsOf(spec))
    BY Types DEF IInv
  <2> QED
    BY <1>2, <1>3, <2>1, <2>2 DEF Visits
<1> QED
  BY <1>4, <1>5, <1>6

\* One visit more makes room for what was kept of the stream.
LEMMA ClosedIsBounded ==
    ASSUME IInv, pc = "scan", Close, TypeOK', NEW n \in 0..1,
           count + n <= MaxErrLinesPerContainer,
           \A c \in Containers :
              /\ c # Head(containers) => EntriesOf(c)' = EntriesOf(c)
              /\ Cardinality(EntriesOf(c)') <= Cardinality(EntriesOf(c)) + n
    PROVE  EntriesAreBounded'
<1> SUFFICES ASSUME NEW c \in Containers
             PROVE  Cardinality(EntriesOf(c)') <=
                      MaxErrLinesPerContainer * Cardinality(VisitsSoFar(c)') + OnHand(c)'
  BY DEF EntriesAreBounded
<1>1. TypeOK /\ InList
  BY Reading DEF IInv
<1>2. /\ UNCHANGED <<spec, targets, todo>> /\ containers' = Tail(containers) /\ pc' = "open"
  BY DEF Close
<1>3. OnHand(c)' = 0 /\ InList' /\ Position' = Position
  BY <1>2 DEF OnHand, InList, Position
<1>4. Visits(c)' = Visits(c)
  BY <1>2 DEF Visits
<1>5. /\ Cardinality(EntriesOf(c)) <=
            MaxErrLinesPerContainer * Cardinality(VisitsSoFar(c)) + OnHand(c)
      /\ Cardinality(EntriesOf(c)) \in Nat /\ Cardinality(VisitsSoFar(c)) \in Nat
      /\ IsFiniteSet(VisitsSoFar(c))
  BY <1>1, Finite DEF IInv, EntriesAreBounded
<1>6. /\ Cardinality(EntriesOf(c)') \in Nat /\ Cardinality(VisitsSoFar(c)') \in Nat
      /\ IsFiniteSet(VisitsSoFar(c)')
  BY FiniteNext
<1>7. VisitsSoFar(c) \subseteq VisitsSoFar(c)'
  <2>1. IsDue(c)' => IsDue(c)
    <3>1. Range(Tail(containers)) \subseteq Range(containers)
      BY <1>1, NextContainer, Reading
    <3> QED
      BY <1>1, <1>2, <3>1 DEF IsDue
  <2> QED
    BY <1>1, <1>3, <1>4, <2>1 DEF VisitsSoFar
<1>8. CASE c = Head(containers)
  <2>1. IsDue(c) /\ ~IsDue(c)' /\ Position + 1 \in Visits(c)
    BY <1>8, ClosedIsNotDue
  <2>2. Position \in Int
    BY <1>1, Types
  <2>3. Position + 1 \notin VisitsSoFar(c) /\ Position + 1 \in VisitsSoFar(c)'
    BY <1>3, <1>4, <2>1, <2>2 DEF VisitsSoFar
  <2>4. Cardinality(VisitsSoFar(c) \cup {Position + 1}) = Cardinality(VisitsSoFar(c)) + 1
    BY <1>5, <2>3, JustOneMore
  <2>5. VisitsSoFar(c) \cup {Position + 1} \subseteq VisitsSoFar(c)'
    BY <1>7, <2>3
  <2>6. Cardinality(VisitsSoFar(c)) + 1 <= Cardinality(VisitsSoFar(c)')
    BY <1>6, <2>4, <2>5, NoMore
  <2>7. /\ MaxErrLinesPerContainer * (Cardinality(VisitsSoFar(c)) + 1) =
              MaxErrLinesPerContainer * Cardinality(VisitsSoFar(c)) + MaxErrLinesPerContainer
        /\ MaxErrLinesPerContainer * (Cardinality(VisitsSoFar(c)) + 1) <=
              MaxErrLinesPerContainer * Cardinality(VisitsSoFar(c)')
        /\ MaxErrLinesPerContainer * Cardinality(VisitsSoFar(c)) \in Nat
        /\ MaxErrLinesPerContainer * Cardinality(VisitsSoFar(c)') \in Nat
    <3>1. Cardinality(VisitsSoFar(c)) + 1 \in Nat
      BY <1>5
    <3>2. Cardinality(VisitsSoFar(c)) <= Cardinality(VisitsSoFar(c)')
      BY <1>6, <1>7, NoMore
    <3> QED
      BY <1>5, <1>6, <2>6, <3>1, <3>2, Room
  <2>8. OnHand(c) = count /\ count \in 0..MaxErrLinesPerContainer
    BY <1>8, Reading DEF OnHand
  <2>9. Cardinality(EntriesOf(c)') <= Cardinality(EntriesOf(c)) + n
    OBVIOUS
  <2>10. MaxErrLinesPerContainer \in Nat
    BY BoundsAssumption
  <2> QED
    BY <1>3, <1>5, <1>6, <2>7, <2>8, <2>9, <2>10
<1>9. CASE c # Head(containers)
  <2>1. EntriesOf(c)' = EntriesOf(c) /\ OnHand(c) = 0
    BY <1>9 DEF OnHand
  <2>2. Cardinality(VisitsSoFar(c)) <= Cardinality(VisitsSoFar(c)')
    BY <1>6, <1>7, NoMore
  <2>3. /\ MaxErrLinesPerContainer * Cardinality(VisitsSoFar(c)) <=
              MaxErrLinesPerContainer * Cardinality(VisitsSoFar(c)')
        /\ MaxErrLinesPerContainer * Cardinality(VisitsSoFar(c)) \in Nat
        /\ MaxErrLinesPerContainer * Cardinality(VisitsSoFar(c)') \in Nat
    BY <1>5, <1>6, <2>2, Room
  <2> QED
    BY <1>3, <1>5, <2>1, <2>3
<1> QED
  BY <1>8, <1>9

\* What the end of a stream does, however it ends.
LEMMA Closed ==
    ASSUME IInv, pc = "scan", Close, TypeOK'
    PROVE  /\ TargetsLeft' /\ DoneIsAccounted' /\ VisitsLeft' /\ StreamSoFar'
           /\ ScannedIsKept' /\ NothingYet'
           /\ FindingsSoFar' /\ FindingsAreDistinct' /\ FindingsAreCounted'
           /\ ErrorsAreReported'
<1>1. /\ UNCHANGED <<log, spec, targets, todo, errors, reported, seen, results, listed>>
      /\ containers' = Tail(containers) /\ stream' = <<>> /\ scanned' = 0 /\ count' = 0
      /\ pc' = "open"
  BY DEF Close, findings
<1>2. InList /\ InList' /\ containers # <<>>
  BY <1>1, Reading DEF InList
<1>3. TargetsLeft' /\ DoneIsAccounted'
  BY <1>1, <1>2, SameTargets
<1>4. VisitsLeft'
  <2>1. /\ IsInjective(Tail(containers))
        /\ \E p \in Listed(Head(targets)) \ todo :
              Range(Tail(containers)) \subseteq ContainersOf(p)
    BY <1>2, NextContainer
  <2> QED
    BY <1>1, <1>2, <2>1 DEF IInv, VisitsLeft
<1>5. StreamSoFar' /\ ScannedIsKept'
  <2>1. 1..scanned' = {}
    BY <1>1
  <2>2. {q \in 1..scanned' : stream'[q] \in Significant} = {}
    BY <2>1
  <2> QED
    BY <1>1, <2>1, <2>2, FS_EmptySet DEF StreamSoFar, ScannedIsKept
<1>6. NothingYet'
  BY <1>1 DEF NothingYet
<1>7. FindingsSoFar' /\ FindingsAreDistinct' /\ FindingsAreCounted' /\ ErrorsAreReported'
  BY <1>1, NoFindings DEF findings
<1> QED
  BY <1>3, <1>4, <1>5, <1>6, <1>7

\* A stream is at its end, or enough of it was kept.
LEMMA EndStreamStep ==
    ASSUME IInv, EndStream
    PROVE  IInv'
<1>1. /\ pc = "scan" /\ (AtLimit \/ scanned = Len(stream)) /\ Close
      /\ heard' = heard \cup {<<Head(containers), stream>>} /\ entries' = entries
  BY DEF EndStream
<1>2. /\ UNCHANGED <<log, spec, targets, todo, errors, reported, seen, results, listed>>
      /\ containers' = Tail(containers) /\ stream' = <<>> /\ scanned' = 0 /\ count' = 0
      /\ pc' = "open"
  BY <1>1 DEF Close, findings
<1>3. /\ InList /\ containers # <<>> /\ Head(containers) \in Containers
      /\ stream \in Seq(Lines) /\ scanned \in 0..Len(stream) /\ Len(stream) \in Nat
      /\ count \in 0..MaxErrLinesPerContainer
      /\ Tail(containers) \in Seq(Containers)
  BY <1>1, Reading, NextContainer
<1>4. TypeOK'
  <2>1. scanned' \in 0..Len(stream') /\ count' \in 0..MaxErrLinesPerContainer
        /\ stream' \in Seq(Lines)
    <3>1. Len(<<>>) = 0 /\ <<>> \in Seq(Lines)
      OBVIOUS
    <3> QED
      BY <1>2, <3>1, BoundsAssumption
  <2>2. heard' \subseteq Containers \X Seq(Lines)
    BY <1>1, <1>3 DEF IInv, TypeOK
  <2> QED
    BY <1>1, <1>2, <1>3, <2>1, <2>2 DEF IInv, TypeOK, Target
<1>5. EntriesAreReal'
  BY <1>1, <1>2, StillReal
<1>6. HeardIsKept'
  <2>1. ASSUME NEW p \in 1..Len(stream), AmongFirst(stream, p)
        PROVE  IsKept(Head(containers), stream[p])
    <3> DEFINE before == {q \in 1..scanned : stream[q] \in Significant}
               upto == {q \in 1..p : stream[q] \in Significant}
    <3>1. stream[p] \in Significant /\ Cardinality(upto) <= MaxErrLinesPerContainer
      BY <2>1 DEF AmongFirst
    <3>2. CASE p <= scanned
      <4>1. p \in 1..scanned
        BY <1>3, <3>2
      <4> QED
        BY <3>1, <4>1 DEF IInv, ScannedIsKept
    <3>3. CASE p > scanned
      <4>1. count >= MaxErrLinesPerContainer
        BY <1>1, <1>3, <3>3 DEF AtLimit
      <4>2. count = Cardinality(before)
        BY DEF IInv, StreamSoFar
      <4>3. IsFiniteSet(before) /\ p \notin before
        <5>1. IsFiniteSet(1..scanned) /\ before \subseteq 1..scanned /\ p \notin 1..scanned
          BY <1>3, <3>3, FS_Interval
        <5> QED
          BY <5>1, NoMore
      <4>4. IsFiniteSet(upto) /\ before \cup {p} \subseteq upto
        <5>1. IsFiniteSet(1..p) /\ upto \subseteq 1..p
          BY FS_Interval
        <5>2. before \cup {p} \subseteq upto
          BY <1>3, <3>1, <3>3
        <5> QED
          BY <5>1, <5>2, NoMore
      <4>5. Cardinality(before \cup {p}) = Cardinality(before) + 1
        BY <4>3, JustOneMore
      <4>6. Cardinality(before) + 1 <= Cardinality(upto) /\ Cardinality(upto) \in Nat
        BY <4>4, <4>5, NoMore
      <4> HIDE DEF before, upto
      <4> QED
        BY <1>3, <3>1, <4>1, <4>2, <4>6, BoundsAssumption
    <3> QED
      BY <1>3, <3>2, <3>3
  <2>2. \A c, line : IsKept(c, line)' <=> IsKept(c, line)
    BY <1>1 DEF IsKept
  <2>3. DOMAIN stream = 1..Len(stream)
    BY <1>3
  <2> SUFFICES ASSUME NEW h \in heard', NEW p \in DOMAIN h[2], AmongFirst(h[2], p)
               PROVE  IsKept(h[1], h[2][p])
    BY <1>1, <2>2 DEF HeardIsKept
  <2>4. CASE h \in heard
    BY <2>4 DEF IInv, HeardIsKept
  <2>5. CASE h = <<Head(containers), stream>>
    BY <2>1, <2>3, <2>5
  <2> QED
    BY <1>1, <2>4, <2>5
<1>7. EntriesAreBounded'
  <2>1. \A c \in Containers :
           /\ EntriesOf(c)' = EntriesOf(c)
           /\ Cardinality(EntriesOf(c)') <= Cardinality(EntriesOf(c)) + 0
    <3>1. ASSUME NEW c \in Containers
          PROVE  EntriesOf(c)' = EntriesOf(c) /\ Cardinality(EntriesOf(c)) \in Nat
      BY <1>1, Finite DEF EntriesOf, IInv
    <3> QED
      BY <3>1
  <2>2. 0 \in 0..1 /\ count + 0 <= MaxErrLinesPerContainer
    BY <1>3, BoundsAssumption
  <2> QED
    BY <1>1, <1>4, <2>1, <2>2, ClosedIsBounded
<1> QED
  BY <1>1, <1>4, <1>5, <1>6, <1>7, Closed DEF IInv

\* A stream is cut, perhaps within a line.
LEMMA CutStep ==
    ASSUME IInv, Cut
    PROVE  IInv'
<1>1. pc = "scan" /\ ~AtLimit /\ Close /\ heard' = heard
  BY DEF Cut
<1>2. /\ UNCHANGED <<log, spec, targets, todo, errors, reported, seen, results, listed>>
      /\ containers' = Tail(containers) /\ stream' = <<>> /\ scanned' = 0 /\ count' = 0
      /\ pc' = "open"
  BY <1>1 DEF Close, findings
<1>3. /\ InList /\ containers # <<>> /\ Head(containers) \in Containers
      /\ stream \in Seq(Lines) /\ scanned \in 0..Len(stream) /\ Len(stream) \in Nat
      /\ count \in 0..MaxErrLinesPerContainer
      /\ Tail(containers) \in Seq(Containers)
  BY <1>1, Reading, NextContainer
<1>4. TypeOK
  BY DEF IInv
<1>5. /\ scanned' \in 0..Len(stream') /\ count' \in 0..MaxErrLinesPerContainer
      /\ stream' \in Seq(Lines)
  <2>1. Len(<<>>) = 0 /\ <<>> \in Seq(Lines)
    OBVIOUS
  <2> QED
    BY <1>2, <2>1, BoundsAssumption
<1>6. CASE entries' = entries
  <2>1. TypeOK'
    BY <1>1, <1>2, <1>3, <1>4, <1>5, <1>6 DEF TypeOK, Target
  <2>2. EntriesAreReal' /\ HeardIsKept'
    BY <1>1, <1>2, <1>6, StillReal, StillKept
  <2>3. EntriesAreBounded'
    <3>1. \A c \in Containers :
             /\ EntriesOf(c)' = EntriesOf(c)
             /\ Cardinality(EntriesOf(c)') <= Cardinality(EntriesOf(c)) + 0
      <4>1. ASSUME NEW c \in Containers
            PROVE  EntriesOf(c)' = EntriesOf(c) /\ Cardinality(EntriesOf(c)) \in Nat
        BY <1>4, <1>6, Finite DEF EntriesOf
      <4> QED
        BY <4>1
    <3>2. 0 \in 0..1 /\ count + 0 <= MaxErrLinesPerContainer
      BY <1>3, BoundsAssumption
    <3> QED
      BY <1>1, <2>1, <3>1, <3>2, ClosedIsBounded
  <2> QED
    BY <1>1, <2>1, <2>2, <2>3, Closed DEF IInv
<1>7. CASE /\ scanned < Len(stream)
           /\ \E l \in Beginnings[stream[scanned + 1]] : entries' = entries \o Kept(l)
  <2>1. /\ scanned + 1 \in 1..Len(stream)
        /\ stream[scanned + 1] \in Lines /\ stream[scanned + 1] \in Range(log[Head(containers)])
    <3>1. scanned + 1 \in 1..Len(stream)
      BY <1>3, <1>7
    <3> QED
      BY <1>1, <3>1, Reading
  <2>2. PICK l \in Beginnings[stream[scanned + 1]] : entries' = entries \o Kept(l)
    BY <1>7
  <2>3. l \in Lines
    BY <2>1, LinesAssumption
  <2>4. /\ entries' \in Seq(Entry) /\ Len(entries) <= Len(entries')
        /\ Len(Kept(l)) = IF l \in Significant THEN 1 ELSE 0
        /\ \A c, line : IsKept(c, line) => IsKept(c, line)'
    BY <1>3, <1>4, <2>2, <2>3, KeepsOne
  <2>5. TypeOK'
    <3>1. reported' \in 0..Len(entries')
      <4>1. Len(entries) \in Nat /\ Len(entries') \in Nat /\ reported \in 0..Len(entries)
        BY <1>4, <2>4 DEF TypeOK
      <4> QED
        BY <1>2, <2>4, <4>1
    <3> QED
      BY <1>1, <1>2, <1>3, <1>4, <1>5, <2>4, <3>1 DEF TypeOK, Target
  <2>6. EntriesAreReal'
    BY <1>2, <1>3, <2>1, <2>2, <2>3, KeptIsReal
  <2>7. HeardIsKept'
    BY <1>1, <2>4 DEF IInv, HeardIsKept, AmongFirst
  <2>8. EntriesAreBounded'
    <3>1. \A c \in Containers :
             /\ c # Head(containers) => EntriesOf(c)' = EntriesOf(c)
             /\ Cardinality(EntriesOf(c)') <= Cardinality(EntriesOf(c)) + Len(Kept(l))
      BY <1>3, <1>4, <2>2, <2>3, EntriesGrow
    <3>2. Len(Kept(l)) \in 0..1 /\ count + Len(Kept(l)) <= MaxErrLinesPerContainer
      BY <1>1, <1>3, <2>4, BoundsAssumption DEF AtLimit
    <3>3. PICK n \in 0..1 : n = Len(Kept(l))
      BY <3>2
    <3> QED
      BY <1>1, <2>5, <3>1, <3>2, <3>3, ClosedIsBounded
  <2> QED
    BY <1>1, <2>5, <2>6, <2>7, <2>8, Closed DEF IInv
<1> QED
  BY <1>6, <1>7 DEF Cut

-----------------------------------------------------------------------------
(* The report.                                                              *)

\* The collection ends.
LEMMA EndCollectStep ==
    ASSUME IInv, EndCollect
    PROVE  IInv'
<1>1. /\ pc = "list" /\ targets = <<>> /\ pc' = "report"
      /\ UNCHANGED <<log, spec, targets, todo, containers, stream, scanned, count, entries,
                     errors, reported, seen, results, listed, heard>>
  BY DEF EndCollect, reading, collection, findings, history
<1>2. TypeOK'
  BY <1>1 DEF IInv, TypeOK, Target
<1>3. TargetsLeft'
  BY <1>1 DEF IInv, TargetsLeft, Position, InList
<1>4. VisitsLeft'
  BY <1>1 DEF IInv, VisitsLeft, InList
<1>5. /\ StreamSoFar' /\ EntriesAreReal' /\ ScannedIsKept' /\ HeardIsKept' /\ NothingYet'
      /\ FindingsSoFar' /\ FindingsAreDistinct' /\ FindingsAreCounted'
      /\ ErrorsAreReported'
      /\ \A c : OnHand(c)' = OnHand(c)
  BY <1>1, <1>2, Aside DEF findings
<1>6. EntriesAreBounded'
  <2>1. ASSUME NEW c
        PROVE  VisitsSoFar(c) \subseteq VisitsSoFar(c)'
    BY <1>1 DEF VisitsSoFar, Visits, Position, InList
  <2> QED
    BY <1>1, <1>2, <1>5, <2>1, RoomEnough
<1>7. DoneIsAccounted'
  BY <1>1 DEF IInv, DoneIsAccounted, Position
<1> QED
  BY <1>2, <1>3, <1>4, <1>5, <1>6, <1>7 DEF IInv

\* The report leaves the collection alone.
LEMMA CollectionAside ==
    ASSUME IInv, TypeOK', pc = "report", pc' \in {"report", "done"},
           UNCHANGED <<log, spec, targets, todo, reading, collection, history>>
    PROVE  /\ TargetsLeft' /\ VisitsLeft' /\ StreamSoFar' /\ EntriesAreReal'
           /\ ScannedIsKept' /\ HeardIsKept' /\ EntriesAreBounded' /\ NothingYet'
           /\ DoneIsAccounted'
<1>1. UNCHANGED <<log, spec, targets, todo, containers, stream, scanned, count, entries,
                  errors, listed, heard>>
  BY DEF reading, collection, history
<1>2. TargetsLeft'
  BY <1>1 DEF IInv, TargetsLeft, Position, InList
<1>3. VisitsLeft'
  BY <1>1 DEF IInv, VisitsLeft, InList
<1>4. StreamSoFar' /\ ScannedIsKept' /\ \A c : OnHand(c)' = OnHand(c)
  BY <1>1, SameStream
<1>5. EntriesAreReal' /\ HeardIsKept'
  BY <1>1, StillReal, StillKept
<1>6. EntriesAreBounded'
  <2>1. ASSUME NEW c
        PROVE  VisitsSoFar(c) \subseteq VisitsSoFar(c)'
    BY <1>1 DEF VisitsSoFar, Visits, Position, InList
  <2> QED
    BY <1>1, <1>4, <2>1, RoomEnough
<1>7. NothingYet' /\ DoneIsAccounted'
  BY <1>1 DEF IInv, NothingYet, DoneIsAccounted, Position
<1> QED
  BY <1>2, <1>3, <1>4, <1>5, <1>6, <1>7

\* What the findings may be.
AnyFinding == LogFindings \cup {ErrorFinding(t) : t \in Target}

\* What a finding says of its entry.
LEMMA FindingOf ==
    ASSUME NEW e \in Entry
    PROVE  /\ LogFinding(e) \in LogFindings
           /\ LogFinding(e).ref = e.container /\ LogFinding(e).line = e.line
           /\ Key(e) = <<e.container, Prefix[e.line]>> /\ e.container \in Containers
BY DEF Entry, LogFindings, LogFinding, Key

\* An entry is reported, or is like one that was.
LEMMA ReportEntryStep ==
    ASSUME IInv, ReportEntry
    PROVE  IInv'
<1>1. TypeOK /\ pc = "report" /\ reported < Len(entries)
  BY DEF IInv, ReportEntry
<1>2. /\ Len(entries) \in Nat /\ reported \in 0..Len(entries) /\ reported + 1 \in 1..Len(entries)
      /\ Len(results) \in Nat /\ DOMAIN results = 1..Len(results)
      /\ DOMAIN entries = 1..Len(entries) /\ entries[reported + 1] \in Entry
  <2>1. reported \in 0..Len(entries)
    BY <1>1 DEF TypeOK
  <2>2. Len(entries) \in Nat
    BY <1>1, Types
  <2>3. reported + 1 \in 1..Len(entries)
    BY <1>1, <2>1, <2>2
  <2> QED
    BY <1>1, <2>1, <2>2, <2>3, Types
<1>3. PICK e \in Entry : e = entries[reported + 1]
  BY <1>2
<1>4. /\ pc' = "report" /\ reported' = reported + 1
      /\ UNCHANGED <<log, spec, targets, todo, reading, collection, history, entries>>
      /\ IF Fresh(e)
           THEN seen' = seen \cup {Key(e)} /\ results' = Append(results, LogFinding(e))
           ELSE seen' = seen /\ results' = results
  BY <1>1, <1>3 DEF ReportEntry, collection
<1>5. /\ LogFinding(e) \in LogFindings
      /\ LogFinding(e).ref = e.container /\ LogFinding(e).line = e.line
      /\ Key(e) = <<e.container, Prefix[e.line]>> /\ e.container \in Containers
  BY FindingOf
<1>6. /\ \A i \in DOMAIN results : results[i].ref \in Containers
      /\ \A i \in DOMAIN results : results[i].ref \in Containers =>
            /\ <<results[i].ref, Prefix[results[i].line]>> \in seen
            /\ \E k \in 1..reported : results[i] = LogFinding(entries[k])
      /\ \A key \in seen : \E i \in DOMAIN results :
            results[i].ref \in Containers /\ key = <<results[i].ref, Prefix[results[i].line]>>
      /\ \A k \in 1..reported : Key(entries[k]) \in seen
  BY <1>1 DEF IInv, FindingsSoFar
<1>7. \A k \in 1..(reported + 1) : k \in 1..reported \/ k = reported + 1
  BY <1>2
<1>8. CASE Fresh(e)
  <2> DEFINE n == Len(results) + 1
  <2>1. results \in Seq(AnyFinding) /\ LogFinding(e) \in AnyFinding
    BY <1>1, <1>5 DEF TypeOK, AnyFinding
  <2>2. /\ results' \in Seq(AnyFinding) /\ DOMAIN results' = 1..n
        /\ \A i \in 1..Len(results) : results'[i] = results[i]
        /\ results'[n] = LogFinding(e)
    BY <1>4, <1>8, <2>1, Appended
  <2>3. seen' = seen \cup {Key(e)} /\ Key(e) \notin seen
    BY <1>4, <1>8 DEF Fresh
  <2>4. \A i \in 1..n : i \in 1..Len(results) \/ i = n
    BY <1>2
  <2>5. n \in 1..n /\ \A i \in 1..Len(results) : i \in 1..n /\ i # n
    BY <1>2
  <2> HIDE DEF n
  <2>6. TypeOK'
    <3>1. results' \in Seq(LogFindings \cup {ErrorFinding(t) : t \in Target})'
      BY <1>4, <2>2 DEF AnyFinding, Target
    <3>2. reported' \in 0..Len(entries')
      BY <1>2, <1>4
    <3> QED
      BY <1>1, <1>4, <2>3, <3>1, <3>2 DEF TypeOK, Target, reading, collection, history
  <2>7. FindingsSoFar'
    <3>1. ASSUME NEW i \in 1..n
          PROVE  /\ results'[i].ref \in Containers
                 /\ <<results'[i].ref, Prefix[results'[i].line]>> \in seen'
                 /\ \E k \in 1..(reported + 1) : results'[i] = LogFinding(entries[k])
      <4>1. CASE i \in 1..Len(results)
        <5>1. results'[i] = results[i] /\ results[i].ref \in Containers
          BY <1>2, <1>6, <2>2, <4>1
        <5>2. PICK k \in 1..reported : results[i] = LogFinding(entries[k])
          BY <1>2, <1>6, <4>1, <5>1
        <5>3. k \in 1..(reported + 1)
          BY <1>2
        <5> QED
          BY <1>2, <1>6, <2>3, <4>1, <5>1, <5>2, <5>3
      <4>2. CASE i = n
        <5>1. reported + 1 \in 1..(reported + 1)
          BY <1>2
        <5> QED
          BY <1>3, <1>5, <2>2, <2>3, <4>2, <5>1
      <4> QED
        BY <2>4, <4>1, <4>2
    <3>2. ASSUME NEW key \in seen'
          PROVE  \E i \in 1..n : /\ results'[i].ref \in Containers
                                 /\ key = <<results'[i].ref, Prefix[results'[i].line]>>
      <4>1. CASE key \in seen
        <5>1. PICK i \in 1..Len(results) :
                 results[i].ref \in Containers /\ key = <<results[i].ref, Prefix[results[i].line]>>
          BY <1>2, <1>6, <4>1
        <5> QED
          BY <2>2, <2>5, <5>1
      <4>2. CASE key = Key(e)
        BY <1>5, <2>2, <2>5, <4>2
      <4> QED
        BY <2>3, <4>1, <4>2
    <3>3. ASSUME NEW k \in 1..(reported + 1)
          PROVE  Key(entries[k]) \in seen'
      BY <1>3, <1>6, <1>7, <2>3
    <3> QED
      BY <1>4, <2>2, <3>1, <3>2, <3>3 DEF FindingsSoFar
  <2>8. FindingsAreDistinct'
    <3> SUFFICES ASSUME NEW c \in Containers, NEW i \in 1..n, NEW j \in 1..n,
                        results'[i].ref = c, results'[j].ref = c,
                        Prefix[results'[i].line] = Prefix[results'[j].line]
                 PROVE  i = j
      BY <2>2 DEF FindingsAreDistinct, Distinct, Reported
    <3>1. \A x \in 1..Len(results) :
             results'[x].ref = c /\ Prefix[results'[x].line] = Prefix[e.line] =>
                c # e.container
      <4> SUFFICES ASSUME NEW x \in 1..Len(results), results'[x].ref = c,
                          Prefix[results'[x].line] = Prefix[e.line], c = e.container
                   PROVE  FALSE
        OBVIOUS
      <4>1. results'[x] = results[x]
        BY <2>2
      <4>2. <<results[x].ref, Prefix[results[x].line]>> = Key(e)
        BY <1>5, <4>1
      <4> QED
        BY <1>2, <1>6, <2>3, <4>2
    <3>2. CASE i \in 1..Len(results) /\ j \in 1..Len(results)
      BY <1>2, <2>2, <3>2 DEF IInv, FindingsAreDistinct, Distinct, Reported
    <3>3. CASE i = n /\ j \in 1..Len(results)
      BY <1>5, <2>2, <3>1, <3>3
    <3>4. CASE j = n /\ i \in 1..Len(results)
      BY <1>5, <2>2, <3>1, <3>4
    <3> QED
      BY <2>4, <3>2, <3>3, <3>4
  <2>9. FindingsAreCounted'
    <3> SUFFICES ASSUME NEW c \in Containers
                 PROVE  Cardinality(Reported(c)') <=
                          Cardinality({k \in EntriesOf(c)' : k <= reported'})
      BY DEF FindingsAreCounted
    <3> DEFINE before == {k \in EntriesOf(c) : k <= reported}
               after == {k \in EntriesOf(c) : k <= reported + 1}
    <3>1. {k \in EntriesOf(c)' : k <= reported'} = after
      BY <1>4 DEF EntriesOf
    <3>2. Cardinality(Reported(c)) <= Cardinality(before)
      BY DEF IInv, FindingsAreCounted
    <3>3. /\ IsFiniteSet(after) /\ IsFiniteSet(before) /\ IsFiniteSet(Reported(c))
          /\ Cardinality(after) \in Nat /\ Cardinality(before) \in Nat
          /\ Cardinality(Reported(c)) \in Nat
      <4>1. IsFiniteSet(EntriesOf(c)) /\ IsFiniteSet(Reported(c))
        BY <1>1, Finite
      <4>2. after \subseteq EntriesOf(c) /\ before \subseteq EntriesOf(c)
        OBVIOUS
      <4> QED
        BY <4>1, <4>2, NoMore
    <3>4. EntriesOf(c) \subseteq 1..Len(entries)
      BY <1>2 DEF EntriesOf
    <3>5. before \subseteq after
      BY <1>2, <3>4
    <3>6. CASE c = e.container
      <4>1. Reported(c)' \subseteq Reported(c) \cup {n}
        BY <1>2, <2>2, <2>4 DEF Reported
      <4>2. Cardinality(Reported(c)') <= Cardinality(Reported(c)) + 1 /\ Cardinality(Reported(c)') \in Nat
        BY <3>3, <4>1, OneMore
      <4>3. reported + 1 \in after /\ reported + 1 \notin before
        BY <1>2, <1>3, <3>6 DEF EntriesOf
      <4>4. before \cup {reported + 1} \subseteq after
        BY <3>5, <4>3
      <4>5. Cardinality(before \cup {reported + 1}) = Cardinality(before) + 1
        BY <3>3, <4>3, JustOneMore
      <4>6. Cardinality(before) + 1 <= Cardinality(after)
        BY <3>3, <4>4, <4>5, NoMore
      <4> HIDE DEF before, after
      <4> QED
        BY <3>1, <3>2, <3>3, <4>2, <4>6
    <3>7. CASE c # e.container
      <4>1. Reported(c)' = Reported(c)
        BY <1>2, <1>5, <2>2, <2>4, <2>5, <3>7 DEF Reported
      <4>2. Cardinality(before) <= Cardinality(after)
        BY <3>3, <3>5, NoMore
      <4> HIDE DEF before, after
      <4> QED
        BY <3>1, <3>2, <3>3, <4>1, <4>2
    <3> QED
      BY <3>6, <3>7
  <2>10. ErrorsAreReported'
    BY <1>4 DEF ErrorsAreReported
  <2> QED
    BY <1>1, <1>4, <2>6, <2>7, <2>8, <2>9, <2>10, CollectionAside DEF IInv
<1>9. CASE ~Fresh(e)
  <2>1. seen' = seen /\ results' = results /\ Key(e) \in seen
    BY <1>4, <1>9 DEF Fresh
  <2>2. reported' \in 0..Len(entries')
    BY <1>2, <1>4
  <2>3. TypeOK'
    BY <1>1, <1>4, <2>1, <2>2 DEF TypeOK, Target, reading, collection, history
  <2>4. FindingsSoFar'
    <3>1. ASSUME NEW k \in 1..(reported + 1)
          PROVE  Key(entries[k]) \in seen
      BY <1>3, <1>6, <1>7, <2>1
    <3>2. \A k \in 1..reported : k \in 1..(reported + 1)
      BY <1>2
    <3>3. \A i \in DOMAIN results : results[i].ref \in Containers =>
             \E k \in 1..(reported + 1) : results[i] = LogFinding(entries[k])
      BY <1>6, <3>2
    <3> QED
      BY <1>4, <1>6, <2>1, <3>1, <3>3 DEF FindingsSoFar
  <2>5. FindingsAreDistinct'
    BY <2>1 DEF IInv, FindingsAreDistinct, Distinct, Reported
  <2>6. FindingsAreCounted'
    <3> SUFFICES ASSUME NEW c \in Containers
                 PROVE  Cardinality(Reported(c)') <=
                          Cardinality({k \in EntriesOf(c)' : k <= reported'})
      BY DEF FindingsAreCounted
    <3> DEFINE before == {k \in EntriesOf(c) : k <= reported}
               after == {k \in EntriesOf(c) : k <= reported + 1}
    <3>1. {k \in EntriesOf(c)' : k <= reported'} = after /\ Reported(c)' = Reported(c)
      BY <1>4, <2>1 DEF EntriesOf, Reported
    <3>2. Cardinality(Reported(c)) <= Cardinality(before)
      BY DEF IInv, FindingsAreCounted
    <3>3. before \subseteq after
      BY <1>2 DEF EntriesOf
    <3>4. IsFiniteSet(EntriesOf(c)) /\ after \subseteq EntriesOf(c) /\ Cardinality(Reported(c)) \in Nat
      BY <1>1, Finite
    <3>5. IsFiniteSet(after)
      BY <3>4, NoMore
    <3>6. /\ Cardinality(before) <= Cardinality(after)
          /\ Cardinality(before) \in Nat /\ Cardinality(after) \in Nat
      BY <3>3, <3>5, NoMore
    <3> HIDE DEF before, after
    <3> QED
      BY <3>1, <3>2, <3>4, <3>6
  <2>7. ErrorsAreReported'
    BY <1>4 DEF ErrorsAreReported
  <2> QED
    BY <1>1, <1>4, <2>3, <2>4, <2>5, <2>6, <2>7, CollectionAside DEF IInv
<1> QED
  BY <1>8, <1>9

\* The errors are reported after the entries.
LEMMA ReportErrorsStep ==
    ASSUME IInv, ReportErrors
    PROVE  IInv'
<1> DEFINE fs == [i \in DOMAIN errors |-> ErrorFinding(errors[i])]
           n == Len(results)
<1>1. /\ pc = "report" /\ pc' = "done" /\ reported = Len(entries)
      /\ results' = results \o fs
      /\ UNCHANGED <<log, spec, targets, todo, reading, collection, history,
                     entries, errors, reported, seen>>
  BY DEF ReportErrors, collection
<1>2. TypeOK
  BY DEF IInv
<1>3. /\ errors \in Seq(Target) /\ DOMAIN errors = 1..Len(errors) /\ Len(errors) \in Nat
      /\ n \in Nat /\ DOMAIN results = 1..n
      /\ results \in Seq(AnyFinding)
  BY <1>2 DEF TypeOK, AnyFinding
<1>4. /\ fs \in Seq(AnyFinding) /\ Len(fs) = Len(errors)
      /\ \A i \in 1..Len(errors) : fs[i] = ErrorFinding(errors[i])
  <2>1. \A i \in 1..Len(errors) : ErrorFinding(errors[i]) \in AnyFinding
    BY <1>3 DEF AnyFinding
  <2>2. fs \in [1..Len(errors) -> AnyFinding]
    BY <1>3, <2>1
  <2> QED
    BY <1>3, <2>2
<1> HIDE DEF fs, n
<1>5. /\ results' \in Seq(AnyFinding) /\ DOMAIN results' = 1..(n + Len(errors))
      /\ \A i \in 1..n : results'[i] = results[i]
      /\ \A i \in 1..Len(errors) : results'[n + i] = ErrorFinding(errors[i])
      /\ \A i \in 1..(n + Len(errors)) : i \in 1..n \/ (i - n) \in 1..Len(errors)
  <2>1. n = Len(results)
    BY DEF n
  <2>2. /\ results' \in Seq(AnyFinding) /\ DOMAIN results' = 1..(n + Len(errors))
        /\ \A i \in 1..n : results'[i] = results[i]
        /\ \A i \in 1..Len(errors) : results'[n + i] = fs[i]
    <3>1. /\ results \o fs \in Seq(AnyFinding)
          /\ DOMAIN (results \o fs) = 1..(Len(results) + Len(fs))
          /\ \A i \in 1..Len(results) : (results \o fs)[i] = results[i]
          /\ \A i \in 1..Len(fs) : (results \o fs)[Len(results) + i] = fs[i]
      <4>1. results \in Seq(AnyFinding) /\ fs \in Seq(AnyFinding)
        BY <1>3, <1>4
      <4>2. PICK q \in Seq(AnyFinding), r \in Seq(AnyFinding) : q = results /\ r = fs
        BY <4>1
      <4>3. /\ q \o r \in Seq(AnyFinding)
            /\ DOMAIN (q \o r) = 1..(Len(q) + Len(r))
            /\ \A i \in 1..Len(q) : (q \o r)[i] = q[i]
            /\ \A i \in 1..Len(r) : (q \o r)[Len(q) + i] = r[i]
        BY Joined
      <4> QED
        BY <4>2, <4>3
    <3> QED
      BY <1>1, <1>4, <2>1, <3>1
  <2>3. \A i \in 1..Len(errors) : results'[n + i] = ErrorFinding(errors[i])
    BY <1>4, <2>2
  <2>4. \A i \in 1..(n + Len(errors)) : i \in 1..n \/ (i - n) \in 1..Len(errors)
    BY <1>3
  <2> QED
    BY <2>2, <2>3, <2>4
<1>6. \A t : ErrorFinding(t).ref \notin Containers
  BY PodsAssumption DEF ErrorFinding
<1>7. \A i \in 1..n : i \in 1..(n + Len(errors))
  BY <1>3
<1>8. \A i \in 1..(n + Len(errors)) : results'[i].ref \in Containers => i \in 1..n
  <2> SUFFICES ASSUME NEW i \in 1..(n + Len(errors)), i \notin 1..n
               PROVE  results'[i].ref \notin Containers
    OBVIOUS
  <2>1. i - n \in 1..Len(errors) /\ n + (i - n) = i
    BY <1>3, <1>5
  <2>2. results'[i] = ErrorFinding(errors[i - n])
    BY <1>5, <2>1
  <2> QED
    BY <1>6, <2>2
<1>9. TypeOK'
  <2>1. results' \in Seq(LogFindings \cup {ErrorFinding(t) : t \in Target})'
    BY <1>1, <1>5 DEF AnyFinding, Target
  <2> QED
    BY <1>1, <1>2, <2>1 DEF TypeOK, Target, reading, collection, history
<1>10. FindingsSoFar'
  <2>1. /\ \A i \in 1..n : results[i].ref \in Containers =>
              /\ <<results[i].ref, Prefix[results[i].line]>> \in seen
              /\ \E k \in 1..reported : results[i] = LogFinding(entries[k])
        /\ \A key \in seen : \E i \in 1..n :
              results[i].ref \in Containers /\ key = <<results[i].ref, Prefix[results[i].line]>>
        /\ \A k \in 1..reported : Key(entries[k]) \in seen
    BY <1>3 DEF IInv, FindingsSoFar
  <2>2. ASSUME NEW i \in 1..(n + Len(errors)), results'[i].ref \in Containers
        PROVE  /\ <<results'[i].ref, Prefix[results'[i].line]>> \in seen
               /\ \E k \in 1..reported : results'[i] = LogFinding(entries[k])
    BY <1>5, <1>8, <2>1, <2>2
  <2>3. ASSUME NEW key \in seen
        PROVE  \E i \in 1..(n + Len(errors)) :
                  results'[i].ref \in Containers /\ key = <<results'[i].ref, Prefix[results'[i].line]>>
    <3>1. PICK i \in 1..n :
             results[i].ref \in Containers /\ key = <<results[i].ref, Prefix[results[i].line]>>
      BY <2>1
    <3> QED
      BY <1>5, <1>7, <3>1
  <2>4. /\ reported' = Len(entries') /\ pc' = "done" /\ reported' = reported
        /\ entries' = entries /\ seen' = seen /\ DOMAIN results' = 1..(n + Len(errors))
    BY <1>1, <1>5
  <2>5. \A i \in DOMAIN results' : results'[i].ref \in Containers =>
              /\ <<results'[i].ref, Prefix[results'[i].line]>> \in seen'
              /\ \E k \in 1..reported' : results'[i] = LogFinding(entries'[k])
    BY <2>2, <2>4
  <2>6. /\ \A key \in seen' : \E i \in DOMAIN results' :
              results'[i].ref \in Containers /\ key = <<results'[i].ref, Prefix[results'[i].line]>>
        /\ \A k \in 1..reported' : Key(entries'[k]) \in seen'
    BY <2>1, <2>3, <2>4
  <2> QED
    BY <2>4, <2>5, <2>6 DEF FindingsSoFar
<1>11. ASSUME NEW c \in Containers
       PROVE  Reported(c)' = Reported(c)
  BY <1>3, <1>5, <1>7, <1>8 DEF Reported
<1>12. FindingsAreDistinct'
  <2> SUFFICES ASSUME NEW c \in Containers, NEW i \in Reported(c), NEW j \in Reported(c),
                      Prefix[results'[i].line] = Prefix[results'[j].line]
               PROVE  i = j
    BY <1>11 DEF FindingsAreDistinct, Distinct
  <2>1. results'[i] = results[i] /\ results'[j] = results[j]
    BY <1>3, <1>5 DEF Reported
  <2> QED
    BY <2>1 DEF IInv, FindingsAreDistinct, Distinct
<1>13. FindingsAreCounted'
  <2>1. \A c : EntriesOf(c)' = EntriesOf(c)
    BY <1>1 DEF EntriesOf
  <2> QED
    BY <1>1, <1>11, <2>1 DEF IInv, FindingsAreCounted
<1>14. ErrorsAreReported'
  <2> SUFFICES ASSUME NEW i \in 1..Len(errors)
               PROVE  ErrorFinding(errors[i]) \in Range(results')
    BY <1>1, <1>3 DEF ErrorsAreReported, Range
  <2>1. n + i \in 1..(n + Len(errors))
    BY <1>3
  <2> QED
    BY <1>5, <2>1 DEF Range
<1> QED
  BY <1>1, <1>9, <1>10, <1>12, <1>13, <1>14, CollectionAside DEF IInv

-----------------------------------------------------------------------------
(* The invariant.                                                           *)

\* It is true when a collection is called.
LEMMA Initially ==
    ASSUME Init
    PROVE  IInv
<1>1. /\ log \in [Containers -> Seq(Lines)] /\ spec \in Calls /\ pc = "start"
      /\ targets = <<>> /\ todo = {} /\ containers = <<>> /\ stream = <<>>
      /\ scanned = 0 /\ count = 0 /\ entries = <<>> /\ errors = <<>>
      /\ reported = 0 /\ seen = {} /\ results = <<>> /\ listed = {} /\ heard = {}
  BY LinesAssumption DEF Init
<1>2. Len(targets) = 0 /\ Len(stream) = 0 /\ Len(entries) = 0
  BY <1>1
<1>3. DOMAIN entries = {} /\ DOMAIN results = {} /\ DOMAIN containers = {} /\ DOMAIN errors = {}
  BY <1>1
<1>4. TypeOK
  BY <1>1, <1>2, BoundsAssumption DEF TypeOK
<1>5. TargetsLeft
  <2>1. Len(TargetsOf(spec)) \in Nat /\ 1..Len(targets) = {}
    BY <1>2, <1>4, Types
  <2> QED
    BY <1>1, <1>2, <2>1 DEF TargetsLeft, InList
<1>6. VisitsLeft
  BY <1>1, <1>3 DEF VisitsLeft, InList, IsInjective
<1>7. 1..scanned = {} /\ 1..reported = {}
  BY <1>1
<1>8. StreamSoFar /\ ScannedIsKept
  <2>1. {q \in 1..scanned : stream[q] \in Significant} = {}
    BY <1>7
  <2> QED
    BY <1>1, <1>7, <2>1, FS_EmptySet DEF StreamSoFar, ScannedIsKept
<1>9. EntriesAreReal /\ HeardIsKept /\ NothingYet
  BY <1>1, <1>3 DEF EntriesAreReal, HeardIsKept, NothingYet
<1>10. \A c : EntriesOf(c) = {} /\ Reported(c) = {} /\ {k \in EntriesOf(c) : k <= reported} = {}
  BY <1>3 DEF EntriesOf, Reported
<1>11. EntriesAreBounded
  <2> SUFFICES ASSUME NEW c \in Containers
               PROVE  Cardinality(EntriesOf(c)) <=
                        MaxErrLinesPerContainer * Cardinality(VisitsSoFar(c)) + OnHand(c)
    BY DEF EntriesAreBounded
  <2>1. Cardinality(VisitsSoFar(c)) \in Nat
    BY <1>4, Finite
  <2>2. MaxErrLinesPerContainer * Cardinality(VisitsSoFar(c)) \in Nat
    BY <2>1, Room
  <2>3. OnHand(c) = 0 /\ Cardinality(EntriesOf(c)) = 0
    BY <1>1, <1>10, FS_EmptySet DEF OnHand
  <2> QED
    BY <2>2, <2>3
<1>12. FindingsSoFar
  BY <1>1, <1>3, <1>7 DEF FindingsSoFar
<1>13. FindingsAreDistinct
  BY <1>10 DEF FindingsAreDistinct, Distinct
<1>14. FindingsAreCounted
  BY <1>10, FS_EmptySet DEF FindingsAreCounted
<1>15. DoneIsAccounted /\ ErrorsAreReported
  BY <1>1 DEF DoneIsAccounted, ErrorsAreReported
<1> QED
  BY <1>4, <1>5, <1>6, <1>8, <1>9, <1>11, <1>12, <1>13, <1>14, <1>15 DEF IInv

\* Every step keeps it.
LEMMA Inductive ==
    ASSUME IInv, [Next]_vars
    PROVE  IInv'
<1>1. CASE Write
  BY <1>1, WriteStep
<1>2. CASE Step
  BY <1>2, StartStep, ListPodsStep, ListFailsStep, EndListStep, VisitPodStep, EndPodStep,
     OpenFailsStep, EndStreamStep, CutStep, EndCollectStep, ReportEntryStep,
     ReportErrorsStep DEF Step
<1>3. CASE Open
  BY <1>3, OpenStep
<1>4. CASE ScanLine
  BY <1>4, ScanLineStep
<1>5. CASE Terminated \/ UNCHANGED vars
  BY <1>5, StutterStep DEF Terminated
<1> QED
  BY <1>1, <1>2, <1>3, <1>4, <1>5 DEF Next

\* The inductive invariant holds of every collection.
THEOREM Invariance == Spec => []IInv
<1>1. Init => IInv
  BY Initially
<1>2. IInv /\ [Next]_vars => IInv'
  BY Inductive
<1> QED
  BY <1>1, <1>2, PTL DEF Spec

-----------------------------------------------------------------------------
(* The properties.                                                          *)

\* A finding about a container is that of an entry of it that was gone through.
LEMMA FindingHasEntry ==
    ASSUME IInv, NEW c \in Containers, NEW i \in Reported(c)
    PROVE  \E k \in DOMAIN entries :
              entries[k].container = c /\ results[i].line = entries[k].line
<1>1. i \in DOMAIN results /\ results[i].ref = c
  BY DEF Reported
<1>2. PICK k \in 1..reported : results[i] = LogFinding(entries[k])
  BY <1>1 DEF IInv, FindingsSoFar
<1>3. k \in 1..Len(entries) /\ entries[k] \in Entry
  <2>1. reported \in 0..Len(entries) /\ Len(entries) \in Nat
    BY Types DEF IInv, TypeOK
  <2>2. k \in 1..Len(entries)
    BY <2>1
  <2> QED
    BY <2>2, Types DEF IInv
<1> QED
  BY <1>1, <1>2, <1>3, FindingOf, Types DEF IInv

\* Findings about a container go back to lines it wrote.
LEMMA RealFindings ==
    ASSUME IInv, NEW c \in Containers
    PROVE  Real(c)
<1> SUFFICES ASSUME NEW i \in Reported(c)
             PROVE  FromLog(c, results[i].line)
  BY DEF Real, FromLog
<1>1. PICK k \in DOMAIN entries :
         entries[k].container = c /\ results[i].line = entries[k].line
  BY FindingHasEntry
<1> QED
  BY <1>1 DEF IInv, EntriesAreReal

\* They are no more than the limit for each visit.
LEMMA BoundedFindings ==
    ASSUME IInv, NEW c \in Containers
    PROVE  Bounded(c)
<1>1. TypeOK
  BY DEF IInv
<1>2. /\ IsFiniteSet(EntriesOf(c)) /\ Cardinality(EntriesOf(c)) \in Nat
      /\ Cardinality(Visits(c)) \in Nat /\ Cardinality(VisitsSoFar(c)) \in Nat
      /\ Cardinality(VisitsSoFar(c)) <= Cardinality(Visits(c))
      /\ Cardinality(Reported(c)) \in Nat
  BY <1>1, Finite
<1>3. /\ MaxErrLinesPerContainer * Cardinality(VisitsSoFar(c)) <=
            MaxErrLinesPerContainer * Cardinality(Visits(c))
      /\ MaxErrLinesPerContainer * Cardinality(VisitsSoFar(c)) \in Nat
      /\ MaxErrLinesPerContainer * Cardinality(Visits(c)) \in Nat
  BY <1>2, Room
<1>4. CASE pc = "scan"
  <2>1. DOMAIN results = {}
    BY <1>4 DEF IInv, FindingsSoFar
  <2>2. Cardinality(Reported(c)) = 0
    BY <2>1, FS_EmptySet DEF Reported
  <2> QED
    BY <1>3, <2>2 DEF Bounded
<1>5. CASE pc # "scan"
  <2>1. /\ Cardinality({k \in EntriesOf(c) : k <= reported}) <= Cardinality(EntriesOf(c))
        /\ Cardinality({k \in EntriesOf(c) : k <= reported}) \in Nat
    <3>1. {k \in EntriesOf(c) : k <= reported} \subseteq EntriesOf(c)
      OBVIOUS
    <3> QED
      BY <1>2, <3>1, NoMore
  <2>2. Cardinality(Reported(c)) <= Cardinality({k \in EntriesOf(c) : k <= reported})
    BY DEF IInv, FindingsAreCounted
  <2>3. OnHand(c) = 0
    BY <1>5 DEF OnHand
  <2>4. Cardinality(EntriesOf(c)) <=
           MaxErrLinesPerContainer * Cardinality(VisitsSoFar(c)) + OnHand(c)
    BY DEF IInv, EntriesAreBounded
  <2> QED
    BY <1>2, <1>3, <2>1, <2>2, <2>3, <2>4 DEF Bounded
<1> QED
  BY <1>4, <1>5

\* The findings about a container are real, distinct and bounded.
THEOREM FindingsSound == Spec => []FindingsAreSound
<1>1. IInv => FindingsAreSound
  BY RealFindings, BoundedFindings DEF FindingsAreSound, IInv, FindingsAreDistinct
<1> QED
  BY <1>1, Invariance, PTL

\* A stream that was not cut has its first significant lines in the findings.
THEOREM NothingIsLost == Spec => []NothingLost
<1>1. IInv => NothingLost
  <2> SUFFICES ASSUME IInv, pc = "done", NEW h \in heard, NEW p \in DOMAIN h[2],
                      AmongFirst(h[2], p)
               PROVE  \E i \in Reported(h[1]) : Prefix[results[i].line] = Prefix[h[2][p]]
    BY DEF NothingLost
  <2>1. PICK k \in DOMAIN entries : entries[k] = [container |-> h[1], line |-> h[2][p]]
    BY DEF IInv, HeardIsKept, IsKept
  <2>2. k \in 1..reported
    BY <2>1, Types DEF IInv, FindingsSoFar
  <2>3. Key(entries[k]) \in seen
    BY <2>2 DEF IInv, FindingsSoFar
  <2>4. Key(entries[k]) = <<h[1], Prefix[h[2][p]]>>
    BY <2>1 DEF Key
  <2>5. PICK i \in DOMAIN results : Key(entries[k]) = <<results[i].ref, Prefix[results[i].line]>>
    BY <2>3 DEF IInv, FindingsSoFar
  <2> QED
    BY <2>4, <2>5 DEF Reported
<1> QED
  BY <1>1, Invariance, PTL

\* Each selector for virtual machine pods was listed or is reported.
THEOREM SelectorsAccounted == Spec => []SelectorsAccountedFor
<1>1. IInv => SelectorsAccountedFor
  <2> SUFFICES ASSUME IInv, pc = "done", Wanted(spec), NEW i \in DOMAIN TargetsOf(spec)
               PROVE  \/ TargetsOf(spec)[i] \in listed
                      \/ ~TargetsOf(spec)[i].vm
                      \/ ErrorFinding(TargetsOf(spec)[i]) \in Range(results)
    BY DEF SelectorsAccountedFor, Range
  <2>1. /\ Len(TargetsOf(spec)) \in Nat /\ DOMAIN TargetsOf(spec) = 1..Len(TargetsOf(spec))
    BY Types DEF IInv
  <2>2. Len(targets) = 0
    BY DEF IInv, TargetsLeft
  <2>3. i \in 1..Position
    BY <2>1, <2>2 DEF Position
  <2> QED
    BY <2>3 DEF IInv, DoneIsAccounted, ErrorsAreReported
<1> QED
  BY <1>1, Invariance, PTL

-----------------------------------------------------------------------------
(* What there is still to do.                                               *)

\* It is counted in natural numbers, so that there is no infinite sequence of
\* smaller and smaller ones.
LEMMA ToDoIsCounted ==
    ASSUME IInv
    PROVE  StillToDo \in [1..7 -> Nat]
<1>1. /\ Len(targets) \in Nat /\ Len(containers) \in Nat
      /\ Len(stream) - scanned \in Nat /\ Len(entries) - reported \in Nat
  BY DEF IInv, TypeOK
<1>2. Cardinality(todo) \in Nat
  BY PodsAssumption, FS_Subset, FS_CardinalityType DEF IInv, TypeOK
<1> QED
  BY <1>1, <1>2 DEF StillToDo

\* The order goes by the first place that differs.
LEMMA LessAt ==
    ASSUME NEW x, NEW y, NEW i \in 1..7, x[i] < y[i], \A j \in 1..(i - 1) : x[j] = y[j]
    PROVE  Less(x, y)
  BY DEF Less

\* A step of the process or of a stream leaves less.
LEMMA StepLeavesLess ==
    ASSUME IInv, Step \/ Open \/ ScanLine
    PROVE  Less(StillToDo', StillToDo)
<1>1. /\ targets \in Seq(Target) /\ containers \in Seq(Containers)
      /\ Len(stream) \in Nat /\ scanned \in Nat /\ Len(entries) \in Nat /\ reported \in Nat
  BY DEF IInv, TypeOK
<1> DEFINE x == StillToDo'
           y == StillToDo
<1>2. CASE Start \/ EndCollect \/ ReportErrors
  <2>1. x[1] < y[1]
    BY <1>2 DEF Start, EndCollect, ReportErrors, StillToDo
  <2> QED
    BY <2>1, LessAt
<1>3. CASE ListFails \/ EndList
  <2>1. targets' = Tail(targets) /\ targets # <<>> /\ pc \in {"list", "pods"} /\ pc' = "list"
    BY <1>3 DEF ListFails, EndList, IInv, TargetsLeft, InList
  <2>2. Len(targets') < Len(targets)
    BY <1>1, <2>1, TailOf
  <2>3. x[1] = y[1] /\ x[2] < y[2]
    BY <2>1, <2>2 DEF StillToDo
  <2> QED
    BY <2>3, LessAt
<1>4. CASE ListPods
  <2>1. x[1] = y[1] /\ x[2] = y[2] /\ x[3] < y[3]
    BY <1>4 DEF ListPods, StillToDo
  <2> QED
    BY <2>1, LessAt
<1>5. CASE VisitPod
  <2>1. PICK p \in todo : todo' = todo \ {p}
    BY <1>5 DEF VisitPod
  <2>2. IsFiniteSet(todo)
    BY PodsAssumption, FS_Subset DEF IInv, TypeOK
  <2>3. Cardinality(todo \ {p}) = Cardinality(todo) - 1 /\ Cardinality(todo) \in Nat
    BY <2>2, FS_RemoveElement, FS_CardinalityType
  <2>4. Cardinality(todo') < Cardinality(todo)
    BY <2>1, <2>3
  <2>5. x[1] = y[1] /\ x[2] = y[2] /\ x[3] = y[3] /\ x[4] < y[4]
    BY <1>5, <2>4 DEF VisitPod, StillToDo
  <2> QED
    BY <2>5, LessAt
<1>6. CASE OpenFails \/ EndStream \/ Cut
  <2>1. /\ containers' = Tail(containers) /\ containers # <<>>
        /\ pc \in {"open", "scan"} /\ pc' = "open" /\ UNCHANGED <<targets, todo>>
    BY <1>6 DEF OpenFails, EndStream, Cut, Close, IInv, VisitsLeft
  <2>2. Len(containers') < Len(containers)
    BY <1>1, <2>1, TailOf
  <2>3. x[1] = y[1] /\ x[2] = y[2] /\ x[3] = y[3] /\ x[4] = y[4] /\ x[5] < y[5]
    BY <2>1, <2>2 DEF StillToDo
  <2> QED
    BY <2>3, LessAt
<1>7. CASE EndPod \/ Open
  <2>1. /\ pc = "open" /\ pc' \in {"pods", "scan"}
        /\ UNCHANGED <<targets, todo, containers>>
    BY <1>7 DEF EndPod, Open, reading
  <2>2. /\ x[1] = y[1] /\ x[2] = y[2] /\ x[3] = y[3] /\ x[4] = y[4] /\ x[5] = y[5]
        /\ x[6] < y[6]
    BY <2>1 DEF StillToDo
  <2> QED
    BY <2>2, LessAt
<1>8. CASE ScanLine \/ ReportEntry
  <2>1. pc' = pc /\ UNCHANGED <<targets, todo, containers>>
    BY <1>8 DEF ScanLine, ReportEntry, reading
  <2>2. /\ x[1] = y[1] /\ x[2] = y[2] /\ x[3] = y[3] /\ x[4] = y[4] /\ x[5] = y[5]
        /\ x[6] = y[6]
    BY <2>1 DEF StillToDo
  <2>3. x[7] < y[7]
    BY <1>1, <1>8 DEF ScanLine, ReportEntry, collection, StillToDo
  <2> QED
    BY <2>2, <2>3, LessAt
<1> QED
  BY <1>2, <1>3, <1>4, <1>5, <1>6, <1>7, <1>8 DEF Step

\* Every step leaves less to do, and what is written meanwhile adds nothing
\* (logcollector.go:86-107, 134-160, 195-317).
THEOREM ComesToAnEnd == Spec => LessAndLessToDo
<1> DEFINE Nearer ==
        IF log' = log THEN Less(StillToDo', StillToDo) ELSE StillToDo' = StillToDo
<1>1. ASSUME IInv, [Next]_vars
      PROVE  [Nearer]_vars
  <2>1. CASE Write
    <3>1. PICK c \in Containers, l \in Lines : log' = [log EXCEPT ![c] = Append(@, l)]
      BY <2>1 DEF Write
    <3>2. log \in [Containers -> Seq(Lines)]
      BY <1>1 DEF IInv, TypeOK
    <3>3. log'[c] = Append(log[c], l) /\ log[c] \in Seq(Lines)
      BY <3>1, <3>2
    <3>4. Len(log'[c]) # Len(log[c])
      BY <3>3
    <3>5. log' # log
      BY <3>4
    <3>6. StillToDo' = StillToDo
      BY <2>1 DEF Write, reading, collection, findings, StillToDo
    <3> QED
      BY <3>5, <3>6
  <2>2. CASE Step \/ Open \/ ScanLine
    <3>1. log' = log
      BY <2>2
         DEF Step, Start, ListPods, ListFails, EndList, VisitPod, EndPod, OpenFails, EndStream,
             Cut, Close, EndCollect, ReportEntry, ReportErrors, Open, ScanLine
    <3> QED
      BY <1>1, <2>2, <3>1, StepLeavesLess
  <2>3. CASE Terminated \/ UNCHANGED vars
    BY <2>3 DEF Terminated
  <2> QED
    BY <1>1, <2>1, <2>2, <2>3 DEF Next
<1>2. IInv /\ [Next]_vars => [Nearer]_vars
  BY <1>1
<1> QED
  BY <1>2, Invariance, PTL DEF Spec, LessAndLessToDo

\* What there is to do is counted in natural numbers at every moment, so that
\* ComesToAnEnd speaks of a well-founded order.
THEOREM ToDoCounted == Spec => [](StillToDo \in [1..7 -> Nat])
  BY ToDoIsCounted, Invariance, PTL
=============================================================================
