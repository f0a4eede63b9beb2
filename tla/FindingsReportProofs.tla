------------------------- MODULE FindingsReportProofs -------------------------
(* Proofs about module FindingsReport, for lists of findings of any length   *)
(* and any cap.                                                              *)
EXTENDS FindingsReport, FiniteSetTheorems, TLAPS

-----------------------------------------------------------------------------
(* Findings, ranks and arrangements.                                         *)

\* What the types say of the two lists.
LEMMA Lists ==
    ASSUME TypeOK
    PROVE  /\ Len(collected) \in Nat
           /\ DOMAIN collected = 1..Len(collected) /\ DOMAIN allFindings = 1..Len(collected)
           /\ \A p \in 1..Len(collected) : collected[p] \in Finding /\ allFindings[p] \in Finding
           /\ MaxStatusFindings \in Nat \ {0}
<1>1. /\ collected \in Seq(Finding) /\ allFindings \in Seq(Finding)
      /\ Len(allFindings) = Len(collected)
  BY DEF TypeOK
<1> HIDE DEF Finding
<1>2. /\ Len(collected) \in Nat /\ DOMAIN collected = 1..Len(collected)
      /\ \A p \in 1..Len(collected) : collected[p] \in Finding
  BY <1>1
<1>3. /\ DOMAIN allFindings = 1..Len(collected)
      /\ \A p \in 1..Len(collected) : allFindings[p] \in Finding
  BY <1>1
<1> QED
  BY <1>2, <1>3, ReportAssumption

\* A status outweighs every severity.
LEMMA RankOf ==
    ASSUME NEW f \in Finding
    PROVE  /\ statusRank[f.status] \in 0..3 /\ severityRank[f.severity] \in 0..2
           /\ Rank(f) \in Nat
           /\ Rank(f) = statusRank[f.status] * 10 + severityRank[f.severity]
           /\ f.status = "Failed" <=> statusRank[f.status] = 0
<1>1. f.status \in Statuses /\ f.severity \in Severities
  BY DEF Finding
<1>2. statusRank[f.status] \in 0..3 /\ (f.status = "Failed" <=> statusRank[f.status] = 0)
  BY <1>1 DEF statusRank, Statuses
<1>3. severityRank[f.severity] \in 0..2
  BY <1>1 DEF severityRank, Severities
<1> QED
  BY <1>2, <1>3 DEF Rank

\* The order of a stable sort is total.
LEMMA PrecedesIsOrder ==
    ASSUME TypeOK
    PROVE  /\ \A p \in DOMAIN collected : ~Precedes(p, p)
           /\ \A p, q \in DOMAIN collected : p = q \/ Precedes(p, q) \/ Precedes(q, p)
           /\ \A p, q, r \in DOMAIN collected :
                 Precedes(p, q) /\ Precedes(q, r) => Precedes(p, r)
           /\ \A p, q \in DOMAIN collected : Precedes(p, q) => ~Precedes(q, p)
<1>1. \A p \in DOMAIN collected : p \in Int /\ Rank(collected[p]) \in Int
  BY Lists, RankOf
<1> QED
  BY <1>1 DEF Precedes

\* What an arrangement is.
LEMMA Arrangement ==
    ASSUME NEW o
    PROVE  Arranges(o) <=>
             /\ o \in [DOMAIN collected -> DOMAIN collected]
             /\ \A p, q \in DOMAIN collected : o[p] = o[q] => p = q
             /\ \A q \in DOMAIN collected : \E p \in DOMAIN collected : o[p] = q
             /\ \A p \in DOMAIN collected : allFindings[p] = collected[o[p]]
BY DEF Arranges, Bijection, Injection, Surjection, IsInjective

-----------------------------------------------------------------------------
(* The insertion sort.                                                       *)

\* The sort begins with the list as it was collected.
LEMMA StartSortHolds ==
    ASSUME IInv, StartSort
    PROVE  SortHolds'
<1>1. /\ pc = "cap" /\ pc' = "sort" /\ outer' = 2 /\ inner' = 2
      /\ UNCHANGED <<collected, allFindings>>
      /\ Len(collected) > MaxStatusFindings /\ allFindings = collected /\ TypeOK
  BY DEF StartSort, IInv, SortHolds, TypeOK
<1>2. /\ Len(collected) \in Nat /\ DOMAIN collected = 1..Len(collected)
      /\ 2 <= Len(collected)
  BY <1>1, Lists
<1>3. PICK o \in [DOMAIN collected -> DOMAIN collected] : \A p \in DOMAIN collected : o[p] = p
  <2>1. [p \in DOMAIN collected |-> p] \in [DOMAIN collected -> DOMAIN collected]
    OBVIOUS
  <2> QED
    BY <2>1
<1>4. Arranges(o)
  BY <1>1, <1>3, Arrangement
<1>5. Arranges(o)'
  BY <1>1, <1>4 DEF Arranges
<1>6. SortedSoFar(o)'
  <2>1. /\ o[2] = 2
        /\ \A p \in DOMAIN collected : p > 2 => o[p] = p
        /\ \A p \in DOMAIN collected : p <= 2 => o[p] <= 2
        /\ \A p \in DOMAIN collected : ~(2 < p /\ p <= 2)
        /\ \A p, q \in (1..2) \ {2} : ~(p < q)
    BY <1>2, <1>3
  <2> QED
    BY <1>1, <2>1 DEF SortedSoFar
<1> QED
  BY <1>1, <1>2, <1>3, <1>5, <1>6 DEF SortHolds

\* A finding moves one place up.
LEMMA SwapHolds ==
    ASSUME IInv, Swap
    PROVE  SortHolds' /\ TypeOK'
<1>1. /\ pc = "sort" /\ pc' = "sort" /\ inner > 1 /\ inner' = inner - 1
      /\ allFindings' = [allFindings EXCEPT ![inner - 1] = allFindings[inner],
                                            ![inner] = allFindings[inner - 1]]
      /\ UNCHANGED <<collected, outer, statusFindings, counts, phase, events>>
      /\ Rank(allFindings[inner - 1]) > Rank(allFindings[inner])
  BY DEF Swap, OutOfOrder
<1>2. /\ TypeOK /\ Len(collected) > MaxStatusFindings
      /\ 2 <= outer /\ outer <= Len(collected) /\ 1 <= inner
  BY <1>1 DEF IInv, SortHolds
<1>3. PICK o \in [DOMAIN collected -> DOMAIN collected] : Arranges(o) /\ SortedSoFar(o)
  BY <1>1 DEF IInv, SortHolds
<1> DEFINE D == 1..Len(collected)
<1>4. /\ Len(collected) \in Nat /\ DOMAIN collected = D /\ DOMAIN allFindings = D
      /\ \A p \in D : collected[p] \in Finding /\ allFindings[p] \in Finding
  BY <1>2, Lists
<1>5. outer \in Nat /\ inner \in Nat /\ inner <= outer
  BY <1>2, <1>4 DEF TypeOK
<1>6. inner \in D /\ inner - 1 \in D /\ inner # inner - 1
  BY <1>1, <1>2, <1>4, <1>5
<1>7. /\ o \in [D -> D]
      /\ \A p, q \in D : o[p] = o[q] => p = q
      /\ \A q \in D : \E p \in D : o[p] = q
      /\ \A p \in D : allFindings[p] = collected[o[p]]
  BY <1>3, <1>4, Arrangement
<1>8. /\ o[inner] = outer
      /\ \A p \in D : p > outer => o[p] = p
      /\ \A p \in D : p <= outer => o[p] <= outer
      /\ \A p \in D : inner < p /\ p <= outer => Precedes(o[inner], o[p])
      /\ \A p, q \in (1..outer) \ {inner} : p < q => Precedes(o[p], o[q])
  BY <1>3, <1>4 DEF SortedSoFar
<1> DEFINE swapped == [p \in D |-> IF p = inner - 1 THEN o[inner]
                                   ELSE IF p = inner THEN o[inner - 1] ELSE o[p]]
<1>9. PICK s \in [D -> D] :
         /\ s[inner - 1] = o[inner] /\ s[inner] = o[inner - 1]
         /\ \A p \in D : p # inner /\ p # inner - 1 => s[p] = o[p]
  <2>1. /\ swapped \in [D -> D]
        /\ swapped[inner - 1] = o[inner] /\ swapped[inner] = o[inner - 1]
        /\ \A p \in D : p # inner /\ p # inner - 1 => swapped[p] = o[p]
    BY <1>6, <1>7
  <2> QED
    BY <2>1
<1> HIDE DEF swapped
<1>10. /\ allFindings'[inner - 1] = allFindings[inner]
       /\ allFindings'[inner] = allFindings[inner - 1]
       /\ \A p \in D : p # inner /\ p # inner - 1 => allFindings'[p] = allFindings[p]
  BY <1>1, <1>4, <1>6
<1> HIDE DEF D
<1>11. Arranges(s)'
  <2>1. \A p, q \in D : s[p] = s[q] => p = q
    BY <1>6, <1>7, <1>9
  <2>2. \A q \in D : \E p \in D : s[p] = q
    <3> SUFFICES ASSUME NEW q \in D
                 PROVE  \E p \in D : s[p] = q
      OBVIOUS
    <3>1. PICK p \in D : o[p] = q
      BY <1>7
    <3> QED
      BY <1>6, <1>9, <3>1
  <2>3. \A p \in D : allFindings'[p] = collected[s[p]]
    <3> SUFFICES ASSUME NEW p \in D
                 PROVE  allFindings'[p] = collected[s[p]]
      OBVIOUS
    <3>1. CASE p = inner
      BY <1>6, <1>7, <1>9, <1>10, <3>1
    <3>2. CASE p = inner - 1
      BY <1>6, <1>7, <1>9, <1>10, <3>2
    <3>3. CASE p # inner /\ p # inner - 1
      BY <1>7, <1>9, <1>10, <3>3
    <3> QED
      BY <3>1, <3>2, <3>3
  <2> QED
    BY <1>1, <1>4, <1>9, <2>1, <2>2, <2>3
       DEF Arranges, Bijection, Injection, Surjection, IsInjective
<1>12. Precedes(o[inner], o[inner - 1])
  BY <1>1, <1>6, <1>7 DEF Precedes
<1>13. SortedSoFar(s)'
  <2>1. D = 1..Len(collected)
    BY DEF D
  <2>2. /\ s[inner - 1] = outer
        /\ \A p \in D : p > outer => s[p] = p
        /\ \A p \in D : p <= outer => s[p] <= outer
    <3>1. \A p \in D : p > outer => p # inner /\ p # inner - 1
      BY <1>5, <2>1
    <3>2. \A p \in D : p > outer => s[p] = p
      BY <1>8, <1>9, <3>1
    <3>3. inner <= outer /\ inner - 1 <= outer
      BY <1>5
    <3>4. s[inner] <= outer /\ s[inner - 1] <= outer
      BY <1>6, <1>8, <1>9, <3>3
    <3>5. \A p \in D : p <= outer => s[p] <= outer
      BY <1>8, <1>9, <3>4
    <3> QED
      BY <1>8, <1>9, <3>2, <3>5
  <2>3. ASSUME NEW p \in D, inner - 1 < p, p <= outer
        PROVE  Precedes(s[inner - 1], s[p])
    <3>1. CASE p = inner
      BY <1>9, <1>12, <3>1
    <3>2. CASE p # inner
      <4>1. p # inner - 1 /\ inner < p
        BY <1>5, <2>1, <2>3, <3>2
      <4> QED
        BY <1>8, <1>9, <2>3, <3>2, <4>1
    <3> QED
      BY <3>1, <3>2
  <2>4. ASSUME NEW p \in (1..outer) \ {inner - 1}, NEW q \in (1..outer) \ {inner - 1}, p < q
        PROVE  Precedes(s[p], s[q])
    <3>1. p \in D /\ q \in D /\ inner \in 1..outer /\ inner - 1 \in (1..outer) \ {inner}
      BY <1>1, <1>2, <1>4, <1>5, <2>1
    <3>2. CASE p = inner
      <4>1. q # inner /\ inner - 1 < q /\ s[p] = o[inner - 1] /\ s[q] = o[q]
        BY <1>5, <1>9, <2>4, <3>1, <3>2
      <4> QED
        BY <1>8, <2>4, <3>1, <4>1
    <3>3. CASE q = inner
      <4>1. p # inner /\ p < inner - 1 /\ s[q] = o[inner - 1] /\ s[p] = o[p]
        BY <1>5, <1>9, <2>4, <3>1, <3>3
      <4> QED
        BY <1>8, <2>4, <3>1, <4>1
    <3>4. CASE p # inner /\ q # inner
      BY <1>8, <1>9, <2>4, <3>1, <3>4
    <3> QED
      BY <3>2, <3>3, <3>4
  <2>5. /\ s[inner'] = outer'
        /\ \A p \in DOMAIN collected' :
              /\ p > outer' => s[p] = p
              /\ p <= outer' => s[p] <= outer'
              /\ inner' < p /\ p <= outer' => Precedes(s[inner'], s[p])
        /\ \A p, q \in (1..outer') \ {inner'} : p < q => Precedes(s[p], s[q])
    BY <1>1, <1>4, <2>2, <2>3, <2>4
  <2> QED
    BY <1>1, <2>5 DEF SortedSoFar, Precedes
<1>14. TypeOK'
  <2>1. allFindings' \in [D -> Finding]
    BY <1>1, <1>4, <1>6 DEF TypeOK
  <2>2. allFindings' \in Seq(Finding) /\ Len(allFindings') = Len(collected)
    BY <1>4, <2>1 DEF D
  <2>3. inner' \in 0..outer'
    BY <1>1, <1>5
  <2> QED
    BY <1>1, <1>2, <2>2, <2>3 DEF TypeOK
<1> QED
  BY <1>1, <1>2, <1>4, <1>5, <1>9, <1>11, <1>13, <1>14 DEF SortHolds

\* A finding has found its place.
LEMMA NextOuterHolds ==
    ASSUME IInv, NextOuter
    PROVE  SortHolds' /\ TypeOK'
<1>1. /\ pc = "sort" /\ outer' = outer + 1 /\ inner' = outer + 1
      /\ inner > 1 => ~(Rank(allFindings[inner - 1]) > Rank(allFindings[inner]))
      /\ pc' = IF outer < Len(allFindings) THEN "sort" ELSE "capped"
      /\ UNCHANGED <<collected, allFindings, statusFindings, counts, phase, events>>
  BY DEF NextOuter, OutOfOrder
<1>2. /\ TypeOK /\ Len(collected) > MaxStatusFindings
      /\ 2 <= outer /\ outer <= Len(collected) /\ 1 <= inner
      /\ Len(allFindings) = Len(collected)
  BY <1>1 DEF IInv, SortHolds, TypeOK
<1>3. PICK o \in [DOMAIN collected -> DOMAIN collected] : Arranges(o) /\ SortedSoFar(o)
  BY <1>1 DEF IInv, SortHolds
<1>4. /\ Len(collected) \in Nat /\ DOMAIN collected = 1..Len(collected)
      /\ \A p \in DOMAIN collected : collected[p] \in Finding
  BY <1>2, Lists
<1>5. outer \in Nat /\ inner \in Nat /\ inner <= outer
  BY <1>2, <1>4 DEF TypeOK
<1>6. /\ \A p, q \in DOMAIN collected : o[p] = o[q] => p = q
      /\ \A p \in DOMAIN collected : allFindings[p] = collected[o[p]]
      /\ \A p \in DOMAIN collected : o[p] \in DOMAIN collected
  BY <1>3, Arrangement
<1>7. /\ o[inner] = outer
      /\ \A p \in DOMAIN collected : p > outer => o[p] = p
      /\ \A p \in DOMAIN collected : p <= outer => o[p] <= outer
      /\ \A p \in DOMAIN collected : inner < p /\ p <= outer => Precedes(o[inner], o[p])
      /\ \A p, q \in (1..outer) \ {inner} : p < q => Precedes(o[p], o[q])
  BY <1>3 DEF SortedSoFar
<1>8. ASSUME inner > 1
      PROVE  Precedes(o[inner - 1], o[inner])
  <2>1. /\ inner \in DOMAIN collected /\ inner - 1 \in DOMAIN collected /\ inner # inner - 1
        /\ inner - 1 <= outer
    BY <1>2, <1>4, <1>5, <1>8
  <2>2. /\ o[inner - 1] \in DOMAIN collected /\ o[inner] \in DOMAIN collected
        /\ o[inner - 1] # o[inner] /\ o[inner - 1] <= outer
        /\ allFindings[inner - 1] = collected[o[inner - 1]]
        /\ allFindings[inner] = collected[o[inner]]
    BY <1>6, <1>7, <2>1
  <2>3. o[inner - 1] < o[inner]
    BY <1>4, <1>5, <1>7, <2>2
  <2>4. Rank(collected[o[inner - 1]]) \in Nat /\ Rank(collected[o[inner]]) \in Nat
    BY <1>4, <2>2, RankOf
  <2>5. ~(Rank(collected[o[inner - 1]]) > Rank(collected[o[inner]]))
    BY <1>1, <1>8, <2>2
  <2> QED
    BY <2>3, <2>4, <2>5 DEF Precedes
<1>9. ASSUME NEW p \in 1..outer, NEW q \in 1..outer, p < q
      PROVE  Precedes(o[p], o[q])
  <2>1. p \in DOMAIN collected /\ q \in DOMAIN collected
    BY <1>2, <1>4, <1>5
  <2>2. CASE p = inner
    BY <1>7, <1>9, <2>1, <2>2
  <2>3. CASE q = inner
    <3>1. inner > 1 /\ inner - 1 \in (1..outer) \ {inner} /\ p \in (1..outer) \ {inner}
          /\ inner - 1 \in DOMAIN collected
      BY <1>2, <1>4, <1>5, <1>9, <2>3
    <3>2. Precedes(o[inner - 1], o[q])
      BY <1>8, <2>3, <3>1
    <3>3. CASE p = inner - 1
      BY <3>2, <3>3
    <3>4. CASE p # inner - 1
      <4>1. p < inner - 1
        BY <1>5, <1>9, <2>3, <3>4
      <4>2. Precedes(o[p], o[inner - 1])
        BY <1>7, <3>1, <4>1
      <4>3. /\ o[p] \in DOMAIN collected /\ o[inner - 1] \in DOMAIN collected
            /\ o[q] \in DOMAIN collected
        BY <1>6, <2>1, <3>1
      <4>4. \A a, b, c \in DOMAIN collected : Precedes(a, b) /\ Precedes(b, c) => Precedes(a, c)
        BY <1>2, PrecedesIsOrder
      <4> QED
        BY <3>2, <4>2, <4>3, <4>4
    <3> QED
      BY <3>3, <3>4
  <2>4. CASE p # inner /\ q # inner
    BY <1>7, <1>9, <2>4
  <2> QED
    BY <2>2, <2>3, <2>4
<1>10. Arranges(o)'
  BY <1>1, <1>3 DEF Arranges
<1>11. TypeOK'
  <2>1. outer' \in 0..(Len(collected') + 1) /\ inner' \in 0..outer'
    BY <1>1, <1>2, <1>4, <1>5
  <2> QED
    BY <1>1, <1>2, <2>1 DEF TypeOK
<1>12. CASE outer < Len(collected)
  <2>1. /\ o[outer + 1] = outer + 1
        /\ \A p \in DOMAIN collected : p > outer + 1 => o[p] = p
        /\ \A p \in DOMAIN collected : p <= outer + 1 => o[p] <= outer + 1
        /\ \A p \in DOMAIN collected : ~(outer + 1 < p /\ p <= outer + 1)
    <3>1. outer + 1 \in DOMAIN collected
      BY <1>4, <1>5, <1>12
    <3>2. o[outer + 1] = outer + 1
      BY <1>5, <1>7, <3>1
    <3>3. ASSUME NEW p \in DOMAIN collected, p <= outer + 1
          PROVE  o[p] <= outer + 1
      <4>1. CASE p = outer + 1
        BY <1>5, <3>2, <4>1
      <4>2. CASE p # outer + 1
        <5>1. p <= outer
          BY <1>4, <1>5, <3>3, <4>2
        <5>2. o[p] <= outer /\ o[p] \in Int
          BY <1>4, <1>6, <1>7, <5>1
        <5> QED
          BY <1>5, <5>2
      <4> QED
        BY <4>1, <4>2
    <3>4. \A p \in DOMAIN collected : p > outer + 1 => o[p] = p
      <4>1. \A p \in DOMAIN collected : p > outer + 1 => p > outer
        BY <1>4, <1>5
      <4> QED
        BY <1>7, <4>1
    <3>5. \A p \in DOMAIN collected : ~(outer + 1 < p /\ p <= outer + 1)
      BY <1>4, <1>5
    <3> QED
      BY <3>2, <3>3, <3>4, <3>5
  <2>2. \A p, q \in (1..(outer + 1)) \ {outer + 1} : p < q => Precedes(o[p], o[q])
    <3>1. (1..(outer + 1)) \ {outer + 1} \subseteq 1..outer
      BY <1>5
    <3> QED
      BY <1>9, <3>1
  <2>3. SortedSoFar(o)'
    BY <1>1, <2>1, <2>2 DEF SortedSoFar, Precedes
  <2>4. pc' = "sort" /\ 2 <= outer' /\ outer' <= Len(collected') /\ 1 <= inner'
    BY <1>1, <1>2, <1>4, <1>5, <1>12
  <2> QED
    BY <1>1, <1>2, <1>3, <1>10, <1>11, <2>3, <2>4 DEF SortHolds
<1>13. CASE ~(outer < Len(collected))
  <2>1. outer = Len(collected)
    BY <1>2, <1>4, <1>5, <1>13
  <2>2. Sorted(o)'
    BY <1>1, <1>4, <1>9, <2>1 DEF Sorted, Precedes
  <2>3. pc' = "capped"
    BY <1>1, <1>2, <1>13
  <2>4. ~(Len(collected') <= MaxStatusFindings)
    BY <1>1, <1>2, <1>4, ReportAssumption
  <2> QED
    BY <1>1, <1>2, <1>3, <1>10, <1>11, <2>2, <2>3, <2>4 DEF SortHolds
<1> QED
  BY <1>11, <1>12, <1>13

-----------------------------------------------------------------------------
(* The inductive invariant.                                                  *)

\* It holds at the start.
LEMMA Initially == Init => IInv
<1> SUFFICES ASSUME Init
             PROVE  IInv
  OBVIOUS
<1>1. /\ collected \in Seq(Finding) /\ allFindings = collected /\ pc = "cap"
      /\ outer = 0 /\ inner = 0 /\ statusFindings = <<>>
      /\ counts = [healthy |-> 0, degraded |-> 0, failed |-> 0]
      /\ phase = "none" /\ events = 0
  BY ReportAssumption DEF Init
<1>2. Len(collected) \in Nat /\ statusFindings \in Seq(Finding)
  BY <1>1
<1>3. counts \in [healthy: Nat, degraded: Nat, failed: Nat]
  BY <1>1
<1>4. TypeOK
  BY <1>1, <1>2, <1>3 DEF TypeOK
<1> QED
  BY <1>1, <1>4 DEF IInv, SortHolds, StatusHolds, PhaseFollows

\* As long as neither the list nor the place in the code changes in a way that
\* matters to the sort.
LEMMA SortStays ==
    ASSUME SortHolds, UNCHANGED <<collected, allFindings>>, pc # "sort", pc' # "sort",
           pc' # "cap", pc' # "capped",
           pc = "cap" => Len(collected) <= MaxStatusFindings
    PROVE  SortHolds'
<1>1. CASE Len(collected) <= MaxStatusFindings
  <2>1. allFindings = collected
    BY <1>1 DEF SortHolds
  <2> QED
    BY <1>1, <2>1 DEF SortHolds
<1>2. CASE ~(Len(collected) <= MaxStatusFindings)
  <2>1. PICK o \in [DOMAIN collected -> DOMAIN collected] : Arranges(o) /\ Sorted(o)
    BY <1>2 DEF SortHolds
  <2>2. Arranges(o)' /\ Sorted(o)'
    BY <2>1 DEF Arranges, Sorted, Precedes
  <2> QED
    BY <1>2, <2>1, <2>2 DEF SortHolds
<1> QED
  BY <1>1, <1>2

\* A set of positions is counted.
LEMMA Positions ==
    ASSUME TypeOK, NEW S \in SUBSET (DOMAIN allFindings)
    PROVE  /\ IsFiniteSet(S) /\ Cardinality(S) \in Nat /\ Cardinality(S) <= Len(collected)
<1>1. Len(collected) \in Nat /\ DOMAIN allFindings = 1..Len(collected)
  BY Lists
<1>2. IsFiniteSet(1..Len(collected)) /\ Cardinality(1..Len(collected)) = Len(collected)
  <2>1. 1 \in Int /\ Len(collected) \in Int
    BY <1>1
  <2>2. /\ IsFiniteSet(1..Len(collected))
        /\ Cardinality(1..Len(collected)) =
              IF 1 > Len(collected) THEN 0 ELSE Len(collected) - 1 + 1
    BY <2>1, FS_Interval
  <2> QED
    BY <1>1, <2>2
<1>3. S \in SUBSET (1..Len(collected))
  BY <1>1
<1>4. IsFiniteSet(S) /\ Cardinality(S) <= Cardinality(1..Len(collected))
  BY <1>2, <1>3, FS_Subset
<1> QED
  BY <1>2, <1>4, FS_CardinalityType

\* Every step keeps the invariant.
LEMMA Inductive == IInv /\ [Next]_vars => IInv'
<1> SUFFICES ASSUME IInv, [Next]_vars
             PROVE  IInv'
  OBVIOUS
<1>1. /\ TypeOK /\ SortHolds /\ StatusHolds /\ PhaseFollows
      /\ MaxStatusFindings \in Nat \ {0}
      /\ Len(collected) \in Nat
  BY Lists DEF IInv
<1>2. CASE ReportAll
  <2>1. /\ pc = "cap" /\ pc' = "count" /\ Len(collected) <= MaxStatusFindings
        /\ statusFindings' = allFindings
        /\ UNCHANGED <<collected, allFindings, outer, inner, counts, phase, events>>
    BY <1>1, <1>2 DEF ReportAll, TypeOK
  <2>2. SortHolds'
    BY <1>1, <2>1, SortStays
  <2>3. TypeOK'
    BY <1>1, <2>1 DEF TypeOK
  <2> QED
    BY <2>1, <2>2, <2>3 DEF IInv, StatusHolds, PhaseFollows
<1>3. CASE StartSort
  <2>1. SortHolds'
    BY <1>3, StartSortHolds
  <2>2. /\ pc' = "sort" /\ outer' = 2 /\ inner' = 2 /\ Len(collected) > MaxStatusFindings
        /\ UNCHANGED <<collected, allFindings, statusFindings, counts, phase, events>>
    BY <1>1, <1>3 DEF StartSort, TypeOK
  <2>3. outer' \in 0..(Len(collected) + 1) /\ inner' \in 0..outer'
    BY <1>1, <2>2
  <2>4. TypeOK'
    BY <1>1, <2>2, <2>3 DEF TypeOK
  <2> QED
    BY <2>1, <2>2, <2>4 DEF IInv, StatusHolds, PhaseFollows
<1>4. CASE Swap
  <2>1. SortHolds' /\ TypeOK' /\ pc' = "sort"
    BY <1>4, SwapHolds DEF Swap
  <2> QED
    BY <2>1 DEF IInv, StatusHolds, PhaseFollows
<1>5. CASE NextOuter
  <2>1. SortHolds' /\ TypeOK' /\ pc' \in {"sort", "capped"}
    BY <1>5, NextOuterHolds DEF NextOuter
  <2> QED
    BY <2>1 DEF IInv, StatusHolds, PhaseFollows
<1>6. CASE Cap
  <2>1. /\ pc = "capped" /\ pc' = "count"
        /\ statusFindings' = SubSeq(allFindings, 1, MaxStatusFindings)
        /\ UNCHANGED <<collected, allFindings, outer, inner, counts, phase, events>>
        /\ Len(collected) > MaxStatusFindings
    BY <1>1, <1>6 DEF Cap, SortHolds
  <2>2. SortHolds'
    BY <1>1, <2>1, SortStays
  <2>3. statusFindings' \in Seq(Finding)
    <3>1. allFindings \in Seq(Finding) /\ Len(allFindings) = Len(collected)
      BY <1>1 DEF TypeOK
    <3>2. \A p \in 1..MaxStatusFindings : allFindings[p] \in Finding
      BY <1>1, <2>1, Lists
    <3> HIDE DEF Finding
    <3> QED
      BY <1>1, <2>1, <3>1, <3>2
  <2>4. TypeOK'
    BY <1>1, <2>1, <2>3 DEF TypeOK
  <2>5. StatusHolds'
    BY <1>1, <2>1 DEF StatusHolds
  <2> QED
    BY <2>1, <2>2, <2>4, <2>5 DEF IInv, PhaseFollows
<1>7. CASE CountBySeverity
  <2>1. /\ pc = "count" /\ pc' = "events"
        /\ counts' = [healthy |-> CountOf("Healthy"), degraded |-> CountOf("Degraded"),
                      failed |-> CountOf("Failed")]
        /\ phase' = IF CountOf("Failed") > 0 THEN "Degraded" ELSE "Active"
        /\ UNCHANGED <<collected, allFindings, outer, inner, statusFindings, events>>
    BY <1>7 DEF CountBySeverity
  <2>2. SortHolds'
    BY <1>1, <2>1, SortStays
  <2>3. ASSUME NEW st
        PROVE  CountOf(st) \in Nat
    BY <1>1, Positions DEF CountOf
  <2>4. /\ counts' \in [healthy: Nat, degraded: Nat, failed: Nat]
        /\ phase' \in {"none", "Active", "Degraded"}
    BY <2>1, <2>3
  <2>5. TypeOK'
    BY <1>1, <2>1, <2>4 DEF TypeOK
  <2>6. StatusHolds'
    BY <1>1, <2>1 DEF StatusHolds
  <2>7. PhaseFollows'
    BY <2>1 DEF PhaseFollows, CountOf, FirstOfResource
  <2> QED
    BY <2>2, <2>5, <2>6, <2>7 DEF IInv
<1>8. CASE EmitEvents
  <2>1. /\ pc = "events" /\ pc' = "done"
        /\ UNCHANGED <<collected, allFindings, outer, inner, statusFindings, counts, phase>>
    BY <1>8 DEF EmitEvents
  <2>2. SortHolds'
    BY <1>1, <2>1, SortStays
  <2>3. events' \in 0..Len(collected)
    <3> DEFINE bad == {p \in DOMAIN allFindings : allFindings[p].status # "Healthy"}
    <3>1. Cardinality(bad) \in Nat /\ Cardinality(bad) <= Len(collected)
      BY <1>1, Positions
    <3>2. events' = Cardinality(bad) \/ events' = events
      BY <1>8 DEF EmitEvents
    <3>3. events \in 0..Len(collected)
      BY <1>1 DEF TypeOK
    <3> HIDE DEF bad
    <3> QED
      BY <1>1, <3>1, <3>2, <3>3
  <2>4. TypeOK'
    BY <1>1, <2>1, <2>3 DEF TypeOK
  <2>5. StatusHolds'
    BY <1>1, <2>1 DEF StatusHolds
  <2>6. PhaseFollows'
    BY <1>1, <2>1 DEF PhaseFollows, CountOf, FirstOfResource
  <2> QED
    BY <2>2, <2>4, <2>5, <2>6 DEF IInv
<1>9. CASE UNCHANGED vars
  <2>1. /\ UNCHANGED <<collected, allFindings, pc, outer, inner>>
        /\ UNCHANGED <<statusFindings, counts, phase, events>>
    BY <1>9 DEF vars
  <2>2. TypeOK'
    BY <1>1, <2>1 DEF TypeOK
  <2>3. SortHolds'
    <3>1. CASE pc = "sort"
      <4>1. PICK o \in [DOMAIN collected -> DOMAIN collected] : Arranges(o) /\ SortedSoFar(o)
        BY <1>1, <3>1 DEF SortHolds
      <4>2. Arranges(o)'
        BY <2>1, <4>1 DEF Arranges
      <4>3. SortedSoFar(o)'
        BY <2>1, <4>1 DEF SortedSoFar, Precedes
      <4> QED
        BY <1>1, <2>1, <3>1, <4>1, <4>2, <4>3 DEF SortHolds
    <3>2. CASE pc = "cap" \/ Len(collected) <= MaxStatusFindings
      BY <1>1, <2>1, <3>2 DEF SortHolds
    <3>3. CASE pc \notin {"cap", "sort"} /\ ~(Len(collected) <= MaxStatusFindings)
      <4>1. PICK o \in [DOMAIN collected -> DOMAIN collected] : Arranges(o) /\ Sorted(o)
        BY <1>1, <3>3 DEF SortHolds
      <4>2. Arranges(o)'
        BY <2>1, <4>1 DEF Arranges
      <4>3. Sorted(o)'
        BY <2>1, <4>1 DEF Sorted, Precedes
      <4> QED
        BY <1>1, <2>1, <3>3, <4>1, <4>2, <4>3 DEF SortHolds
    <3> QED
      BY <3>1, <3>2, <3>3
  <2>4. StatusHolds' /\ PhaseFollows'
    BY <1>1, <2>1 DEF StatusHolds, PhaseFollows, CountOf, FirstOfResource
  <2> QED
    BY <2>2, <2>3, <2>4 DEF IInv
<1> QED
  BY <1>2, <1>3, <1>4, <1>5, <1>6, <1>7, <1>8, <1>9 DEF Next, Terminated

-----------------------------------------------------------------------------
(* The theorems.                                                             *)

\* The invariant holds for lists of any length and any cap.
THEOREM Invariance == Spec => []IInv
BY Initially, Inductive, PTL DEF Spec

\* A finding ends where a stable sort puts it.
LEMMA PlaceInOrder ==
    ASSUME TypeOK, NEW o, Arranges(o), Sorted(o), NEW i \in DOMAIN collected
    PROVE  Place(o[i]) = i
<1> DEFINE S == {q \in DOMAIN collected :
                    \/ Rank(collected[q]) < Rank(collected[o[i]])
                    \/ Rank(collected[q]) = Rank(collected[o[i]]) /\ q <= o[i]}
<1>1. /\ o \in [DOMAIN collected -> DOMAIN collected]
      /\ \A p, q \in DOMAIN collected : o[p] = o[q] => p = q
      /\ \A q \in DOMAIN collected : \E p \in DOMAIN collected : o[p] = q
  BY Arrangement
<1>2. /\ DOMAIN collected = 1..Len(collected) /\ Len(collected) \in Nat
      /\ \A p \in DOMAIN collected : Rank(collected[p]) \in Nat
  BY Lists, RankOf
<1>3. ASSUME NEW q \in DOMAIN collected
      PROVE  q \in S <=> Precedes(q, o[i]) \/ q = o[i]
  <2>1. /\ q \in Int /\ o[i] \in Int
        /\ Rank(collected[q]) \in Int /\ Rank(collected[o[i]]) \in Int
    <3>1. o[i] \in DOMAIN collected
      BY <1>1
    <3>2. \A p \in DOMAIN collected : p \in Int /\ Rank(collected[p]) \in Int
      BY <1>2
    <3> QED
      BY <3>1, <3>2
  <2> QED
    BY <2>1 DEF Precedes
<1>4. S \subseteq DOMAIN collected
  OBVIOUS
<1>5. Place(o[i]) = Cardinality(S)
  BY DEF Place
<1> HIDE DEF S
<1>6. PICK f \in [1..i -> S] : \A j \in 1..i : f[j] = o[j]
  <2>1. \A j \in 1..i : o[j] \in S
    <3> SUFFICES ASSUME NEW j \in 1..i
                 PROVE  o[j] \in S
      OBVIOUS
    <3>1. j \in DOMAIN collected /\ o[j] \in DOMAIN collected
      <4>1. j \in DOMAIN collected
        BY <1>2
      <4> QED
        BY <1>1, <4>1
    <3>2. CASE j = i
      BY <1>3, <3>1, <3>2
    <3>3. CASE j # i
      <4>1. j < i
        BY <1>2, <3>3
      <4>2. Precedes(o[j], o[i])
        BY <3>1, <4>1 DEF Sorted
      <4> QED
        BY <1>3, <3>1, <4>2
    <3> QED
      BY <3>2, <3>3
  <2>2. [j \in 1..i |-> o[j]] \in [1..i -> S]
    BY <2>1
  <2> QED
    BY <2>2
<1>7. f \in Bijection(1..i, S)
  <2>1. \A j, k \in 1..i : f[j] = f[k] => j = k
    <3>1. \A j \in 1..i : j \in DOMAIN collected
      BY <1>2
    <3> QED
      BY <1>1, <1>6, <3>1
  <2>2. \A q \in S : \E j \in 1..i : f[j] = q
    <3> SUFFICES ASSUME NEW q \in S
                 PROVE  \E j \in 1..i : f[j] = q
      OBVIOUS
    <3>1. PICK j \in DOMAIN collected : o[j] = q
      BY <1>1, <1>4
    <3>2. q \in DOMAIN collected /\ o[i] \in DOMAIN collected
      BY <1>1, <1>4
    <3>3. Precedes(q, o[i]) \/ q = o[i]
      BY <1>3, <3>2
    <3>4. ~(j > i)
      <4> SUFFICES ASSUME j > i
                   PROVE  FALSE
        OBVIOUS
      <4>1. i < j
        BY <1>2
      <4>2. Precedes(o[i], q)
        BY <3>1, <4>1 DEF Sorted
      <4> QED
        BY <3>2, <3>3, <4>2, PrecedesIsOrder
    <3>5. j \in 1..i
      BY <1>2, <3>4
    <3> QED
      BY <1>6, <3>1, <3>5
  <2> QED
    BY <1>6, <2>1, <2>2 DEF Bijection, Injection, Surjection, IsInjective
<1>8. i \in Nat /\ ExistsBijection(1..i, S)
  BY <1>2, <1>7 DEF ExistsBijection
<1>9. Cardinality(S) = i
  BY <1>8, FS_CountingElements
<1> QED
  BY <1>5, <1>9

\* The insertion sort is a stable one (srepolicy_controller.go:741-760).
THEOREM SortCorrect == Spec => []SortIsStable
<1>1. ASSUME IInv, pc = "capped", NEW p \in DOMAIN collected
      PROVE  allFindings[Place(p)] = collected[p]
  <2>1. TypeOK /\ ~(Len(collected) <= MaxStatusFindings)
    BY <1>1, Lists DEF IInv, SortHolds
  <2>2. PICK o \in [DOMAIN collected -> DOMAIN collected] : Arranges(o) /\ Sorted(o)
    BY <1>1, <2>1 DEF IInv, SortHolds
  <2>3. PICK i \in DOMAIN collected : o[i] = p
    BY <2>2, Arrangement
  <2>4. Place(p) = i
    BY <2>1, <2>2, <2>3, PlaceInOrder
  <2>5. allFindings[i] = collected[o[i]]
    BY <2>2, Arrangement
  <2> QED
    BY <2>3, <2>4, <2>5
<1>2. IInv => SortIsStable
  BY <1>1 DEF SortIsStable
<1> QED
  BY <1>2, Invariance, PTL

\* What is in the status when there was too much for it.
LEMMA Capped ==
    ASSUME IInv, pc \in {"count", "events", "done"}, Len(collected) > MaxStatusFindings
    PROVE  \E o \in [DOMAIN collected -> DOMAIN collected] :
              /\ Arranges(o) /\ Sorted(o)
              /\ DOMAIN statusFindings = 1..MaxStatusFindings
              /\ \A p \in 1..MaxStatusFindings :
                    /\ p \in DOMAIN collected
                    /\ statusFindings[p] = allFindings[p]
                    /\ statusFindings[p] = collected[o[p]]
<1>1. /\ TypeOK /\ Len(collected) \in Nat /\ DOMAIN collected = 1..Len(collected)
      /\ MaxStatusFindings \in Nat \ {0}
  BY Lists DEF IInv
<1>2. ~(Len(collected) <= MaxStatusFindings)
  BY <1>1
<1>3. PICK o \in [DOMAIN collected -> DOMAIN collected] : Arranges(o) /\ Sorted(o)
  BY <1>2 DEF IInv, SortHolds
<1>4. statusFindings = SubSeq(allFindings, 1, MaxStatusFindings)
  BY <1>2 DEF IInv, StatusHolds
<1>5. allFindings \in Seq(Finding) /\ Len(allFindings) = Len(collected)
  BY <1>1 DEF TypeOK
<1> HIDE DEF Finding
<1>6. /\ DOMAIN statusFindings = 1..MaxStatusFindings
      /\ \A p \in 1..MaxStatusFindings : statusFindings[p] = allFindings[p]
  BY <1>1, <1>4, <1>5
<1>7. \A p \in 1..MaxStatusFindings : p \in DOMAIN collected
  BY <1>1
<1>8. \A p \in DOMAIN collected : allFindings[p] = collected[o[p]]
  BY <1>3, Arrangement
<1> QED
  BY <1>3, <1>6, <1>7, <1>8

\* What is left out of the status is no more urgent than anything in it
\* (srepolicy_controller.go:226-236).
THEOREM WorstAreKept == Spec => []CapKeepsTheWorst
<1>1. ASSUME IInv, pc = "done", NEW i \in DOMAIN collected, NEW p \in DOMAIN statusFindings,
             statusRank[collected[i].status] < statusRank[statusFindings[p].status]
      PROVE  \E q \in DOMAIN statusFindings : statusFindings[q] = collected[i]
  <2>1. /\ TypeOK /\ Len(collected) \in Nat /\ DOMAIN collected = 1..Len(collected)
        /\ MaxStatusFindings \in Nat \ {0}
        /\ \A r \in DOMAIN collected : collected[r] \in Finding
    BY <1>1, Lists DEF IInv
  <2>2. CASE Len(collected) <= MaxStatusFindings
    <3>1. statusFindings = collected
      BY <1>1, <2>2 DEF IInv, SortHolds, StatusHolds
    <3> QED
      BY <3>1
  <2>3. CASE ~(Len(collected) <= MaxStatusFindings)
    <3>1. Len(collected) > MaxStatusFindings
      BY <2>1, <2>3
    <3>2. PICK o \in [DOMAIN collected -> DOMAIN collected] :
             /\ Arranges(o) /\ Sorted(o)
             /\ DOMAIN statusFindings = 1..MaxStatusFindings
             /\ \A r \in 1..MaxStatusFindings :
                   /\ r \in DOMAIN collected
                   /\ statusFindings[r] = allFindings[r]
                   /\ statusFindings[r] = collected[o[r]]
      BY <1>1, <3>1, Capped
    <3>3. PICK j \in DOMAIN collected : o[j] = i
      BY <3>2, Arrangement
    <3>4. CASE j <= MaxStatusFindings
      <4>1. j \in 1..MaxStatusFindings
        BY <2>1, <3>4
      <4> QED
        BY <3>2, <3>3, <4>1
    <3>5. CASE ~(j <= MaxStatusFindings)
      <4>1. p < j /\ p \in DOMAIN collected /\ o[p] \in DOMAIN collected
        BY <2>1, <3>2, <3>5
      <4>2. Precedes(o[p], i)
        BY <3>2, <3>3, <4>1 DEF Sorted
      <4>3. Rank(collected[o[p]]) <= Rank(collected[i])
        <5>1. Rank(collected[o[p]]) \in Nat /\ Rank(collected[i]) \in Nat
          BY <2>1, <4>1, RankOf
        <5> QED
          BY <4>2, <5>1 DEF Precedes
      <4>4. statusFindings[p] = collected[o[p]]
        BY <3>2
      <4>5. /\ statusRank[collected[i].status] \in 0..3
            /\ statusRank[collected[o[p]].status] \in 0..3
            /\ severityRank[collected[i].severity] \in 0..2
            /\ severityRank[collected[o[p]].severity] \in 0..2
            /\ Rank(collected[i]) =
                  statusRank[collected[i].status] * 10 + severityRank[collected[i].severity]
            /\ Rank(collected[o[p]]) =
                  statusRank[collected[o[p]].status] * 10 + severityRank[collected[o[p]].severity]
        BY <2>1, <4>1, RankOf
      <4>6. statusRank[collected[i].status] < statusRank[collected[o[p]].status]
        BY <1>1, <4>4
      <4> QED
        BY <4>3, <4>5, <4>6
    <3> QED
      BY <3>4, <3>5
  <2> QED
    BY <2>2, <2>3
<1>2. IInv => CapKeepsTheWorst
  BY <1>1 DEF CapKeepsTheWorst
<1> QED
  BY <1>2, Invariance, PTL

\* If anything failed and the findings are capped, the first one is a failure.
LEMMA FirstIsFailure ==
    ASSUME IInv, pc \in {"count", "events", "done"}, Len(collected) > MaxStatusFindings,
           NEW i \in DOMAIN collected, collected[i].status = "Failed"
    PROVE  /\ 1 \in DOMAIN allFindings /\ allFindings[1].status = "Failed"
           /\ 1 \in DOMAIN statusFindings /\ statusFindings[1].status = "Failed"
<1>1. /\ TypeOK /\ Len(collected) \in Nat /\ DOMAIN collected = 1..Len(collected)
      /\ DOMAIN allFindings = 1..Len(collected)
      /\ MaxStatusFindings \in Nat \ {0}
      /\ \A r \in DOMAIN collected : collected[r] \in Finding
  BY Lists DEF IInv
<1>2. PICK o \in [DOMAIN collected -> DOMAIN collected] :
         /\ Arranges(o) /\ Sorted(o)
         /\ DOMAIN statusFindings = 1..MaxStatusFindings
         /\ \A p \in 1..MaxStatusFindings :
               /\ p \in DOMAIN collected
               /\ statusFindings[p] = allFindings[p]
               /\ statusFindings[p] = collected[o[p]]
  BY Capped
<1>3. /\ 1 \in 1..MaxStatusFindings /\ 1 \in DOMAIN collected
      /\ o[1] \in DOMAIN collected
  BY <1>1, <1>2
<1>4. PICK j \in DOMAIN collected : o[j] = i
  BY <1>2, Arrangement
<1>5. Rank(collected[o[1]]) <= Rank(collected[i])
  <2>1. Rank(collected[o[1]]) \in Nat /\ Rank(collected[i]) \in Nat
    BY <1>1, <1>3, RankOf
  <2>2. CASE j = 1
    BY <1>4, <2>1, <2>2
  <2>3. CASE j # 1
    <3>1. 1 < j
      BY <1>1, <2>3
    <3>2. Precedes(o[1], i)
      BY <1>2, <1>3, <1>4, <3>1 DEF Sorted
    <3> QED
      BY <2>1, <3>2 DEF Precedes
  <2> QED
    BY <2>2, <2>3
<1>6. statusRank[collected[i].status] = 0
  BY <1>1, RankOf
<1>7. statusRank[collected[o[1]].status] = 0
  <2>1. /\ severityRank[collected[i].severity] \in 0..2
        /\ severityRank[collected[o[1]].severity] \in 0..2
        /\ statusRank[collected[o[1]].status] \in 0..3
        /\ Rank(collected[i]) =
              statusRank[collected[i].status] * 10 + severityRank[collected[i].severity]
        /\ Rank(collected[o[1]]) =
              statusRank[collected[o[1]].status] * 10 + severityRank[collected[o[1]].severity]
    <3>1. collected[i] \in Finding /\ collected[o[1]] \in Finding
      BY <1>1, <1>3
    <3> QED
      BY <3>1, RankOf
  <2> DEFINE a == statusRank[collected[o[1]].status]
             b == severityRank[collected[o[1]].severity]
             c == severityRank[collected[i].severity]
  <2>2. a \in 0..3 /\ b \in 0..2 /\ c \in 0..2 /\ a * 10 + b <= 0 * 10 + c
    BY <1>5, <1>6, <2>1
  <2> HIDE DEF a, b, c
  <2>3. a = 0
    BY <2>2
  <2> QED
    BY <2>3 DEF a
<1>8. collected[o[1]].status = "Failed"
  BY <1>1, <1>3, <1>7, RankOf
<1> QED
  BY <1>1, <1>2, <1>3, <1>8

\* Resources are counted as failed only if a finding says so.
LEMMA CountOfFailed ==
    ASSUME TypeOK, CountOf("Failed") > 0
    PROVE  \E p \in DOMAIN allFindings : allFindings[p].status = "Failed"
<1> DEFINE S == {p \in DOMAIN allFindings :
                    FirstOfResource(p) /\ allFindings[p].status = "Failed"}
<1>1. CountOf("Failed") = Cardinality(S)
  BY DEF CountOf
<1>2. S # {}
  <2>1. Cardinality({}) = 0
    BY FS_EmptySet
  <2> QED
    BY <1>1, <2>1
<1> QED
  BY <1>2

\* A policy is Degraded only with a failed resource to show for it
\* (srepolicy_controller.go:226-257).
THEOREM DegradedIsShown == Spec => []DegradedHasEvidence
<1>1. ASSUME IInv, pc = "done", phase = "Degraded"
      PROVE  \E p \in DOMAIN statusFindings : statusFindings[p].status = "Failed"
  <2>1. TypeOK /\ Len(collected) \in Nat /\ MaxStatusFindings \in Nat
        /\ DOMAIN allFindings = DOMAIN collected
    BY <1>1, Lists DEF IInv
  <2>2. CountOf("Failed") > 0
    BY <1>1 DEF IInv, PhaseFollows
  <2>3. PICK p \in DOMAIN allFindings : allFindings[p].status = "Failed"
    BY <2>1, <2>2, CountOfFailed
  <2>4. CASE Len(collected) <= MaxStatusFindings
    <3>1. statusFindings = allFindings
      BY <1>1, <2>4 DEF IInv, StatusHolds
    <3> QED
      BY <2>3, <3>1
  <2>5. CASE ~(Len(collected) <= MaxStatusFindings)
    <3>1. Len(collected) > MaxStatusFindings
      BY <2>1, <2>5
    <3>2. PICK o \in [DOMAIN collected -> DOMAIN collected] : Arranges(o)
      BY <1>1, <2>5 DEF IInv, SortHolds
    <3>3. o[p] \in DOMAIN collected /\ collected[o[p]].status = "Failed"
      BY <2>1, <2>3, <3>2, Arrangement
    <3> QED
      BY <1>1, <3>1, <3>3, FirstIsFailure
  <2> QED
    BY <2>4, <2>5
<1>2. IInv => DegradedHasEvidence
  BY <1>1 DEF DegradedHasEvidence
<1> QED
  BY <1>2, Invariance, PTL

\* When the findings are capped no failure is hidden behind a milder finding about
\* the same resource (srepolicy_controller.go:226-257, 719-736).
THEOREM FailureIsShown == Spec => []CappedFailureShows
<1>1. ASSUME IInv, pc = "done", Len(collected) > MaxStatusFindings,
             NEW i \in DOMAIN collected, collected[i].status = "Failed"
      PROVE  phase = "Degraded"
  <2>1. TypeOK
    BY <1>1 DEF IInv
  <2>2. 1 \in DOMAIN allFindings /\ allFindings[1].status = "Failed"
    BY <1>1, FirstIsFailure
  <2> DEFINE S == {p \in DOMAIN allFindings :
                      FirstOfResource(p) /\ allFindings[p].status = "Failed"}
  <2>3. 1 \in S
    BY <2>2 DEF FirstOfResource
  <2>4. IsFiniteSet(S) /\ Cardinality(S) \in Nat
    BY <2>1, Positions
  <2>5. CountOf("Failed") = Cardinality(S)
    BY DEF CountOf
  <2> HIDE DEF S
  <2>6. CountOf("Failed") > 0
    <3>1. Cardinality(S) # 0
      BY <2>3, <2>4, FS_EmptySet
    <3> QED
      BY <2>4, <2>5, <3>1
  <2> QED
    BY <1>1, <2>6 DEF IInv, PhaseFollows
<1>2. IInv => CappedFailureShows
  BY <1>1 DEF CappedFailureShows
<1> QED
  BY <1>2, Invariance, PTL
=============================================================================
