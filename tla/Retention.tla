------------------------------- MODULE Retention -------------------------------
(***************************************************************************)
(* Log summaries as ConfigMaps: runLogCollection creates one per check     *)
(* cycle, and rotateConfigMaps (srepolicy_controller.go) deletes the       *)
(* oldest so that MaxConfigMapCopies remain.                               *)
(*                                                                         *)
(* The rotation lists the ConfigMaps in the operator's informer cache,     *)
(* which lags behind the API server, and orders them by creationTimestamp, *)
(* which has a resolution of one second; sort.Slice leaves equal ones in   *)
(* any order.  All policies of a namespace share one label and therefore   *)
(* one set of copies; their cycles, one after the other by the operator's  *)
(* single worker, are the cycles here.                                     *)
(***************************************************************************)
EXTENDS Integers, Sequences, FiniteSets

CONSTANTS
    MaxCopies,    \* retention.maxConfigMapCopies
    MaxCreated,   \* bound on the copies created
    MaxLag,       \* bound on undelivered watch events when a copy is created
    MaxFaults,    \* bound on failed calls and crashes
    Gaps          \* what `gap' may be

ASSUME RetentionAssumption ==
    /\ MaxCopies \in Nat \ {0}
    /\ MaxCreated \in Nat
    /\ MaxLag \in Nat
    /\ MaxFaults \in Nat
    /\ Gaps \subseteq Nat

VARIABLES
    gap,        \* least number of seconds between two copies
    copies,     \* the ConfigMaps the API server has
    watch,      \* their versions since the informer last caught up
    cache,      \* the ConfigMaps in the informer cache
    now,        \* the API server's clock, in seconds
    stamps,     \* the creationTimestamp of every copy so far, by its number
    pc,         \* "idle", "rotate" before the list, "delete" in the loop
    doomed,     \* what the loop has still to delete
    clean,      \* whether every call of the last rotation succeeded so far
    faults      \* faults so far

vars == <<gap, copies, watch, cache, now, stamps, pc, doomed, clean, faults>>

Copy == [number: 1..MaxCreated, stamp: Nat]

Init ==
    /\ gap \in Gaps
    /\ copies = {}
    /\ watch = <<>>
    /\ cache = {}
    /\ now = 0
    /\ stamps = <<>>
    /\ pc = "idle"
    /\ doomed = {}
    /\ clean = TRUE
    /\ faults = 0

created == Len(stamps)
latest == IF stamps = <<>> THEN 0 ELSE stamps[created]

Fault ==
    /\ faults < MaxFaults
    /\ faults' = faults + 1

-----------------------------------------------------------------------------
(* The API server and the informer.                                        *)

Store(set) ==
    /\ copies' = set
    /\ watch' = Append(watch, set)

DeliverEvent ==
    /\ watch # <<>>
    /\ cache' = Head(watch)
    /\ watch' = Tail(watch)
    /\ UNCHANGED <<gap, copies, now, stamps, pc, doomed, clean, faults>>

\* No more seconds than copies to put in them are of interest.
Tick ==
    /\ now < MaxCreated
    /\ now <= latest
    /\ now' = now + 1
    /\ UNCHANGED <<gap, copies, watch, cache, stamps, pc, doomed, clean, faults>>

-----------------------------------------------------------------------------
(* The operator.                                                           *)

\* runLogCollection creates the next copy; a rotation follows.
Persist ==
    /\ pc = "idle"
    /\ created < MaxCreated
    /\ Len(watch) <= MaxLag
    /\ created > 0 => now >= latest + gap
    /\ stamps' = Append(stamps, now)
    /\ Store(copies \cup {[number |-> created + 1, stamp |-> now]})
    /\ pc' = "rotate"
    /\ clean' = FALSE
    /\ UNCHANGED <<gap, cache, now, doomed, faults>>

\* rotateConfigMaps lists the copies, and is done if that fails.
ListFails ==
    /\ pc = "rotate"
    /\ Fault
    /\ pc' = "idle"
    /\ UNCHANGED <<gap, copies, watch, cache, now, stamps, doomed, clean>>

\* Mutant: newest first.
FirstOfReversed(n) ==
    {s \in SUBSET cache :
        /\ Cardinality(s) = n
        /\ \A d \in s, k \in cache \ s : d.stamp >= k.stamp}

\* Mutant: only ever the oldest one.
FirstOfSingle(n) ==
    {s \in SUBSET cache :
        /\ Cardinality(s) = 1
        /\ \A d \in s, k \in cache \ s : d.stamp <= k.stamp}

\* What the first n of the sorted list may be.
FirstOf(n) ==
    {s \in SUBSET cache :
        /\ Cardinality(s) = n
        /\ \A d \in s, k \in cache \ s : d.stamp <= k.stamp}

\* Too few copies to delete any.
KeepAll ==
    /\ pc = "rotate"
    /\ Cardinality(cache) <= MaxCopies
    /\ pc' = "idle"
    /\ clean' = TRUE
    /\ UNCHANGED <<gap, copies, watch, cache, now, stamps, doomed, faults>>

StartDeleting ==
    /\ pc = "rotate"
    /\ Cardinality(cache) > MaxCopies
    /\ doomed' \in FirstOf(Cardinality(cache) - MaxCopies)
    /\ pc' = "delete"
    /\ clean' = TRUE
    /\ UNCHANGED <<gap, copies, watch, cache, now, stamps, faults>>

\* The loop deletes the next copy, oldest first.  One that is gone already is
\* an error that is logged, like every other.
DeleteNext ==
    /\ pc = "delete"
    /\ \E d \in doomed :
          /\ \A e \in doomed : d.stamp <= e.stamp
          /\ doomed' = doomed \ {d}
          /\ \/ /\ IF d \in copies THEN Store(copies \ {d})
                   ELSE UNCHANGED <<copies, watch>>
                /\ UNCHANGED <<clean, faults>>
             \/ /\ Fault
                /\ clean' = FALSE
                /\ UNCHANGED <<copies, watch>>
    /\ UNCHANGED <<gap, cache, now, stamps, pc>>

Finish ==
    /\ pc = "delete"
    /\ doomed = {}
    /\ pc' = "idle"
    /\ UNCHANGED <<gap, copies, watch, cache, now, stamps, doomed, clean, faults>>

\* The operator dies and is restarted, its informer synchronised.
Restart ==
    /\ Fault
    /\ pc' = "idle"
    /\ doomed' = {}
    /\ cache' = copies
    /\ watch' = <<>>
    /\ clean' = FALSE
    /\ UNCHANGED <<gap, copies, now, stamps>>

Next ==
    \/ DeliverEvent \/ Tick
    \/ Persist \/ ListFails \/ KeepAll \/ StartDeleting \/ DeleteNext \/ Finish
    \/ Restart

Spec == Init /\ [][Next]_vars

-----------------------------------------------------------------------------
(* Properties.                                                             *)

\* Every variable stays in its type.
TypeOK ==
    /\ gap \in Gaps
    /\ copies \in SUBSET Copy
    /\ watch \in Seq(SUBSET Copy)
    /\ cache \in SUBSET Copy
    /\ now \in 0..MaxCreated
    /\ stamps \in Seq(0..now) /\ created <= MaxCreated
    /\ pc \in {"idle", "rotate", "delete"}
    /\ doomed \in SUBSET Copy /\ (doomed # {} => pc = "delete")
    /\ clean \in BOOLEAN
    /\ faults \in 0..MaxFaults

Gone == {n \in 1..created : \A c \in copies : c.number # n}

\* The other copies, there or gone, that are no older by their creationTimestamp.
Newer(n) == {m \in 1..created \ {n} : stamps[m] >= stamps[n]}

MadeRoom(n) == Cardinality(Newer(n)) >= MaxCopies

\* A copy that is gone made room: there have been MaxCopies others that are no
\* older by their creationTimestamp, however far the cache lags behind, whatever
\* the rotation tries to delete a second time and wherever it is cut off.
GoneMadeRoom == \A n \in Gone : MadeRoom(n)

\* A rotation without a failed call makes up for all that went wrong before:
\* it leaves no more copies than retention allows, but for those the cache had
\* not heard of when they were listed.
CopiesBounded ==
    pc = "idle" /\ clean =>
        Cardinality(copies) <= MaxCopies + MaxLag + 1

\* The last MaxCopies copies are there, if no two copies are created within a
\* second of each other.
LastCopiesKept ==
    gap > 0 => \A n \in Gone : created - n >= MaxCopies

\* The rotation deletes the "oldest first" (the comment on its sort), so the
\* last MaxCopies copies are there.  Not so for copies of one second: the sort
\* leaves them in any order.
OldestFirst == \A n \in Gone : created - n >= MaxCopies

-----------------------------------------------------------------------------
(* The inductive invariant behind them.                                   *)

\* Whoever knows of a copy knows when it was created.
OnRecord(set) ==
    \A c \in set : c.number \in 1..created /\ c.stamp = stamps[c.number]

CopiesOnRecord ==
    /\ OnRecord(copies) /\ OnRecord(cache) /\ OnRecord(doomed)
    /\ \A v \in DOMAIN watch : OnRecord(watch[v])

\* What is about to be deleted made room when it was listed.
DoomedMadeRoom == \A d \in doomed : MadeRoom(d.number)

Spaced ==
    gap > 0 => \A m, n \in 1..created : m < n => stamps[m] < stamps[n]

\* A version misses at most one copy for each event behind it.
VersionsLag ==
    /\ Cardinality(copies \ cache) <= Len(watch)
    /\ \A v \in DOMAIN watch : Cardinality(copies \ watch[v]) <= Len(watch) - v

\* The list is called for right after a copy was created.
ListedSoon == pc = "rotate" => ~clean /\ Len(watch) <= MaxLag + 1

\* A rotation that has not failed so far is to leave few enough.
FewAreSpared ==
    pc = "delete" /\ clean =>
        Cardinality(copies \ doomed) <= MaxCopies + MaxLag + 1

IInv ==
    /\ TypeOK
    /\ CopiesOnRecord
    /\ DoomedMadeRoom
    /\ GoneMadeRoom
    /\ Spaced
    /\ VersionsLag
    /\ ListedSoon
    /\ FewAreSpared
    /\ CopiesBounded

=============================================================================
