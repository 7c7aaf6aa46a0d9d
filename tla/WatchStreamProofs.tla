------------------------- MODULE WatchStreamProofs -------------------------
(***************************************************************************)
(* Proofs about WatchStream, for any keys, subscriptions and capacities:   *)
(* a subscriber sees the history from its snapshot on, in order, and a     *)
(* batch that the event channel had no room for never becomes a hole.      *)
(***************************************************************************)
EXTENDS WatchStreamLemmas, FiniteSetTheorems

-----------------------------------------------------------------------------
(***************************************************************************)
(* Finite sets: a batch can be put in order.                               *)
(***************************************************************************)
\* The events of a batch, put in some order: each of them once.
LEMMA SeqOfSet ==
    ASSUME NEW S, IsFiniteSet(S)
    PROVE  IsOrderOf(InSomeOrder(S), S)
<1> DEFINE n == Cardinality(S)
           q == InSomeOrder(S)
<1>1. n \in Nat /\ ExistsBijection(1 .. n, S)
    BY FS_CardinalityType
<1>2. \E f \in [1 .. n -> S] : IsInjective(f)
    BY <1>1 DEF ExistsBijection, Bijection, Injection
<1>3. q \in [1 .. n -> S] /\ IsInjective(q)
    BY <1>2 DEF InSomeOrder
<1>4. IsFiniteSet(1 .. n) /\ Cardinality(1 .. n) = n
    BY <1>1, FS_Interval
<1>5. q \in Injection(1 .. n, S)
    BY <1>3 DEF Injection
<1>6. q \in Surjection(1 .. n, S)
    BY <1>4, <1>5, FS_Injection
<1>7. Range(q) = S
    BY <1>3, <1>6 DEF Surjection, Range
<1>8. q \in Seq(S)
    BY <1>1, <1>3
<1> QED
    BY <1>3, <1>7, <1>8, Zenon DEF IsOrderOf

\* A batch is finite.
LEMMA BatchIsFinite ==
    ASSUME NEW s, NEW wr \in Entries, NEW c \in 1 .. Len(wr)
    PROVE  IsFiniteSet(Batch(s, wr, c))
<1>1. wr[c] \subseteq Keys /\ IsFiniteSet(Keys)
    BY SeqIs, WatchAssumption DEF Entries
<1> DEFINE T == {[index |-> c, key |-> k] : k \in Keys}
           f == [k \in Keys |-> [index |-> c, key |-> k]]
<1>2. f \in Surjection(Keys, T)
    BY DEF Surjection
<1>3. IsFiniteSet(T)
    BY <1>1, <1>2, FS_Surjection
<1>4. Batch(s, wr, c) \subseteq T
    BY <1>1 DEF Batch
<1> QED
    BY <1>3, <1>4, FS_Subset

\* Every step keeps the invariant.
LEMMA NextIInv == IInv /\ [Next]_vars => IInv'
<1> SUFFICES ASSUME IInv, [Next]_vars PROVE IInv'
    OBVIOUS
<1>1. CASE Apply \/ Restore
    BY <1>1, ApplyKeeps, RestoreKeeps, Zenon
<1>2. CASE SendEvents \/ fetch_min
    BY <1>2, SendEventsKeeps, FetchMinKeeps, Zenon
<1>3. CASE Dispatch \/ Drained
    <2>1. wrote \in Entries
        BY Types DEF IInv
    <2>2. \A s, c : c \in 1 .. Len(wrote) =>
              IsOrderOf(InSomeOrder(Batch(s, wrote, c)), Batch(s, wrote, c))
        BY ONLY <2>1, BatchIsFinite, SeqOfSet, Zenon
    <2> QED
        BY <1>3, <2>2, DispatchKeeps, DrainedKeeps, Zenon
<1>4. CASE \E w \in Watchers : \/ \E r \in Ranges : Watch(w, r)
                               \/ Receive(w) \/ Close(w)
    BY <1>4, WatchKeeps, ReceiveKeeps, CloseKeeps, Zenon
<1>5. CASE UNCHANGED vars
    <2>1. PipeType' /\ (subs \in [Watchers -> Subscription])'
        BY <1>5, IInvParts DEF PipeType, applied, NoDrop, vars
    <2>2. InLine(wrote', unsent', refused', channel') /\ \A w \in Watchers : SubInv(w)'
        BY <1>5, IInvParts, Zenon DEF SubInv, applied, vars
    <2> QED
        BY <2>1, <2>2, NextParts, Zenon
<1> QED
    BY <1>1, <1>2, <1>3, <1>4, <1>5 DEF Next

-----------------------------------------------------------------------------
\* The invariant holds at any time.
LEMMA Invariant == Spec => []IInv
BY InitIInv, NextIInv, PTL DEF Spec

\* The event channel and every watcher's queue stay within their capacities,
\* and the watermark names an applied index or none, at any time.
THEOREM TypeCorrect == Spec => []TypeOK
<1>1. IInv => TypeOK
    BY DEF IInv
<1> QED
    BY <1>1, Invariant, PTL

\* Whatever the capacities, the apply task, the actor and the consumers do, a
\* subscriber's events come in order and once, with none missing before the
\* last one it has, and one missing after it is on its way or its registration
\* is ended by the next batch (dispatch_watch_events, watch_backlog_dropped).
THEOREM WatchComplete == Spec => []WatchIsComplete
BY Invariant, IInvIsComplete, PTL

=============================================================================
