----------------------- MODULE SnapshotTransferProofs -----------------------
(***************************************************************************)
(* Proofs about SnapshotTransfer, for any number of indexes, pieces, terms *)
(* and attempts: raft is handed whole snapshots only, a transfer that the  *)
(* actor waits for is carried out, its temporary file goes with it, and    *)
(* the leader has the file it offers.                                      *)
(***************************************************************************)
EXTENDS SnapshotTransfer, FiniteSetTheorems, TLAPS

(***************************************************************************)
(* The inductive invariant.                                                *)
(***************************************************************************)
Nodes == {L, F}
Indexes == 1 .. MaxIndex
Message == [index : Indexes, term : Nat]
Task == [term : Nat, index : Indexes, attempt : Nat, ino : Nat, pos : Nat]
Result == [index : Indexes, ok : BOOLEAN]
Waiting == [st : {"none", "asked", "answered"}, index : Nat]

LocalType ==
    /\ sm \in [Nodes -> 0 .. MaxIndex] /\ snap \in [Nodes -> 0 .. MaxIndex]
    /\ files \subseteq Nat
    /\ wait \in [Nodes -> Waiting] /\ \A n \in Nodes : wait[n].index <= MaxIndex

PeerType == matched \in 0 .. MaxIndex /\ term \in Nat /\ offers \subseteq Message

TransferType ==
    /\ fetch = NoFetch \/ fetch \in Message
    /\ tasks \subseteq Task /\ path \in [Indexes -> Nat]
    /\ content \in Seq(SUBSET Nat) /\ done \in Seq(Result)

\* A task for index i runs, or its result is on the way to the actor.
Carried(i) == (\E t \in tasks : t.index = i) \/ (\E k \in DOMAIN done : done[k].index = i)

\* The file that storage names is there, and it is the newest.
Served == NewestIsServed /\ \A i \in files : i <= snap[L]

\* The actor waits for what is carried out, and so is what a file is kept for.
Attended ==
    /\ fetch # NoFetch => Carried(fetch.index)
    /\ \A i \in Indexes : path[i] # 0 => Carried(i)

IInv == LocalType /\ PeerType /\ TransferType /\ Served /\ Attended /\ SteppedIsWhole

-----------------------------------------------------------------------------
(***************************************************************************)
(* Steps of one side only.                                                 *)
(***************************************************************************)
\* Transfers and their files depend on what the transfers do.
LEMMA TransferStays ==
    ASSUME IInv, UNCHANGED transfer
    PROVE  TransferType' /\ Attended' /\ SteppedIsWhole'
<1>1. UNCHANGED <<fetch, tasks, path, content, done, stepped>>
    BY DEF transfer
<1>2. TransferType /\ Attended /\ SteppedIsWhole
    BY DEF IInv
<1>3. TransferType' /\ SteppedIsWhole'
    BY ONLY <1>1, <1>2 DEF TransferType, SteppedIsWhole
<1> QED
    BY ONLY <1>1, <1>2, <1>3, Zenon DEF Attended, Carried

\* A step that takes a snapshot or applies an entry.
LEMMA LocalStep ==
    ASSUME IInv, LocalType', Served', UNCHANGED <<peer, transfer>>
    PROVE  IInv'
<1>1. PeerType'
    BY DEF IInv, PeerType, peer
<1>2. TransferType' /\ Attended' /\ SteppedIsWhole'
    BY TransferStays
<1> QED
    BY <1>1, <1>2 DEF IInv

\* A step of raft on the leader.
LEMMA PeerStep ==
    ASSUME IInv, PeerType', UNCHANGED <<local, transfer>>
    PROVE  IInv'
<1>1. LocalType' /\ Served'
    BY DEF IInv, LocalType, Served, NewestIsServed, local
<1>2. TransferType' /\ Attended' /\ SteppedIsWhole'
    BY TransferStays
<1> QED
    BY <1>1, <1>2 DEF IInv

\* A step of a fetch task, or of the actor that starts one.
LEMMA TransferStep ==
    ASSUME IInv, TransferType', Attended', SteppedIsWhole', PeerType', UNCHANGED local
    PROVE  IInv'
<1>1. LocalType' /\ Served'
    BY DEF IInv, LocalType, Served, NewestIsServed, local
<1> QED
    BY <1>1 DEF IInv

-----------------------------------------------------------------------------
(***************************************************************************)
(* Taking snapshots and applying entries.                                  *)
(***************************************************************************)
\* The request and the answer of the apply task.
LEMMA AskKeeps ==
    ASSUME MaxIndex \in Nat, IInv, NEW n \in Nodes, maybe_snapshot(n) \/ Serialise(n)
    PROVE  IInv'
<1>1. UNCHANGED <<sm, snap, files>> /\ UNCHANGED <<peer, transfer>>
    BY DEF maybe_snapshot, Serialise
<1>2. LocalType /\ Served
    BY DEF IInv
<1>3. PICK w \in Waiting : wait' = [wait EXCEPT ![n] = w] /\ w.index <= MaxIndex
    <2>1. CASE maybe_snapshot(n)
        <3>1. PICK old \in Waiting : old = wait[n] /\ old.index <= MaxIndex
            BY <1>2 DEF LocalType
        <3>2. PICK w : w = [old EXCEPT !.st = "asked"]
            BY Zenon
        <3>3. wait' = [wait EXCEPT ![n] = w]
            BY <2>1, <3>1, <3>2, Zenon DEF maybe_snapshot
        <3>4. w \in Waiting /\ w.index = old.index
            BY <3>2 DEF Waiting
        <3> QED
            BY <3>1, <3>3, <3>4, Zenon
    <2>2. CASE Serialise(n)
        <3>1. sm[n] \in Nat /\ sm[n] <= MaxIndex
            BY <1>2 DEF LocalType
        <3>2. PICK w : w = [st |-> "answered", index |-> sm[n]]
            BY Zenon
        <3>3. wait' = [wait EXCEPT ![n] = w]
            BY <2>2, <3>2, Zenon DEF Serialise
        <3>4. w \in Waiting /\ w.index = sm[n]
            BY <3>1, <3>2 DEF Waiting
        <3> QED
            BY <3>1, <3>3, <3>4, Zenon
    <2> QED
        BY <2>1, <2>2
<1>4. LocalType'
    BY <1>1, <1>2, <1>3 DEF LocalType
<1>5. Served'
    BY <1>1, <1>2 DEF Served, NewestIsServed
<1> QED
    BY <1>1, <1>4, <1>5, LocalStep

\* The empty set has no elements.
LEMMA EmptyCardinality == Cardinality({}) = 0
BY FS_EmptySet

\* The newest file is none of those that are pruned.
LEMMA NewestStays ==
    ASSUME NEW all \in SUBSET Nat, NEW i \in all, \A j \in all : j <= i
    PROVE  i \in prune_snapshots(all) /\ prune_snapshots(all) \subseteq all
<1>1. {j \in all : j > i} = {}
    <2> SUFFICES ASSUME NEW j \in all, j > i PROVE FALSE
        BY Zenon
    <2>1. i \in Nat /\ j \in Nat /\ j <= i
        BY Zenon
    <2> QED
        BY <2>1
<1>2. Cardinality({j \in all : j > i}) < 2
    BY <1>1, EmptyCardinality
<1> QED
    BY <1>2 DEF prune_snapshots

\* The answer is saved, and the files that are not among the newest two go.
LEMMA PollKeeps ==
    ASSUME MaxIndex \in Nat, IInv, NEW n \in Nodes, poll_snapshot(n)
    PROVE  IInv'
<1>1. UNCHANGED sm /\ UNCHANGED <<peer, transfer>> /\ wait' = [wait EXCEPT ![n] = NoWait]
    BY DEF poll_snapshot
<1>2. LocalType /\ Served
    BY DEF IInv
<1>3. wait' \in [Nodes -> Waiting] /\ \A m \in Nodes : wait'[m].index <= MaxIndex
    <2>1. NoWait \in Waiting /\ NoWait.index <= MaxIndex
        BY DEF NoWait, Waiting
    <2> QED
        BY <1>1, <1>2, <2>1 DEF LocalType
<1>4. CASE wait[n].index < snap[n]
    <2>1. UNCHANGED <<snap, files>>
        BY <1>4 DEF poll_snapshot
    <2> QED
        BY <1>1, <1>2, <1>3, <2>1, LocalStep DEF LocalType, Served, NewestIsServed
<1>5. CASE ~(wait[n].index < snap[n])
    <2>1. PICK i \in 0 .. MaxIndex : i = wait[n].index /\ snap[n] <= i
        BY <1>2, <1>5 DEF LocalType, Waiting
    <2>2. /\ snap' = [snap EXCEPT ![n] = i]
          /\ files' = IF n = L THEN prune_snapshots(files \cup {i}) ELSE files
        BY <1>5, <2>1 DEF poll_snapshot
    <2>3. snap \in [Nodes -> 0 .. MaxIndex] /\ files \in SUBSET Nat /\ \A j \in files : j <= snap[L]
        BY <1>2 DEF LocalType, Served
    <2>4. snap' \in [Nodes -> 0 .. MaxIndex] /\ snap'[n] = i
        BY <2>2, <2>3
    <2>5. CASE n = L
        <3>1. \A j \in files \cup {i} : j <= i
            <4>1. PICK s \in 0 .. MaxIndex : s = snap[L] /\ s <= i
                BY <2>1, <2>3, <2>5, Zenon
            <4>2. files \subseteq Nat /\ (\A j \in files : j <= s) /\ i \in Nat
                BY <2>3, <4>1
            <4> QED
                BY ONLY <4>1, <4>2, MaxIndex \in Nat
        <3>2. i \in files' /\ files' \subseteq files \cup {i}
            BY <2>2, <2>3, <2>5, <3>1, NewestStays
        <3>3. Served'
            BY <2>4, <2>5, <3>1, <3>2 DEF Served, NewestIsServed
        <3>4. LocalType'
            BY <1>1, <1>2, <1>3, <2>3, <2>4, <3>2 DEF LocalType
        <3> QED
            BY <1>1, <3>3, <3>4, LocalStep
    <2>6. CASE n # L
        <3>1. files' = files /\ snap'[L] = snap[L]
            BY <2>2, <2>3, <2>6 DEF Nodes
        <3>2. Served'
            BY <1>2, <3>1 DEF Served, NewestIsServed
        <3>3. LocalType'
            BY <1>1, <1>2, <1>3, <2>4, <3>1 DEF LocalType
        <3> QED
            BY <1>1, <3>2, <3>3, LocalStep
    <2> QED
        BY <2>5, <2>6
<1> QED
    BY <1>4, <1>5

\* An entry, or an installed snapshot, is applied.
LEMMA ApplyKeeps ==
    ASSUME MaxIndex \in Nat, IInv, NEW n \in Nodes, Apply(n)
    PROVE  IInv'
<1>1. UNCHANGED <<snap, files, wait>> /\ UNCHANGED <<peer, transfer>>
    BY DEF Apply
<1>2. LocalType /\ Served /\ matched \in 0 .. MaxIndex
    BY DEF IInv, PeerType
<1>3. sm' \in [Nodes -> 0 .. MaxIndex]
    <2>1. sm \in [Nodes -> 0 .. MaxIndex] /\ snap[F] \in 0 .. MaxIndex
        BY <1>2 DEF LocalType, Nodes
    <2>2. CASE n = F /\ sm[F] < snap[F]
        BY <2>1, <2>2 DEF Apply
    <2>3. CASE ~(n = F /\ sm[F] < snap[F])
        <3>1. sm' = [sm EXCEPT ![n] = sm[n] + 1] /\ sm[n] < IF n = L THEN MaxIndex ELSE matched
            BY <2>3 DEF Apply
        <3> QED
            BY <1>2, <2>1, <3>1
    <2> QED
        BY <2>2, <2>3
<1>4. LocalType' /\ Served'
    BY <1>1, <1>2, <1>3 DEF LocalType, Served, NewestIsServed
<1> QED
    BY <1>1, <1>4, LocalStep

\* Raft on the leader, and the way to the follower.
LEMMA RaftKeeps ==
    ASSUME MaxIndex \in Nat, IInv, Replicate \/ Offer \/ LoseOffer \/ Reelected
    PROVE  IInv'
<1>1. UNCHANGED <<local, transfer>>
    BY DEF Replicate, Offer, LoseOffer, Reelected
<1>2. PeerType /\ snap[L] \in 0 .. MaxIndex /\ sm[L] \in 0 .. MaxIndex
    BY DEF IInv, LocalType, Nodes
<1>3. CASE Replicate
    BY <1>1, <1>2, <1>3, PeerStep DEF Replicate, PeerType
<1>4. CASE Offer
    <2>1. PICK m : m = [index |-> snap[L], term |-> term]
        BY Zenon
    <2>2. matched < snap[L] /\ UNCHANGED <<matched, term>> /\ offers' = offers \cup {m}
        BY <1>4, <2>1 DEF Offer
    <2>3. snap[L] \in Indexes
        BY <1>2, <2>2 DEF PeerType, Indexes
    <2>4. m \in Message
        BY <1>2, <2>1, <2>3 DEF PeerType, Message
    <2> QED
        BY <1>1, <1>2, <2>2, <2>4, PeerStep DEF PeerType
<1>5. CASE LoseOffer
    <2>1. UNCHANGED <<matched, term>> /\ offers' \subseteq offers
        BY <1>5 DEF LoseOffer
    <2> QED
        BY <1>1, <1>2, <2>1, PeerStep DEF PeerType
<1>6. CASE Reelected
    BY <1>1, <1>2, <1>6, PeerStep DEF Reelected, PeerType
<1> QED
    BY <1>3, <1>4, <1>5, <1>6

-----------------------------------------------------------------------------
(***************************************************************************)
(* Transfers.                                                              *)
(***************************************************************************)
\* What is carried out stays so.
KeepsCarrying == \A i \in Indexes : Carried(i) => Carried(i)'

\* The invariant, when the actor waits for what it waited for and a file
\* appears only for a task.
LEMMA AttendedKeeps ==
    ASSUME IInv, KeepsCarrying, fetch' = fetch \/ fetch' = NoFetch,
           \A i \in Indexes : path'[i] # 0 => path[i] # 0 \/ Carried(i)'
    PROVE  Attended'
<1>1. fetch # NoFetch => fetch.index \in Indexes /\ Carried(fetch.index)
    <2>1. fetch # NoFetch => fetch \in Message /\ Carried(fetch.index)
        BY Zenon DEF IInv, TransferType, Attended
    <2> QED
        BY <2>1 DEF Message
<1>2. \A i \in Indexes : path[i] # 0 => Carried(i)
    BY Zenon DEF IInv, Attended
<1>3. (fetch # NoFetch => Carried(fetch.index))'
    <2> SUFFICES ASSUME fetch' # NoFetch PROVE Carried(fetch.index)'
        BY Zenon
    <2>1. PICK j \in Indexes : j = fetch.index /\ j = fetch'.index /\ Carried(j)
        BY <1>1, Zenon
    <2>2. Carried(j)'
        BY <2>1, Zenon DEF KeepsCarrying
    <2> QED
        BY <2>1, <2>2, Zenon DEF Carried
<1>4. \A i \in Indexes : path'[i] # 0 => Carried(i)'
    BY <1>2, Zenon DEF KeepsCarrying
<1> QED
    BY <1>3, <1>4, Zenon DEF Attended

\* A task goes on with its index.
LEMMA TaskMoves ==
    ASSUME IInv, NEW t \in tasks, NEW u \in Task, u.index = t.index,
           tasks' = (tasks \ {t}) \cup {u}, done' = done
    PROVE  KeepsCarrying /\ tasks' \subseteq Task /\ done' \in Seq(Result)
<1>1. tasks \subseteq Task /\ done \in Seq(Result)
    BY DEF IInv, TransferType
<1>2. tasks' \subseteq Task
    BY <1>1, Zenon
<1>3. ASSUME NEW i, Carried(i) PROVE Carried(i)'
    <2>1. CASE \E v \in tasks : v.index = i
        <3>1. PICK v \in tasks : v.index = i
            BY <2>1
        <3>2. \E v2 \in tasks' : v2.index = i
            BY <3>1, Zenon
        <3> QED
            BY <3>2, Zenon DEF Carried
    <2>2. CASE \E k \in DOMAIN done : done[k].index = i
        BY <2>2, Zenon DEF Carried
    <2> QED
        BY <1>3, <2>1, <2>2, Zenon DEF Carried
<1> QED
    BY <1>1, <1>2, <1>3, Zenon DEF KeepsCarrying

\* A task ends with a word to the actor.
LEMMA TaskReports ==
    ASSUME IInv, NEW t \in tasks, NEW ok \in BOOLEAN, Report(t, ok)
    PROVE  KeepsCarrying /\ tasks' \subseteq Task /\ done' \in Seq(Result)
<1>1. tasks \subseteq Task /\ done \in Seq(Result)
    BY DEF IInv, TransferType
<1>2. PICK r : r = [index |-> t.index, ok |-> ok]
    BY Zenon
<1>3. tasks' = tasks \ {t} /\ done' = Append(done, r)
    BY <1>2 DEF Report
<1>4. r \in Result /\ r.index = t.index
    BY <1>1, <1>2 DEF Task, Result
<1>5. done' \in Seq(Result) /\ tasks' \subseteq Task
    BY <1>1, <1>3, <1>4
<1>6. /\ \A k \in DOMAIN done : k \in DOMAIN done' /\ done'[k] = done[k]
      /\ \E k \in DOMAIN done' : done'[k] = r
    BY <1>1, <1>3, <1>4
<1>7. ASSUME NEW i, Carried(i) PROVE Carried(i)'
    <2>1. CASE \E v \in tasks : v.index = i
        <3>1. PICK v \in tasks : v.index = i
            BY <2>1
        <3>2. CASE v = t
            BY <1>4, <1>6, <3>1, <3>2, Zenon DEF Carried
        <3>3. CASE v # t
            BY <1>3, <3>1, <3>3, Zenon DEF Carried
        <3> QED
            BY <3>2, <3>3
    <2>2. CASE \E k \in DOMAIN done : done[k].index = i
        BY <1>6, <2>2, Zenon DEF Carried
    <2> QED
        BY <1>7, <2>1, <2>2, Zenon DEF Carried
<1> QED
    BY <1>5, <1>7, Zenon DEF KeepsCarrying

\* An attempt that fails is made again, or the task reports it.
LEMMA AttemptKeeps ==
    ASSUME IInv, NEW t \in tasks, AttemptFails(t)
    PROVE  KeepsCarrying /\ tasks' \subseteq Task /\ done' \in Seq(Result)
<1>1. t \in Task
    BY DEF IInv, TransferType
<1>2. CASE t.attempt < SNAPSHOT_FETCH_ATTEMPTS
    <2>1. PICK u : u = [t EXCEPT !.attempt = t.attempt + 1, !.ino = 0, !.pos = 0]
        BY Zenon
    <2>2. tasks' = (tasks \ {t}) \cup {u} /\ done' = done
        BY <1>2, <2>1, Zenon DEF AttemptFails
    <2>3. t.attempt + 1 \in Nat /\ 0 \in Nat
        BY <1>1 DEF Task
    <2>4. u \in Task /\ u.index = t.index
        BY ONLY <1>1, <2>1, <2>3, Zenon DEF Task
    <2> QED
        BY <2>2, <2>4, TaskMoves, Zenon
<1>3. CASE ~(t.attempt < SNAPSHOT_FETCH_ATTEMPTS)
    BY <1>3, TaskReports, Zenon DEF AttemptFails
<1> QED
    BY <1>2, <1>3

\* An entry of a sequence is replaced.
LEMMA SeqExcept ==
    ASSUME NEW S, NEW q \in Seq(S), NEW k, NEW v \in S
    PROVE  [q EXCEPT ![k] = v] \in Seq(S)
<1>1. PICK n \in Nat : q \in [1 .. n -> S]
    <2>1. Len(q) \in Nat /\ q \in [1 .. Len(q) -> S]
        OBVIOUS
    <2> QED
        BY <2>1, Zenon
<1>2. PICK p : p = [q EXCEPT ![k] = v]
    BY Zenon
<1>3. p \in [1 .. n -> S]
    BY ONLY <1>1, <1>2, v \in S, Zenon
<1>4. p \in Seq(S)
    BY ONLY <1>1, <1>3
<1> QED
    BY ONLY <1>2, <1>4, Zenon

\* The temporary file of a transfer is removed.
LEMMA UnlinkIs ==
    ASSUME TransferType, NEW i
    PROVE  /\ Unlink(i) \in [Indexes -> Nat]
           /\ \A j \in Indexes : Unlink(i)[j] = IF j = i THEN 0 ELSE path[j]
<1>1. path \in [Indexes -> Nat] /\ 0 \in Nat
    BY DEF TransferType
<1> QED
    BY ONLY <1>1, Zenon DEF Unlink

\* The actor takes an offer up, in place of the one it waits for.
LEMMA StartKeeps ==
    ASSUME IInv, NEW m \in offers, start_snapshot_fetch(m)
    PROVE  IInv'
<1>1. /\ UNCHANGED <<matched, term, content, done, stepped>> /\ UNCHANGED local
      /\ offers' = offers \ {m} /\ fetch' = m
    BY DEF start_snapshot_fetch
<1>2. PeerType /\ TransferType /\ Attended /\ SteppedIsWhole /\ m \in Message
    BY DEF IInv, PeerType
<1>3. PICK u : u = [term |-> m.term, index |-> m.index, attempt |-> 1, ino |-> 0, pos |-> 0]
    BY Zenon
<1>4. u \in Task /\ u.index = m.index /\ m.index \in Indexes
    BY <1>2, <1>3 DEF Task, Message
<1>5. tasks' = tasks \cup {u}
    BY <1>3 DEF start_snapshot_fetch
<1>6. path' \in [Indexes -> Nat] /\ \A i \in Indexes : path'[i] # 0 => path[i] # 0
    <2>1. CASE fetch = NoFetch
        BY <1>2, <2>1, Zenon DEF start_snapshot_fetch, TransferType
    <2>2. CASE fetch # NoFetch
        <3>1. path' = Unlink(fetch.index)
            BY <2>2, Zenon DEF start_snapshot_fetch
        <3> QED
            BY <1>2, <3>1, UnlinkIs, Zenon
    <2> QED
        BY <2>1, <2>2
<1>7. PeerType' /\ SteppedIsWhole'
    BY <1>1, <1>2 DEF PeerType, SteppedIsWhole
<1>8. TransferType'
    BY <1>1, <1>2, <1>4, <1>5, <1>6 DEF TransferType
<1>9. \A i : Carried(i) => Carried(i)'
    BY <1>1, <1>5, Zenon DEF Carried
<1>10. (fetch # NoFetch => Carried(fetch.index))'
    BY <1>1, <1>4, <1>5, Zenon DEF Carried
<1>11. \A i \in Indexes : path'[i] # 0 => Carried(i)'
    BY <1>2, <1>6, <1>9, Zenon DEF Attended
<1>12. Attended'
    BY <1>10, <1>11, Zenon DEF Attended
<1> QED
    BY <1>1, <1>7, <1>8, <1>12, TransferStep

\* The task asks for the file and creates its own, or its attempt fails.
LEMMA FetchKeeps ==
    ASSUME IInv, NEW t \in tasks, fetch_snapshot(t)
    PROVE  IInv'
<1>1. UNCHANGED <<local, peer, fetch, stepped>>
    BY DEF fetch_snapshot
<1>2. TransferType /\ t \in Task /\ t.index \in Indexes
    BY DEF IInv, TransferType, Task
<1>3. PeerType' /\ SteppedIsWhole'
    BY <1>1 DEF IInv, PeerType, SteppedIsWhole, peer, Complete
<1>4. CASE t.index \notin files
    <2>1. AttemptFails(t) /\ UNCHANGED <<path, content>>
        BY <1>4 DEF fetch_snapshot
    <2>2. KeepsCarrying /\ tasks' \subseteq Task /\ done' \in Seq(Result)
        BY <2>1, AttemptKeeps
    <2>3. TransferType'
        BY <1>1, <1>2, <2>1, <2>2 DEF TransferType
    <2>4. Attended'
        BY <1>1, <2>1, <2>2, AttendedKeeps
    <2> QED
        BY <1>1, <1>3, <2>3, <2>4, TransferStep
<1>5. CASE t.index \in files
    <2>1. PICK p \in Nat : p = IF path[t.index] = 0 THEN Len(content) + 1 ELSE path[t.index]
        BY <1>2 DEF TransferType
    <2>2. path' = [path EXCEPT ![t.index] = p] /\ done' = done
        BY <1>5, <2>1 DEF fetch_snapshot
    <2>3. /\ path' \in [Indexes -> Nat] /\ path'[t.index] = p
          /\ \A i \in Indexes \ {t.index} : path'[i] = path[i]
        BY <1>2, <2>2 DEF TransferType
    <2>4. PICK u : u = [t EXCEPT !.ino = p]
        BY Zenon
    <2>5. tasks' = (tasks \ {t}) \cup {u}
        BY <1>5, <2>3, <2>4 DEF fetch_snapshot
    <2>6. u \in Task /\ u.index = t.index
        BY ONLY <1>2, <2>1, <2>4, Zenon DEF Task
    <2>7. content' \in Seq(SUBSET Nat)
        <3>1. content' = Append(content, {}) \/ content' = [content EXCEPT ![path[t.index]] = {}]
            BY <1>5 DEF fetch_snapshot
        <3>2. content \in Seq(SUBSET Nat) /\ {} \in SUBSET Nat
            BY <1>2 DEF TransferType
        <3>3. Append(content, {}) \in Seq(SUBSET Nat)
            BY ONLY <3>2
        <3>4. [content EXCEPT ![path[t.index]] = {}] \in Seq(SUBSET Nat)
            <4>1. PICK k : k = path[t.index]
                BY Zenon
            <4>2. [content EXCEPT ![k] = {}] \in Seq(SUBSET Nat)
                BY ONLY <3>2, SeqExcept, Zenon
            <4> QED
                BY ONLY <4>1, <4>2, Zenon
        <3> QED
            BY ONLY <3>1, <3>3, <3>4, Zenon
    <2>8. KeepsCarrying /\ tasks' \subseteq Task /\ done' \in Seq(Result)
        BY <2>2, <2>5, <2>6, TaskMoves
    <2>9. TransferType'
        BY <1>1, <1>2, <2>3, <2>7, <2>8 DEF TransferType
    <2>10. \A i \in Indexes : path'[i] # 0 => path[i] # 0 \/ Carried(i)'
        <3>1. Carried(t.index)
            BY Zenon DEF Carried
        <3>2. PICK j \in Indexes : j = t.index /\ Carried(j)'
            <4>1. PICK j \in Indexes : j = t.index /\ Carried(j)
                BY <1>2, <3>1, Zenon
            <4> QED
                BY <2>8, <4>1, Zenon DEF KeepsCarrying
        <3> QED
            BY <2>3, <3>2, Zenon
    <2>11. Attended'
        BY <1>1, <2>8, <2>10, AttendedKeeps
    <2> QED
        BY <1>1, <1>3, <2>9, <2>11, TransferStep
<1> QED
    BY <1>4, <1>5

\* A piece arrives, the last one has arrived, or the stream breaks.
LEMMA StreamKeeps ==
    ASSUME IInv, NEW t \in tasks, stream_snapshot(t) \/ StreamBreaks(t)
    PROVE  IInv'
<1>1. UNCHANGED <<local, peer, fetch, path, stepped>>
    BY Zenon DEF stream_snapshot, StreamBreaks
<1>2. TransferType /\ t \in Task
    BY DEF IInv, TransferType
<1>3. PeerType' /\ SteppedIsWhole'
    BY <1>1 DEF IInv, PeerType, SteppedIsWhole, peer, Complete
<1>4. KeepsCarrying /\ tasks' \subseteq Task /\ done' \in Seq(Result) /\ content' \in Seq(SUBSET Nat)
    <2>1. content \in Seq(SUBSET Nat)
        BY <1>2 DEF TransferType
    <2>2. CASE stream_snapshot(t) /\ t.pos < Chunks
        <3>1. PICK pos \in Nat : pos = t.pos + 1
            BY <1>2 DEF Task
        <3>2. PICK u : u = [t EXCEPT !.pos = pos]
            BY Zenon
        <3>3. /\ tasks' = (tasks \ {t}) \cup {u} /\ done' = done
              /\ content' = [content EXCEPT ![t.ino] = content[t.ino] \cup {pos}]
            BY <2>2, <3>1, <3>2, Zenon DEF stream_snapshot
        <3>4. u \in Task /\ u.index = t.index
            BY ONLY <1>2, <3>1, <3>2, Zenon DEF Task
        <3>5. content' \in Seq(SUBSET Nat)
            <4>1. CASE t.ino \in DOMAIN content
                <5>1. content[t.ino] \cup {pos} \in SUBSET Nat
                    BY ONLY <2>1, <3>1, <4>1
                <5> QED
                    BY <2>1, <3>3, <5>1, SeqExcept, Zenon
            <4>2. CASE t.ino \notin DOMAIN content
                <5>1. content' = content
                    BY ONLY <2>1, <3>3, <4>2
                <5> QED
                    BY <2>1, <5>1, Zenon
            <4> QED
                BY <4>1, <4>2
        <3> QED
            BY <3>3, <3>4, <3>5, TaskMoves, Zenon
    <2>3. CASE stream_snapshot(t) /\ ~(t.pos < Chunks)
        <3>1. Report(t, TRUE) /\ content' = content
            BY <2>3, Zenon DEF stream_snapshot
        <3> QED
            BY <2>1, <3>1, TaskReports, Zenon
    <2>4. CASE StreamBreaks(t)
        <3>1. AttemptFails(t) /\ content' = content
            BY <2>4, Zenon DEF StreamBreaks
        <3> QED
            BY <2>1, <3>1, AttemptKeeps, Zenon
    <2> QED
        BY <2>2, <2>3, <2>4
<1>5. TransferType'
    BY <1>1, <1>2, <1>4 DEF TransferType
<1>6. Attended'
    BY <1>1, <1>4, AttendedKeeps
<1> QED
    BY <1>1, <1>3, <1>5, <1>6, TransferStep

\* The result is taken off: the others are where they were.
LEMMA ResultTaken ==
    ASSUME TransferType, done # << >>, tasks' = tasks, done' = Tail(done)
    PROVE  /\ Head(done) \in Result /\ done' \in Seq(Result)
           /\ \A i : Carried(i) /\ i # Head(done).index => Carried(i)'
<1>1. done \in Seq(Result) /\ Len(done) \in Nat /\ Len(done) >= 1 /\ DOMAIN done = 1 .. Len(done)
    BY DEF TransferType
<1>2. /\ done' \in Seq(Result) /\ Head(done) = done[1] /\ Head(done) \in Result
      /\ DOMAIN done' = 1 .. Len(done) - 1
      /\ \A k \in 1 .. Len(done) - 1 : done'[k] = done[k + 1]
    BY <1>1
<1>3. ASSUME NEW i, Carried(i), i # Head(done).index PROVE Carried(i)'
    <2>1. CASE \E t \in tasks : t.index = i
        BY <2>1, Zenon DEF Carried
    <2>2. CASE \E k \in DOMAIN done : done[k].index = i
        <3>1. PICK k \in DOMAIN done : done[k].index = i
            BY <2>2
        <3>2. k # 1
            BY <1>2, <1>3, <3>1, Zenon
        <3>3. k \in 1 .. Len(done) /\ Len(done) \in Nat
            BY <1>1, <3>1, Zenon
        <3>4. PICK j \in 1 .. Len(done) - 1 : k = j + 1
            BY ONLY <3>2, <3>3
        <3> QED
            BY <1>2, <3>1, <3>4, Zenon DEF Carried
    <2> QED
        BY <1>3, <2>1, <2>2, Zenon DEF Carried
<1> QED
    BY <1>2, <1>3, Zenon

\* What finish_snapshot_fetch leaves of the node's own files and of raft's state.
LEMMA FinishSteps ==
    ASSUME MaxIndex \in Nat, IInv, finish_snapshot_fetch
    PROVE  LocalType' /\ PeerType' /\ Served' /\ SteppedIsWhole'
<1>1. UNCHANGED <<sm, files, wait, term, offers>>
    BY Zenon DEF finish_snapshot_fetch
<1>2. LocalType /\ PeerType /\ Served /\ SteppedIsWhole /\ TransferType
    BY DEF IInv
<1>3. CASE UNCHANGED <<snap, matched, stepped>>
    BY <1>1, <1>2, <1>3 DEF LocalType, PeerType, Served, NewestIsServed, SteppedIsWhole, Complete
<1>4. CASE fetch # NoFetch /\ \E q : q = Complete /\ step_held_snapshot(fetch, q)
    <2>1. fetch \in Message /\ fetch.index \in Nat /\ fetch.index <= MaxIndex
        BY <1>2, <1>4 DEF TransferType, Message, Indexes
    <2>2. stepped' = Complete
        BY <1>4, Zenon DEF step_held_snapshot
    <2>3. SteppedIsWhole'
        BY <2>2 DEF SteppedIsWhole, Complete
    <2>4. CASE UNCHANGED <<snap, matched>>
        BY <1>1, <1>2, <2>3, <2>4 DEF LocalType, PeerType, Served, NewestIsServed
    <2>5. CASE ~ UNCHANGED <<snap, matched>>
        <3>1. /\ snap' = [snap EXCEPT ![F] = IF fetch.index > matched THEN fetch.index ELSE snap[F]]
              /\ matched' = IF fetch.index > matched THEN fetch.index ELSE matched
            BY <1>4, <2>5, Zenon DEF step_held_snapshot
        <3>2. snap \in [Nodes -> 0 .. MaxIndex] /\ matched \in 0 .. MaxIndex /\ F \in Nodes
            BY <1>2 DEF LocalType, PeerType, Nodes
        <3>3. PICK i \in 0 .. MaxIndex : snap' = [snap EXCEPT ![F] = i]
            <4>1. PICK i : i = IF fetch.index > matched THEN fetch.index ELSE snap[F]
                BY Zenon
            <4>2. i \in 0 .. MaxIndex
                BY ONLY <2>1, <3>2, <4>1, MaxIndex \in Nat
            <4> QED
                BY <3>1, <4>1, <4>2, Zenon
        <3>4. snap' \in [Nodes -> 0 .. MaxIndex] /\ snap'[L] = snap[L]
            BY <3>2, <3>3 DEF Nodes, L, F
        <3>5. matched' \in 0 .. MaxIndex
            BY ONLY <2>1, <3>1, <3>2, MaxIndex \in Nat
        <3> QED
            BY <1>1, <1>2, <2>3, <3>4, <3>5
            DEF LocalType, PeerType, Served, NewestIsServed
    <2> QED
        BY <2>4, <2>5
<1>5. \/ UNCHANGED <<snap, matched, stepped>>
      \/ fetch # NoFetch /\ \E q : q = Complete /\ step_held_snapshot(fetch, q)
    BY Zenon DEF finish_snapshot_fetch, decode_snapshot
<1> QED
    BY <1>3, <1>4, <1>5

\* The actor deals with a result: only the one it waits for counts.
LEMMA FinishKeeps ==
    ASSUME MaxIndex \in Nat, IInv, finish_snapshot_fetch
    PROVE  IInv'
<1>1. TransferType /\ Attended
    BY DEF IInv
<1>2. PICK d : d = Head(done)
    BY Zenon
<1>3. /\ done # << >> /\ tasks' = tasks /\ done' = Tail(done) /\ content' = content
      /\ path' = Unlink(d.index)
      /\ fetch' = IF fetch # NoFetch /\ fetch.index = d.index THEN NoFetch ELSE fetch
    BY <1>2, Zenon DEF finish_snapshot_fetch
<1>4. /\ done' \in Seq(Result)
      /\ \A i : Carried(i) /\ i # d.index => Carried(i)'
    BY <1>1, <1>2, <1>3, ResultTaken, Zenon
<1>5. /\ path' \in [Indexes -> Nat]
      /\ \A j \in Indexes : path'[j] = IF j = d.index THEN 0 ELSE path[j]
    BY <1>1, <1>3, UnlinkIs, Zenon
<1>6. TransferType'
    BY <1>1, <1>3, <1>4, <1>5, Zenon DEF TransferType
<1>7. \A i \in Indexes : path'[i] # 0 => Carried(i)'
    BY <1>1, <1>4, <1>5, Zenon DEF Attended
<1>8. (fetch # NoFetch => Carried(fetch.index))'
    <2>1. CASE fetch # NoFetch /\ fetch.index # d.index
        <3>1. PICK i : i = fetch.index /\ Carried(i)
            BY <1>1, <2>1, Zenon DEF Attended
        <3>2. Carried(i)' /\ fetch' = fetch
            BY <1>3, <1>4, <2>1, <3>1, Zenon
        <3>3. i = fetch'.index
            BY <3>1, <3>2, Zenon
        <3> QED
            BY <3>2, <3>3, Zenon DEF Carried
    <2>2. CASE ~(fetch # NoFetch /\ fetch.index # d.index)
        <3>1. fetch' = NoFetch
            BY <1>3, <2>2, Zenon
        <3> QED
            BY <3>1, Zenon DEF NoFetch
    <2> QED
        BY <2>1, <2>2
<1>9. Attended'
    BY <1>7, <1>8, Zenon DEF Attended
<1> QED
    BY <1>6, <1>9, FinishSteps, Zenon DEF IInv

-----------------------------------------------------------------------------
\* No transfer has begun, and nothing has been written.
LEMMA InitIInv == ASSUME MaxIndex \in Nat, Init PROVE IInv
<1>1. LocalType
    <2>1. PICK w : w = NoWait
        BY Zenon
    <2>2. w \in Waiting /\ w.index = 0
        BY <2>1 DEF Waiting, NoWait
    <2>3. wait = [n \in Nodes |-> w]
        BY <2>1 DEF Init, Nodes
    <2> QED
        BY <2>2, <2>3 DEF LocalType, Init, Nodes
<1>2. PeerType /\ SteppedIsWhole
    BY DEF PeerType, SteppedIsWhole, Init
<1>3. TransferType
    BY DEF TransferType, Indexes, Init
<1>4. Served
    BY DEF Served, NewestIsServed, Init, L, F
<1>5. Attended
    BY DEF Attended, Indexes, Init
<1> QED
    BY <1>1, <1>2, <1>3, <1>4, <1>5 DEF IInv

\* Every step keeps the invariant.
LEMMA NextIInv == ASSUME MaxIndex \in Nat, IInv, [Next]_vars PROVE IInv'
<1>1. CASE \E n \in Nodes : maybe_snapshot(n) \/ Serialise(n) \/ poll_snapshot(n) \/ Apply(n)
    BY <1>1, AskKeeps, PollKeeps, ApplyKeeps, Zenon
<1>2. CASE Replicate \/ Offer \/ LoseOffer \/ Reelected
    BY <1>2, RaftKeeps, Zenon
<1>3. CASE \E m \in offers : start_snapshot_fetch(m)
    BY <1>3, StartKeeps, Zenon
<1>4. CASE \E t \in tasks : fetch_snapshot(t) \/ stream_snapshot(t) \/ StreamBreaks(t)
    BY <1>4, FetchKeeps, StreamKeeps, Zenon
<1>5. CASE finish_snapshot_fetch
    BY <1>5, FinishKeeps, Zenon
<1>6. CASE UNCHANGED vars
    <2>1. UNCHANGED <<local, peer, transfer>>
        BY <1>6 DEF vars, local, peer, transfer
    <2>2. PeerType'
        BY <2>1 DEF IInv, PeerType, peer
    <2> QED
        BY <2>1, <2>2, PeerStep
<1> QED
    BY <1>1, <1>2, <1>3, <1>4, <1>5, <1>6, Zenon DEF Next, Fetching, Nodes

\* The invariant holds at any time.
LEMMA Invariant == Spec => []IInv
<1>1. Init => IInv
    BY InitIInv, TransferAssumption
<1>2. IInv /\ [Next]_vars => IInv'
    BY NextIInv, TransferAssumption
<1> QED
    BY <1>1, <1>2, PTL DEF Spec

\* Whatever offers are lost, repeated or superseded, whichever attempts break
\* and however many tasks write to one file name: raft is only stepped with a
\* whole snapshot, what the actor waits for is carried out, no temporary file
\* outlives the transfers and the leader has the file it offers
\* (start_snapshot_fetch, fetch_snapshot, finish_snapshot_fetch, poll_snapshot).
THEOREM FetchSound == Spec => []FetchIsSound
<1>1. ASSUME IInv PROVE FetchIsSound
    <2>1. TransferType /\ Attended /\ Served /\ SteppedIsWhole
        BY <1>1 DEF IInv
    <2>2. FetchIsCarriedOut
        BY <2>1, Zenon DEF Attended, Carried, FetchIsCarriedOut
    <2>3. ASSUME tasks = {}, done = << >>, NEW i \in DOMAIN path PROVE path[i] = 0
        <3>1. i \in Indexes /\ ~ Carried(i)
            BY <2>1, <2>3 DEF TransferType, Carried
        <3> QED
            BY <2>1, <3>1, Zenon DEF Attended
    <2>4. NoFileLeftBehind
        BY <2>3, Zenon DEF NoFileLeftBehind
    <2> QED
        BY <2>1, <2>2, <2>4 DEF Served, FetchIsSound
<1> QED
    BY <1>1, Invariant, PTL

=============================================================================
