------------------------ MODULE ReadyPipelineProofs -------------------------
(***************************************************************************)
(* Proofs about ReadyPipeline, for any bounds, any set of snapshots and    *)
(* any number of cycles in flight.                                         *)
(*                                                                         *)
(* The argument: a cycle's messages and entries are covered by what was    *)
(* written when it was submitted.  That is durable once the cycle is at    *)
(* the front with its flush landed, because every queued cycle is durable, *)
(* or waits for a flush that covers it, or stands behind a failed one and  *)
(* never gets to the front (Covered).  A cycle that wrote nothing covers   *)
(* no more than the cycle before it.                                       *)
(***************************************************************************)
EXTENDS ReadyPipeline, TLAPS

\* Raft's indexes against the written log.
RaftSound(r, w) ==
    /\ r.ack <= r.last /\ r.since <= r.last
    /\ r.committed <= r.last /\ r.stable <= r.last
    /\ r.snapshot # 0 => r.dirty /\ w < r.snapshot /\ r.snapshot <= r.stable
    /\ r.snapshot = 0 => r.stable = w

DiskSound(d) == d.snapshot <= d.durable /\ d.durable <= d.written

\* What a cycle carries is within what was written when it was submitted.
CycleSound(c) ==
    /\ c.last_entry <= c.upto /\ c.ack <= c.upto
    /\ c.snapshot <= c.upto /\ c.to <= c.upto
    /\ c.to >= c.from - 1
    /\ c.snapshot # 0 => c.to < c.from

\* Cycle k is durable, or a queued flush at or before it covers it, or a
\* failed one keeps it from the front.
Covered(p, d, k) ==
    \/ p[k].upto <= d.durable
    \/ \E j \in 1 .. k : p[j].token = "queued" /\ p[k].upto <= p[j].upto
    \/ \E j \in 1 .. k : p[j].token = "failed"

\* After a failed flush a failed cycle stands before everything still queued.
FailureKept(p, d) ==
    d.failed => \E f \in DOMAIN p : /\ p[f].token = "failed"
                                    /\ \A j \in 1 .. f : p[j].token # "queued"

QueueSound(p, d) ==
    /\ \A k \in DOMAIN p : CycleSound(p[k]) /\ Covered(p, d, k)
    /\ \A j, k \in DOMAIN p : j <= k => p[j].upto <= p[k].upto
    /\ p # << >> => p[Len(p)].upto = d.written
    /\ p = << >> => d.durable = d.written
    /\ ~Offloaded => p = << >>
    /\ FailureKept(p, d)

\* Where the state machine is after cycle c.
End(c) == IF c.snapshot # 0 THEN c.snapshot ELSE c.to

\* The queued cycles continue each other, from what was handed out to since.
Chained(r, p, h) ==
    /\ p = << >> => r.since = h
    /\ p # << >> => p[1].from = h + 1 /\ r.since = End(p[Len(p)])
    /\ \A k \in 1 .. Len(p) - 1 : p[k + 1].from = End(p[k]) + 1

IInv ==
    /\ TypeOK
    /\ RaftSound(raft, disk.written)
    /\ DiskSound(disk)
    /\ QueueSound(pending, disk)
    /\ phase = "up" => Chained(raft, pending, handed)
    /\ AcksAreDurable
    /\ PersistedIsDurable
    /\ HandOutIsSound

Disk == [written : Index, durable : Index, snapshot : Index, failed : BOOLEAN]

-----------------------------------------------------------------------------
(* Raft's inputs                                                           *)

\* An input of raft keeps the invariant when it keeps raft's indexes sound,
\* hands nothing out and counts nothing more as persisted.
LEMMA RaftChange ==
    ASSUME IInv, Receive, raft' \in Raft, RaftSound(raft', disk.written),
           raft'.persisted <= raft.persisted, raft'.since = raft.since
    PROVE  IInv'
<1>1. TypeOK'
  BY DEF IInv, TypeOK, Receive
<1>2. RaftSound(raft, disk.written)' /\ DiskSound(disk)'
  BY DEF IInv, Receive
<1>3. QueueSound(pending, disk)'
  BY DEF IInv, Receive
<1>4. (phase = "up" => Chained(raft, pending, handed))'
  BY DEF IInv, Receive, Chained
<1>5. raft.persisted \in Int /\ raft'.persisted \in Int /\ disk.durable \in Int
  BY DEF IInv, TypeOK, Raft, Index
<1>6. AcksAreDurable' /\ PersistedIsDurable' /\ HandOutIsSound'
  BY <1>5 DEF IInv, Receive, AcksAreDurable, PersistedIsDurable, HandOutIsSound
<1> QED
  BY <1>1, <1>2, <1>3, <1>4, <1>6 DEF IInv

\* Every input of raft keeps the invariant.
LEMMA InputKeepsInv ==
    ASSUME IInv,
           \/ \E i \in Index : AppendEntries(i) \/ RepeatAppend(i) \/ CommitTo(i)
           \/ \E s \in Snapshots : ReceiveSnapshot(s)
           \/ Propose \/ BroadcastHeartbeat \/ BecomeLeader \/ StepDown
    PROVE  IInv'
<1>m. MaxIndex \in Nat /\ Snapshots \subseteq 1 .. MaxIndex
  BY PipelineAssumption
<1>0. raft \in Raft /\ disk.written \in Index /\ RaftSound(raft, disk.written)
  BY DEF IInv, TypeOK
<1>a. {raft.last, raft.stable, raft.committed, raft.persisted, raft.since,
       raft.snapshot, raft.ack, disk.written} \subseteq Int
  BY <1>m, <1>0 DEF Raft, Index
<1>1. ASSUME NEW i \in Index, AppendEntries(i) PROVE IInv'
  <2>1. i > raft.last
    BY <1>1, Zenon DEF AppendEntries
  <2>2. i \in Int
    BY <1>m, <1>0, <1>a, <2>1 DEF Index, Raft
  <2>3. raft' \in Raft
    BY <1>0, <1>1, <2>2, Zenon DEF AppendEntries, Raft
  <2>4. /\ raft'.last = i /\ raft'.stable = raft.stable
        /\ raft'.committed = raft.committed /\ raft'.persisted = raft.persisted
        /\ raft'.since = raft.since /\ raft'.snapshot = raft.snapshot
        /\ raft'.ack = i /\ raft'.dirty = raft.dirty
    BY <1>0, <1>1, Zenon DEF AppendEntries, Raft
  <2>5. RaftSound(raft', disk.written) /\ raft'.persisted <= raft.persisted
    BY ONLY <1>0, <1>a, <2>1, <2>2, <1>m, <2>4 DEF RaftSound
  <2> QED
    BY <1>1, <2>3, <2>4, <2>5, RaftChange, Zenon DEF AppendEntries
<1>2. ASSUME NEW i \in Index, RepeatAppend(i) PROVE IInv'
  <2>1. i \in raft.committed .. raft.last
    BY <1>2 DEF RepeatAppend
  <2>2. i \in Int /\ Most(raft.ack, i) \in Index
    BY <1>m, <1>0, <1>a, <2>1 DEF Index, Raft, Most
  <2>3. raft' \in Raft
    BY <1>0, <1>2, <2>2 DEF RepeatAppend, Raft
  <2>4. /\ raft'.last = raft.last /\ raft'.stable = raft.stable
        /\ raft'.committed = raft.committed /\ raft'.persisted = raft.persisted
        /\ raft'.since = raft.since /\ raft'.snapshot = raft.snapshot
        /\ raft'.ack = Most(raft.ack, i) /\ raft'.dirty = raft.dirty
    BY <1>0, <1>2 DEF RepeatAppend, Raft
  <2>5. RaftSound(raft', disk.written) /\ raft'.persisted <= raft.persisted
    BY ONLY <1>0, <1>a, <2>1, <2>2, <1>m, <2>4 DEF RaftSound, Most
  <2> QED
    BY <1>2, <2>3, <2>4, <2>5, RaftChange DEF RepeatAppend
<1>3. ASSUME NEW i \in Index, CommitTo(i) PROVE IInv'
  <2>1. i <= raft.last
    BY <1>3, Zenon DEF CommitTo
  <2>2. i \in Int
    BY <1>m, <1>0, <1>a, <2>1 DEF Index, Raft
  <2>3. raft' \in Raft
    BY <1>0, <1>3, <2>2, Zenon DEF CommitTo, Raft
  <2>4. /\ raft'.last = raft.last /\ raft'.stable = raft.stable
        /\ raft'.committed = i /\ raft'.persisted = raft.persisted
        /\ raft'.since = raft.since /\ raft'.snapshot = raft.snapshot
        /\ raft'.ack = raft.ack /\ raft'.dirty = TRUE
    BY <1>0, <1>3, Zenon DEF CommitTo, Raft
  <2>5. RaftSound(raft', disk.written) /\ raft'.persisted <= raft.persisted
    BY ONLY <1>0, <1>a, <2>1, <2>2, <1>m, <2>4 DEF RaftSound
  <2> QED
    BY <1>3, <2>3, <2>4, <2>5, RaftChange, Zenon DEF CommitTo
<1>4. ASSUME NEW s \in Snapshots, ReceiveSnapshot(s) PROVE IInv'
  <2>1. s > raft.last
    BY <1>4, Zenon DEF ReceiveSnapshot
  <2>2. s \in Int /\ s \in Index /\ Least(raft.persisted, raft.committed) \in Index
    BY <1>m, <1>0, <1>a, <2>1 DEF Index, Raft, Least
  <2>3. raft' \in Raft
    BY <1>0, <1>4, <2>2, Zenon DEF ReceiveSnapshot, Raft
  <2>4. /\ raft'.last = s /\ raft'.stable = s
        /\ raft'.committed = s /\ raft'.persisted = Least(raft.persisted, raft.committed)
        /\ raft'.since = raft.since /\ raft'.snapshot = s
        /\ raft'.ack = s /\ raft'.dirty = TRUE
    BY <1>0, <1>4, Zenon DEF ReceiveSnapshot, Raft
  <2>5. RaftSound(raft', disk.written) /\ raft'.persisted <= raft.persisted
    BY ONLY <1>0, <1>a, <2>1, <2>2, <1>m, <2>4 DEF RaftSound, Least
  <2> QED
    BY <1>4, <2>3, <2>4, <2>5, RaftChange, Zenon DEF ReceiveSnapshot
<1>5. ASSUME Propose PROVE IInv'
  <2>1. raft.last < MaxIndex
    BY <1>5 DEF Propose
  <2>2. raft.last + 1 \in Index
    BY <1>m, <1>0, <1>a, <2>1 DEF Index, Raft
  <2>3. raft' \in Raft
    BY <1>0, <1>5, <2>2, Zenon DEF Propose, Raft
  <2>4. /\ raft'.last = raft.last + 1 /\ raft'.stable = raft.stable
        /\ raft'.committed = raft.committed /\ raft'.persisted = raft.persisted
        /\ raft'.since = raft.since /\ raft'.snapshot = raft.snapshot
        /\ raft'.ack = raft.ack /\ raft'.dirty = raft.dirty
    BY <1>0, <1>5 DEF Propose, Raft
  <2>5. RaftSound(raft', disk.written) /\ raft'.persisted <= raft.persisted
    BY ONLY <1>0, <1>a, <2>1, <2>4 DEF RaftSound
  <2> QED
    BY <1>5, <2>3, <2>4, <2>5, RaftChange DEF Propose
<1>6. ASSUME BroadcastHeartbeat PROVE IInv'
  <2>3. raft' \in Raft
    BY <1>0, <1>6, Zenon DEF BroadcastHeartbeat, Raft
  <2>4. /\ raft'.last = raft.last /\ raft'.stable = raft.stable
        /\ raft'.committed = raft.committed /\ raft'.persisted = raft.persisted
        /\ raft'.since = raft.since /\ raft'.snapshot = raft.snapshot
        /\ raft'.ack = raft.ack /\ raft'.dirty = raft.dirty
    BY <1>0, <1>6 DEF BroadcastHeartbeat, Raft
  <2>5. RaftSound(raft', disk.written) /\ raft'.persisted <= raft.persisted
    BY ONLY <1>0, <1>a, <2>4 DEF RaftSound
  <2> QED
    BY <1>6, <2>3, <2>4, <2>5, RaftChange DEF BroadcastHeartbeat
<1>7. ASSUME BecomeLeader PROVE IInv'
  <2>3. raft' \in Raft
    BY <1>0, <1>7, Zenon DEF BecomeLeader, Raft
  <2>4. /\ raft'.last = raft.last /\ raft'.stable = raft.stable
        /\ raft'.committed = raft.committed /\ raft'.persisted = raft.persisted
        /\ raft'.since = raft.since /\ raft'.snapshot = raft.snapshot
        /\ raft'.ack = raft.ack /\ raft'.dirty = TRUE
    BY <1>0, <1>7 DEF BecomeLeader, Raft
  <2>5. RaftSound(raft', disk.written) /\ raft'.persisted <= raft.persisted
    BY ONLY <1>0, <1>a, <2>4 DEF RaftSound
  <2> QED
    BY <1>7, <2>3, <2>4, <2>5, RaftChange DEF BecomeLeader
<1>8. ASSUME StepDown PROVE IInv'
  <2>3. raft' \in Raft
    BY <1>0, <1>8, Zenon DEF StepDown, Raft
  <2>4. /\ raft'.last = raft.last /\ raft'.stable = raft.stable
        /\ raft'.committed = raft.committed /\ raft'.persisted = raft.persisted
        /\ raft'.since = raft.since /\ raft'.snapshot = raft.snapshot
        /\ raft'.ack = raft.ack /\ raft'.dirty = TRUE
    BY <1>0, <1>8 DEF StepDown, Raft
  <2>5. RaftSound(raft', disk.written) /\ raft'.persisted <= raft.persisted
    BY ONLY <1>0, <1>a, <2>4 DEF RaftSound
  <2> QED
    BY <1>8, <2>3, <2>4, <2>5, RaftChange DEF StepDown
<1> QED
  BY <1>1, <1>2, <1>3, <1>4, <1>5, <1>6, <1>7, <1>8

-----------------------------------------------------------------------------
(* finish_persisted                                                        *)

\* Finishing a cycle that is on disk and continues what was handed out sends
\* and hands out only what is on disk, and leaves off where the cycle ends.
LEMMA FinishIsSound ==
    ASSUME NEW r \in Raft, NEW c \in CycleType, NEW d \in Disk,
           CycleSound(c), c.upto <= d.durable, c.from = handed + 1,
           r.persisted <= d.durable, acked <= d.durable, handed <= d.durable,
           acked \in Index, handed \in Index, skipped = FALSE, phase = "up",
           Finish(r, c, d)
    PROVE  /\ raft' \in Raft
           /\ raft' = [r EXCEPT !.persisted = raft'.persisted,
                                !.applied = raft'.applied]
           /\ raft'.persisted <= d.durable
           /\ acked' \in Index /\ acked' <= d.durable
           /\ handed' \in Index /\ handed' <= d.durable
           /\ skipped' = FALSE
           /\ phase' \in {"up", "panicked"}
           /\ phase' = "up" => handed' = End(c)
<1>m. MaxIndex \in Nat /\ Snapshots \subseteq 1 .. MaxIndex
  BY PipelineAssumption
<1> USE <1>m DEF Index
<1> DEFINE q == OnPersistReady(r, c, d)
<1>1. PersistedBy(r, c, d) \in Index /\ PersistedBy(r, c, d) <= d.durable
  BY DEF PersistedBy, Most, Raft, CycleType, Disk, CycleSound
<1>2. /\ q \in Raft /\ q = [r EXCEPT !.persisted = q.persisted]
      /\ q.persisted <= d.durable
  BY <1>1 DEF OnPersistReady, Raft
<1>3. CASE AdvanceApplyPanics(q)
  <2>1. raft' = q /\ phase' = "panicked" /\ UNCHANGED <<acked, handed, skipped>>
    BY <1>3 DEF Finish
  <2>2. q = [r EXCEPT !.persisted = q.persisted, !.applied = q.applied]
    BY <1>2, Zenon DEF Raft
  <2> HIDE DEF q
  <2> QED
    BY <1>2, <2>1, <2>2
<1>4. CASE ~AdvanceApplyPanics(q)
  <2>1. /\ raft' = AdvanceApply(q) /\ acked' = Most(acked, c.ack)
        /\ HandOut(c) /\ phase' = phase
    BY <1>4 DEF Finish
  <2> HIDE DEF q
  <2>2. /\ raft' \in Raft /\ raft'.persisted = q.persisted
        /\ raft' = [r EXCEPT !.persisted = raft'.persisted,
                             !.applied = raft'.applied]
    BY <1>2, <2>1, Zenon DEF AdvanceApply, Raft
  <2>3. acked' \in Index /\ acked' <= d.durable
    BY <2>1 DEF Most, CycleType, CycleSound, Disk
  <2> DEFINE start == IF c.snapshot # 0 THEN c.snapshot ELSE handed
             from  == Most(c.from, c.snapshot + 1)
  <2>a. /\ handed' = IF from <= c.to THEN c.to ELSE start
        /\ skipped' = (skipped \/ (from <= c.to /\ from # start + 1))
    BY <2>1 DEF HandOut
  <2>b. /\ from <= c.to => from = start + 1
        /\ (IF from <= c.to THEN c.to ELSE start) = End(c)
    BY DEF End, Most, CycleType, CycleSound
  <2> HIDE DEF start, from
  <2>4. handed' = End(c) /\ skipped' = FALSE
    BY <2>a, <2>b, Zenon
  <2>5. End(c) \in Index /\ End(c) <= d.durable
    BY DEF End, CycleType, CycleSound, Disk
  <2> QED
    BY <1>2, <2>1, <2>2, <2>3, <2>4, <2>5
<1> QED
  BY <1>3, <1>4, Zenon

\* The oldest cycle, once its flush has landed and not failed, is on disk.
LEMMA FrontIsDurable ==
    ASSUME TypeOK, QueueSound(pending, disk), Landed,
           Head(pending).token # "failed"
    PROVE  /\ Head(pending) \in CycleType /\ CycleSound(Head(pending))
           /\ Head(pending) = pending[1] /\ 1 \in DOMAIN pending
           /\ Head(pending).upto <= disk.durable
<1>1. pending # << >> /\ pending \in Seq(CycleType)
  BY DEF Landed, TypeOK
<1>2. Head(pending) = pending[1] /\ 1 \in DOMAIN pending /\ pending[1] \in CycleType
  BY <1>1
<1>3. CycleSound(pending[1]) /\ Covered(pending, disk, 1)
  BY <1>2 DEF QueueSound
<1>4. \A j \in 1 .. 1 : pending[j].token # "queued" /\ pending[j].token # "failed"
  BY <1>2 DEF Landed
<1> QED
  BY <1>2, <1>3, <1>4 DEF Covered

\* A sequence without elements is the empty one.
LEMMA EmptyByLen ==
    ASSUME NEW S, NEW q \in Seq(S), Len(q) = 0
    PROVE  q = << >>
  OBVIOUS

\* Taking a finished cycle from the front keeps the queue sound.
LEMMA TailIsSound ==
    ASSUME NEW p \in Seq(CycleType), NEW d \in Disk, QueueSound(p, d),
           DiskSound(d), p # << >>, p[1].upto <= d.durable,
           p[1].token \notin {"queued", "failed"}
    PROVE  QueueSound(Tail(p), d)
<1> DEFINE t == Tail(p)
<1>m. MaxIndex \in Nat
  BY PipelineAssumption
<1>1. /\ t \in Seq(CycleType) /\ Len(t) = Len(p) - 1 /\ Len(p) \in Nat
      /\ Len(p) >= 1 /\ DOMAIN t = 1 .. Len(p) - 1 /\ DOMAIN p = 1 .. Len(p)
      /\ \A k \in 1 .. Len(p) - 1 : t[k] = p[k + 1]
  OBVIOUS
<1> HIDE DEF t
<1>3. ASSUME NEW k \in DOMAIN t PROVE CycleSound(t[k]) /\ Covered(t, d, k)
  <2>1. t[k] = p[k + 1] /\ k + 1 \in DOMAIN p /\ k \in Nat
    BY <1>1
  <2>2. CycleSound(p[k + 1]) /\ Covered(p, d, k + 1)
    BY <2>1 DEF QueueSound
  <2>3. ASSUME NEW j \in 1 .. k + 1, p[j].token \in {"queued", "failed"}
        PROVE  j - 1 \in 1 .. k /\ t[j - 1] = p[j]
    <3>1. j # 1
      BY <2>3
    <3> QED
      BY <1>1, <2>1, <3>1
  <2>4. CASE p[k + 1].upto <= d.durable
    BY <2>1, <2>2, <2>4 DEF Covered
  <2>5. ASSUME NEW j \in 1 .. k + 1, p[j].token = "queued", p[k + 1].upto <= p[j].upto
        PROVE  Covered(t, d, k)
    BY <2>1, <2>3, <2>5, Zenon DEF Covered
  <2>6. ASSUME NEW j \in 1 .. k + 1, p[j].token = "failed"
        PROVE  Covered(t, d, k)
    BY <2>3, <2>6 DEF Covered
  <2> QED
    BY <2>1, <2>2, <2>4, <2>5, <2>6 DEF Covered
<1>4. \A j, k \in DOMAIN t : j <= k => t[j].upto <= t[k].upto
  <2> SUFFICES ASSUME NEW j \in DOMAIN t, NEW k \in DOMAIN t, j <= k
               PROVE  t[j].upto <= t[k].upto
    OBVIOUS
  <2>1. /\ t[j] = p[j + 1] /\ t[k] = p[k + 1] /\ j + 1 <= k + 1
        /\ j + 1 \in DOMAIN p /\ k + 1 \in DOMAIN p
    BY <1>1
  <2> QED
    BY <2>1 DEF QueueSound
<1>5. t # << >> => t[Len(t)].upto = d.written
  <2>1. SUFFICES ASSUME t # << >> PROVE p[Len(p)].upto = d.written
    BY <1>1
  <2> QED
    BY DEF QueueSound
<1>6. t = << >> => d.durable = d.written
  <2>1. SUFFICES ASSUME Len(t) = 0 PROVE d.durable = d.written
    OBVIOUS
  <2>2. p[1].upto = d.written
    BY <1>1, <2>1 DEF QueueSound
  <2> QED
    BY <2>2, <1>m DEF DiskSound, Disk, Index
<1>7. FailureKept(t, d)
  <2>1. SUFFICES ASSUME d.failed
                 PROVE  \E f \in DOMAIN t : /\ t[f].token = "failed"
                                            /\ \A j \in 1 .. f : t[j].token # "queued"
    BY DEF FailureKept
  <2>2. PICK f \in DOMAIN p : /\ p[f].token = "failed"
                              /\ \A j \in 1 .. f : p[j].token # "queued"
    BY <2>1 DEF QueueSound, FailureKept
  <2>3. f # 1
    BY <2>2
  <2>4. f - 1 \in DOMAIN t /\ t[f - 1] = p[f]
    BY <1>1, <2>3
  <2>5. \A j \in 1 .. f - 1 : t[j] = p[j + 1] /\ j + 1 \in 1 .. f
    BY <1>1
  <2> QED
    BY <2>2, <2>4, <2>5
<1>8. Offloaded
  BY DEF QueueSound
<1> QED
  BY <1>3, <1>4, <1>5, <1>6, <1>7, <1>8 DEF QueueSound, t

\* Finishing the oldest cycle keeps the invariant.
LEMMA FinishKeepsInv ==
    ASSUME IInv, StepFinish
    PROVE  IInv'
<1>m. MaxIndex \in Nat
  BY PipelineAssumption
<1>0. /\ TypeOK /\ RaftSound(raft, disk.written) /\ DiskSound(disk)
      /\ QueueSound(pending, disk) /\ Chained(raft, pending, handed)
      /\ AcksAreDurable /\ PersistedIsDurable /\ HandOutIsSound
      /\ phase = "up" /\ Landed /\ disk' = disk /\ crashes' = crashes
  BY DEF IInv, StepFinish
<1>1. CASE Head(pending).token = "failed"
  <2>1. phase' = "failed" /\ UNCHANGED <<raft, pending, acked, handed, skipped>>
    BY <1>1 DEF StepFinish
  <2>2. TypeOK'
    BY <1>0, <2>1 DEF TypeOK
  <2> QED
    BY <1>0, <2>1, <2>2 DEF IInv, AcksAreDurable, PersistedIsDurable, HandOutIsSound
<1>2. CASE Head(pending).token # "failed"
  <2> DEFINE c == Head(pending)
  <2>1. pending' = Tail(pending) /\ Finish(raft, c, disk)
    BY <1>2 DEF StepFinish
  <2>2. /\ c \in CycleType /\ CycleSound(c) /\ c = pending[1]
        /\ 1 \in DOMAIN pending /\ c.upto <= disk.durable
    BY <1>0, <1>2, FrontIsDurable
  <2>3. /\ pending \in Seq(CycleType) /\ pending # << >> /\ disk \in Disk
        /\ Len(pending) \in Nat /\ Len(pending) <= MaxInFlight
    BY <1>0 DEF TypeOK, Disk, Landed
  <2> HIDE DEF c
  <2>4. c.from = handed + 1
    BY <1>0, <2>2, <2>3 DEF Chained
  <2>5. /\ raft \in Raft /\ acked \in Index /\ handed \in Index
        /\ skipped = FALSE /\ raft.persisted <= disk.durable
        /\ acked <= disk.durable /\ handed <= disk.durable
    BY <1>0 DEF TypeOK, AcksAreDurable, PersistedIsDurable, HandOutIsSound
  <2>6. /\ raft' \in Raft
        /\ raft' = [raft EXCEPT !.persisted = raft'.persisted,
                                !.applied = raft'.applied]
        /\ raft'.persisted <= disk.durable
        /\ acked' \in Index /\ acked' <= disk.durable
        /\ handed' \in Index /\ handed' <= disk.durable
        /\ skipped' = FALSE
        /\ phase' \in {"up", "panicked"}
        /\ phase' = "up" => handed' = End(c)
    BY <1>0, <2>1, <2>2, <2>3, <2>4, <2>5, FinishIsSound, Zenon
  <2>7. Tail(pending) \in Seq(CycleType) /\ Len(Tail(pending)) = Len(pending) - 1
    BY <2>3
  <2>8. TypeOK'
    <3>1. Len(pending') <= MaxInFlight
      BY <2>1, <2>3, <2>7, PipelineAssumption
    <3> QED
      BY <1>0, <2>1, <2>6, <2>7, <3>1, Zenon DEF TypeOK
  <2>9. /\ raft'.last = raft.last /\ raft'.stable = raft.stable
        /\ raft'.committed = raft.committed /\ raft'.since = raft.since
        /\ raft'.snapshot = raft.snapshot /\ raft'.ack = raft.ack
        /\ raft'.dirty = raft.dirty
    BY <2>5, <2>6, Zenon DEF Raft
  <2>10. RaftSound(raft', disk'.written)
    BY <1>0, <2>9 DEF RaftSound
  <2>11. c.token \notin {"queued", "failed"}
    BY <1>0, <1>2 DEF Landed, c
  <2>12. QueueSound(pending', disk')
    BY <1>0, <2>1, <2>2, <2>3, <2>11, TailIsSound
  <2>13. ASSUME phase' = "up" PROVE Chained(raft', pending', handed')
    <3> DEFINE n == Len(pending)
               t == Tail(pending)
    <3>1. /\ \A k \in 1 .. n - 1 : t[k] = pending[k + 1]
          /\ Len(t) = n - 1 /\ n \in Nat /\ n >= 1 /\ t \in Seq(CycleType)
      BY <2>3
    <3>2. handed' = End(pending[1])
      BY <2>2, <2>6, <2>13
    <3>3. CASE n = 1
      <4>1. Len(t) = 0 /\ t \in Seq(CycleType)
        BY <3>1, <3>3
      <4> HIDE DEF t
      <4>2. t = << >>
        BY <4>1, EmptyByLen
      <4>3. raft'.since = handed'
        BY <1>0, <2>3, <2>9, <3>2, <3>3 DEF Chained
      <4>4. pending' = << >>
        BY <2>1, <4>2 DEF t
      <4> QED
        BY <4>3, <4>4 DEF Chained
    <3>4. CASE n > 1
      <4>1. t # << >> /\ t[1] = pending[2] /\ t[n - 1] = pending[n]
        BY <3>1, <3>4
      <4>2. pending[2].from = End(pending[1]) + 1
        BY <1>0, <3>1, <3>4 DEF Chained
      <4>3. raft'.since = End(pending[n])
        BY <1>0, <2>3, <2>9 DEF Chained
      <4>4. ASSUME NEW k \in 1 .. (n - 1) - 1
            PROVE  t[k + 1].from = End(t[k]) + 1
        <5>1. /\ t[k + 1] = pending[(k + 1) + 1] /\ t[k] = pending[k + 1]
              /\ k + 1 \in 1 .. n - 1
          BY <3>1
        <5> QED
          BY <1>0, <5>1 DEF Chained
      <4> HIDE DEF t
      <4> QED
        BY <2>1, <3>1, <3>2, <4>1, <4>2, <4>3, <4>4 DEF Chained, t
    <3> QED
      BY <3>1, <3>3, <3>4
  <2> QED
    BY <1>0, <2>6, <2>8, <2>10, <2>12, <2>13
    DEF IInv, AcksAreDurable, PersistedIsDurable, HandOutIsSound
<1> QED
  BY <1>1, <1>2

-----------------------------------------------------------------------------
(* submit_ready                                                            *)

\* The cycle of a Ready: what it carries, and what it leaves in raft.
LEMMA CycleOfReady ==
    ASSUME raft \in Raft, NEW w \in Index, RaftSound(raft, w)
    PROVE  /\ Cycle \in CycleType /\ CycleSound(Cycle)
           /\ Cycle.upto = raft.last /\ Cycle.from = raft.since + 1
           /\ Cycle.token \in {"none", "queued"}
           /\ End(Cycle) = ReadySince
           /\ AfterReady \in Raft /\ RaftSound(AfterReady, raft.last)
           /\ AfterReady.since = ReadySince
           /\ AfterReady.persisted = raft.persisted
<1>m. MaxIndex \in Nat
  BY PipelineAssumption
<1>a. {raft.last, raft.stable, raft.committed, raft.persisted, raft.since,
       raft.snapshot, raft.ack, w, 0} \subseteq Index
  BY <1>m DEF Raft, Index
<1>b. ReadySince \in Index /\ ReadySince <= raft.last
  BY <1>m, <1>a DEF ReadySince, Deliverable, Most, Least, RaftSound, Index
<1>c. raft.snapshot = 0 => ReadySince >= raft.since
  BY <1>m, <1>a DEF ReadySince, Deliverable, Most, Least, Index
<1>d. Offloaded \in BOOLEAN /\ HasRecords \in BOOLEAN
  BY PipelineAssumption DEF HasRecords, Raft
<1>1. /\ Cycle.last_entry = IF raft.last > raft.stable THEN raft.last ELSE 0
      /\ Cycle.upto = raft.last
      /\ Cycle.token = IF Offloaded /\ HasRecords THEN "queued" ELSE "none"
      /\ Cycle.ack = raft.ack /\ Cycle.from = raft.since + 1
      /\ Cycle.to = IF raft.snapshot # 0 THEN raft.since ELSE ReadySince
      /\ Cycle.snapshot = raft.snapshot
  BY DEF Cycle
<1>2. raft.since + 1 \in 1 .. MaxIndex + 1
  BY <1>m, <1>a DEF Index
<1>3. Cycle \in CycleType
  BY <1>a, <1>b, <1>d, <1>2 DEF Cycle, CycleType, Raft
<1>4. CycleSound(Cycle)
  BY <1>m, <1>a, <1>b, <1>c, <1>1 DEF CycleSound, RaftSound, Index
<1>5. End(Cycle) = ReadySince
  BY <1>1 DEF End, ReadySince
<1>6. /\ AfterReady \in Raft
      /\ AfterReady.last = raft.last /\ AfterReady.stable = raft.last
      /\ AfterReady.since = ReadySince /\ AfterReady.snapshot = 0
      /\ AfterReady.ack = 0 /\ AfterReady.committed = raft.committed
      /\ AfterReady.persisted = raft.persisted
  BY <1>a, <1>b, Zenon DEF AfterReady, Raft
<1>7. RaftSound(AfterReady, raft.last)
  BY <1>m, <1>a, <1>b, <1>6 DEF RaftSound, Index
<1> QED
  BY <1>1, <1>3, <1>4, <1>5, <1>6, <1>7, <1>d

\* What submit_ready writes: nothing durable is given up.
LEMMA PersistedDisk ==
    ASSUME raft \in Raft, disk \in Disk, RaftSound(raft, disk.written),
           DiskSound(disk)
    PROVE  /\ Persisted \in Disk /\ DiskSound(Persisted)
           /\ Persisted.written = raft.last /\ disk.written <= raft.last
           /\ disk.durable <= Persisted.durable
           /\ Persisted.failed = disk.failed
           /\ ~Offloaded => Persisted.durable = raft.last
           /\ Offloaded /\ Cycle.token = "none"
              => raft.last = disk.written /\ Persisted.durable = disk.durable
<1>m. MaxIndex \in Nat /\ Offloaded \in BOOLEAN
  BY PipelineAssumption
<1>a. {raft.last, raft.stable, raft.snapshot, disk.written, disk.durable,
       disk.snapshot} \subseteq Index
  BY DEF Raft, Disk
<1>1. CASE raft.snapshot = 0
  <2>1. Installed = disk
    BY <1>1 DEF Installed
  <2>2. /\ Persisted \in Disk /\ Persisted.written = raft.last
        /\ Persisted.durable = IF Offloaded THEN disk.durable ELSE raft.last
        /\ Persisted.snapshot = disk.snapshot /\ Persisted.failed = disk.failed
    BY <1>a, <1>m, <2>1, Zenon DEF Persisted, Disk
  <2>3. raft.stable = disk.written /\ raft.stable <= raft.last
    BY <1>1 DEF RaftSound
  <2>4. ASSUME Offloaded, Cycle.token = "none" PROVE raft.last = raft.stable
    <3>1. ~HasRecords
      BY <2>4 DEF Cycle
    <3> QED
      BY <1>m, <1>a, <2>3, <3>1 DEF HasRecords, Index
  <2> QED
    BY <1>m, <1>a, <2>2, <2>3, <2>4 DEF DiskSound, Index
<1>2. CASE raft.snapshot # 0
  <2>1. Installed = [disk EXCEPT !.snapshot = raft.snapshot,
                                 !.durable = raft.snapshot]
    BY <1>2 DEF Installed
  <2>2. /\ Persisted \in Disk /\ Persisted.written = raft.last
        /\ Persisted.durable = IF Offloaded THEN raft.snapshot ELSE raft.last
        /\ Persisted.snapshot = raft.snapshot /\ Persisted.failed = disk.failed
    BY <1>a, <1>m, <2>1, Zenon DEF Persisted, Disk
  <2>3. /\ disk.written < raft.snapshot /\ raft.snapshot <= raft.stable
        /\ raft.stable <= raft.last /\ raft.dirty
    BY <1>2 DEF RaftSound
  <2>4. Offloaded => Cycle.token # "none"
    BY <2>3 DEF Cycle, HasRecords
  <2> QED
    BY <1>m, <1>a, <2>2, <2>3, <2>4 DEF DiskSound, Index
<1> QED
  BY <1>1, <1>2

\* The end of a cycle is an integer.
LEMMA UptoIsInt ==
    ASSUME NEW c \in CycleType
    PROVE  c.upto \in Int
  BY PipelineAssumption DEF CycleType, Index

\* A cycle that is queued to be flushed, or that wrote nothing, keeps the
\* queue sound.
LEMMA AppendIsSound ==
    ASSUME NEW p \in Seq(CycleType), NEW d \in Disk, NEW x \in Disk,
           NEW e \in CycleType, QueueSound(p, d), CycleSound(e), Offloaded,
           d.durable <= x.durable, x.written = e.upto, d.written <= e.upto,
           x.failed = d.failed,
           \/ e.token = "queued"
           \/ p # << >> /\ e.upto = d.written
    PROVE  QueueSound(Append(p, e), x)
<1> DEFINE q == Append(p, e)
           n == Len(p)
<1>m. MaxIndex \in Nat
  BY PipelineAssumption
<1>1. /\ n \in Nat /\ DOMAIN p = 1 .. n /\ q \in Seq(CycleType)
      /\ Len(q) = n + 1 /\ DOMAIN q = 1 .. n + 1 /\ q # << >>
      /\ \A k \in 1 .. n : q[k] = p[k]
      /\ q[n + 1] = e
  OBVIOUS
<1>2. \A k \in 1 .. n : p[k] \in CycleType
  BY <1>1
<1> HIDE DEF q, n
<1>3. \A k \in 1 .. n : p[k].upto \in Int
  BY <1>2, UptoIsInt
<1>4. {d.durable, x.durable, d.written, x.written, e.upto} \subseteq Int
  BY <1>m DEF CycleType, Disk, Index
<1>5. ASSUME NEW k \in 1 .. n PROVE CycleSound(q[k]) /\ Covered(q, x, k)
  <2>1. /\ q[k] = p[k] /\ \A j \in 1 .. k : q[j] = p[j]
    BY <1>1
  <2>2. CycleSound(p[k]) /\ Covered(p, d, k)
    BY <1>1 DEF QueueSound
  <2>3. CASE p[k].upto <= d.durable
    BY <1>3, <1>4, <2>1, <2>2, <2>3 DEF Covered
  <2>4. CASE \E j \in 1 .. k : p[j].token = "queued" /\ p[k].upto <= p[j].upto
    BY <2>1, <2>2, <2>4 DEF Covered
  <2>5. CASE \E j \in 1 .. k : p[j].token = "failed"
    BY <2>1, <2>2, <2>5 DEF Covered
  <2> QED
    BY <2>2, <2>3, <2>4, <2>5 DEF Covered
<1>6. CycleSound(q[n + 1]) /\ Covered(q, x, n + 1)
  <2>1. CASE e.token = "queued"
    <3>1. n + 1 \in 1 .. n + 1 /\ q[n + 1].upto <= q[n + 1].upto
      BY <1>1, <1>4
    <3> QED
      BY <1>1, <2>1, <3>1 DEF Covered
  <2>2. CASE p # << >> /\ e.upto = d.written
    <3>1. n \in 1 .. n /\ p[n].upto = e.upto
      BY <1>1, <2>2 DEF QueueSound, n
    <3>2. Covered(q, x, n) /\ q[n] = p[n]
      BY <1>1, <1>5, <3>1
    <3>3. \A j \in 1 .. n : j \in 1 .. n + 1
      BY <1>1
    <3> QED
      BY <1>1, <3>1, <3>2, <3>3 DEF Covered
  <2> QED
    BY <2>1, <2>2
<1>7. \A j, k \in DOMAIN q : j <= k => q[j].upto <= q[k].upto
  <2> SUFFICES ASSUME NEW j \in DOMAIN q, NEW k \in DOMAIN q, j <= k
               PROVE  q[j].upto <= q[k].upto
    OBVIOUS
  <2>1. CASE k \in 1 .. n
    <3>1. q[j] = p[j] /\ q[k] = p[k] /\ j \in DOMAIN p /\ k \in DOMAIN p
      BY <1>1, <2>1
    <3> QED
      BY <3>1 DEF QueueSound
  <2>2. CASE k = n + 1 /\ j \in 1 .. n
    <3>1. p[j].upto <= p[n].upto /\ p[n].upto = d.written /\ n \in 1 .. n
      BY <1>1, <2>2 DEF QueueSound, n
    <3> QED
      BY <1>1, <1>3, <1>4, <2>2, <3>1
  <2>3. CASE j = n + 1 /\ k = n + 1
    BY <1>1, <1>4, <2>3
  <2> QED
    BY <1>1, <2>1, <2>2, <2>3
<1>8. FailureKept(q, x)
  <2> SUFFICES ASSUME x.failed
               PROVE  \E f \in DOMAIN q : /\ q[f].token = "failed"
                                          /\ \A j \in 1 .. f : q[j].token # "queued"
    BY DEF FailureKept
  <2>1. PICK f \in DOMAIN p : /\ p[f].token = "failed"
                              /\ \A j \in 1 .. f : p[j].token # "queued"
    BY DEF QueueSound, FailureKept
  <2>2. f \in DOMAIN q /\ q[f] = p[f] /\ \A j \in 1 .. f : q[j] = p[j]
    BY <1>1
  <2> QED
    BY <2>1, <2>2
<1> QED
  BY <1>1, <1>5, <1>6, <1>7, <1>8 DEF QueueSound, q

\* Submitting a Ready keeps the invariant.
LEMMA SubmitKeepsInv ==
    ASSUME IInv, StepSubmit
    PROVE  IInv'
<1>m. MaxIndex \in Nat /\ MaxInFlight \in Nat /\ Offloaded \in BOOLEAN
  BY PipelineAssumption
<1>0. /\ TypeOK /\ RaftSound(raft, disk.written) /\ DiskSound(disk)
      /\ QueueSound(pending, disk) /\ Chained(raft, pending, handed)
      /\ AcksAreDurable /\ PersistedIsDurable /\ HandOutIsSound
      /\ phase = "up" /\ disk' = Persisted /\ crashes' = crashes
      /\ Len(pending) < MaxInFlight
  BY DEF IInv, StepSubmit, CanSubmit
<1>1. /\ raft \in Raft /\ disk \in Disk /\ pending \in Seq(CycleType)
      /\ acked \in Index /\ handed \in Index /\ skipped = FALSE
      /\ raft.persisted <= disk.durable /\ acked <= disk.durable
      /\ handed <= disk.durable
  BY <1>0 DEF TypeOK, Disk, AcksAreDurable, PersistedIsDurable, HandOutIsSound
<1>2. disk.written \in Index /\ disk.durable \in Index
  BY <1>1 DEF Disk
<1>3. /\ Cycle \in CycleType /\ CycleSound(Cycle)
      /\ Cycle.upto = raft.last /\ Cycle.from = raft.since + 1
      /\ Cycle.token \in {"none", "queued"}
      /\ End(Cycle) = ReadySince
      /\ AfterReady \in Raft /\ RaftSound(AfterReady, raft.last)
      /\ AfterReady.since = ReadySince
      /\ AfterReady.persisted = raft.persisted
  BY <1>0, <1>1, <1>2, CycleOfReady
<1>4. /\ Persisted \in Disk /\ DiskSound(Persisted)
      /\ Persisted.written = raft.last /\ disk.written <= raft.last
      /\ disk.durable <= Persisted.durable
      /\ Persisted.failed = disk.failed
      /\ ~Offloaded => Persisted.durable = raft.last
      /\ Offloaded /\ Cycle.token = "none"
         => raft.last = disk.written /\ Persisted.durable = disk.durable
  BY <1>0, <1>1, PersistedDisk
<1>5. /\ raft.persisted <= Persisted.durable /\ acked <= Persisted.durable
      /\ handed <= Persisted.durable
  <2>1. /\ raft.persisted \in Index /\ Persisted.durable \in Index
    BY <1>1, <1>4 DEF Raft, Disk
  <2>2. \A i \in Index : i \in Int
    BY <1>m DEF Index
  <2> QED
    BY <1>1, <1>2, <1>4, <2>1, <2>2
<1>6. CASE pending # << >> \/ Cycle.token = "queued"
  <2> DEFINE e == [Cycle EXCEPT !.immediate = @ /\ Cycle.token # "queued"]
  <2>1. /\ raft' = AfterReady /\ pending' = Append(pending, e)
        /\ UNCHANGED <<acked, handed, skipped, phase>>
    BY <1>6, <1>3 DEF StepSubmit
  <2>2. /\ e \in CycleType
        /\ e.last_entry = Cycle.last_entry /\ e.upto = Cycle.upto
        /\ e.token = Cycle.token /\ e.ack = Cycle.ack /\ e.from = Cycle.from
        /\ e.to = Cycle.to /\ e.snapshot = Cycle.snapshot
    BY <1>3, Zenon DEF CycleType
  <2> HIDE DEF e
  <2>3. CycleSound(e) /\ End(e) = End(Cycle)
    BY <1>3, <2>2 DEF CycleSound, End
  <2>4. Offloaded
    <3>1. ~Offloaded => Cycle.token = "none"
      BY DEF Cycle
    <3> QED
      BY <1>0, <1>6, <3>1 DEF QueueSound
  <2>5. \/ e.token = "queued"
        \/ pending # << >> /\ e.upto = disk.written
    BY <1>3, <1>4, <1>6, <2>2, <2>4
  <2>6. QueueSound(Append(pending, e), Persisted)
    BY <1>0, <1>1, <1>3, <1>4, <2>2, <2>3, <2>4, <2>5, AppendIsSound
  <2>7. Chained(AfterReady, Append(pending, e), handed)
    <3> DEFINE q == Append(pending, e)
               n == Len(pending)
    <3>1. /\ n \in Nat /\ q # << >> /\ Len(q) = n + 1 /\ q[n + 1] = e
          /\ \A k \in 1 .. n : q[k] = pending[k]
          /\ n = 0 <=> pending = << >>
      BY <1>1, <2>2, EmptyByLen
    <3> HIDE DEF q
    <3>2. AfterReady.since = End(q[n + 1])
      BY <1>3, <2>3, <3>1
    <3>3. q[1].from = handed + 1
      <4>1. CASE n = 0
        BY <1>0, <1>3, <2>2, <3>1, <4>1 DEF Chained
      <4>2. CASE n # 0
        BY <1>0, <3>1, <4>2 DEF Chained
      <4> QED
        BY <4>1, <4>2
    <3>4. ASSUME NEW k \in 1 .. n PROVE q[k + 1].from = End(q[k]) + 1
      <4>1. CASE k = n
        <5>1. raft.since = End(pending[n]) /\ q[k] = pending[n] /\ q[k + 1] = e
          BY <1>0, <3>1, <4>1 DEF Chained
        <5> QED
          BY <1>3, <2>2, <5>1
      <4>2. CASE k \in 1 .. n - 1
        <5>1. q[k] = pending[k] /\ q[k + 1] = pending[k + 1]
          BY <3>1, <4>2
        <5> QED
          BY <1>0, <4>2, <5>1 DEF Chained
      <4> QED
        BY <3>1, <4>1, <4>2
    <3> QED
      <4>1. Len(q) = n + 1 /\ q # << >>
        BY <3>1
      <4> QED
        BY <3>1, <3>2, <3>3, <3>4, <4>1 DEF Chained, q
  <2>8. TypeOK'
    <3>1. /\ Append(pending, e) \in Seq(CycleType)
          /\ Len(Append(pending, e)) = Len(pending) + 1 /\ Len(pending) \in Nat
      BY <1>1, <2>2
    <3>2. Len(pending') <= MaxInFlight
      BY <1>0, <1>m, <2>1, <3>1
    <3> QED
      BY <1>0, <1>3, <1>4, <2>1, <3>1, <3>2 DEF TypeOK, Disk
  <2> QED
    BY <1>0, <1>1, <1>3, <1>4, <1>5, <2>1, <2>6, <2>7, <2>8
    DEF IInv, AcksAreDurable, PersistedIsDurable, HandOutIsSound
<1>7. CASE pending = << >> /\ Cycle.token = "none"
  <2>1. pending' = << >> /\ Finish(AfterReady, Cycle, Persisted)
    BY <1>7 DEF StepSubmit
  <2>2. disk.durable = disk.written /\ raft.since = handed /\ ~disk.failed
    BY <1>0, <1>7 DEF QueueSound, Chained, FailureKept
  <2>3. Persisted.durable = Persisted.written
    BY <1>m, <1>4, <1>7, <2>2
  <2>4. Cycle.upto <= Persisted.durable /\ Cycle.from = handed + 1
    BY <1>m, <1>3, <1>4, <2>2, <2>3 DEF Disk, Index
  <2>5. /\ raft' \in Raft
        /\ raft' = [AfterReady EXCEPT !.persisted = raft'.persisted,
                                      !.applied = raft'.applied]
        /\ raft'.persisted <= Persisted.durable
        /\ acked' \in Index /\ acked' <= Persisted.durable
        /\ handed' \in Index /\ handed' <= Persisted.durable
        /\ skipped' = FALSE
        /\ phase' \in {"up", "panicked"}
        /\ phase' = "up" => handed' = End(Cycle)
    BY <1>0, <1>1, <1>3, <1>4, <1>5, <2>1, <2>4, FinishIsSound, Zenon
  <2>6. /\ raft'.last = AfterReady.last /\ raft'.stable = AfterReady.stable
        /\ raft'.committed = AfterReady.committed
        /\ raft'.since = AfterReady.since
        /\ raft'.snapshot = AfterReady.snapshot /\ raft'.ack = AfterReady.ack
        /\ raft'.dirty = AfterReady.dirty
    BY <1>3, <2>5, Zenon DEF Raft
  <2>7. RaftSound(raft', disk'.written)
    BY <1>0, <1>3, <1>4, <2>6 DEF RaftSound
  <2>8. QueueSound(pending', disk')
    BY <1>0, <1>4, <2>1, <2>2, <2>3 DEF QueueSound, FailureKept
  <2>9. phase' = "up" => Chained(raft', pending', handed')
    BY <1>3, <2>1, <2>5, <2>6 DEF Chained
  <2>10. TypeOK'
    BY <1>0, <1>1, <1>4, <1>7, <2>1, <2>5, Zenon DEF TypeOK, Disk
  <2> QED
    BY <1>0, <1>4, <2>5, <2>7, <2>8, <2>9, <2>10
    DEF IInv, AcksAreDurable, PersistedIsDurable, HandOutIsSound
<1> QED
  BY <1>3, <1>6, <1>7

-----------------------------------------------------------------------------
(* The storage and the process                                             *)

\* A flush, whether it succeeds or fails, keeps the invariant.
LEMMA FlushKeepsInv ==
    ASSUME IInv, NEW n \in 1 .. MaxInFlight, NEW ok \in BOOLEAN, Flush(n, ok)
    PROVE  IInv'
<1>m. MaxIndex \in Nat /\ MaxInFlight \in Nat
  BY PipelineAssumption
<1>0. /\ TypeOK /\ RaftSound(raft, disk.written) /\ DiskSound(disk)
      /\ QueueSound(pending, disk) /\ (phase = "up" => Chained(raft, pending, handed))
      /\ AcksAreDurable /\ PersistedIsDurable /\ HandOutIsSound
  BY DEF IInv
<1>1. /\ raft \in Raft /\ disk \in Disk /\ pending \in Seq(CycleType)
      /\ acked \in Index /\ handed \in Index
  BY <1>0 DEF TypeOK, Disk
<1> DEFINE len == Len(pending)
           new == IF ok THEN "ok" ELSE "failed"
<1>2. /\ len \in Nat /\ DOMAIN pending = 1 .. len
      /\ \A k \in 1 .. len : pending[k] \in CycleType
      /\ n \in 1 .. len /\ pending[n].token = "queued"
      /\ UNCHANGED <<raft, acked, handed, skipped, phase, crashes>>
  BY <1>1 DEF Flush, Queued
<1>3. pending' = [k \in 1 .. len |->
                    IF k <= n /\ pending[k].token = "queued"
                    THEN [pending[k] EXCEPT !.token = new] ELSE pending[k]]
  BY <1>2 DEF Flush, Queued
<1> HIDE DEF len
<1>4. ASSUME NEW k \in 1 .. len
      PROVE  /\ pending'[k] \in CycleType
             /\ pending'[k].last_entry = pending[k].last_entry
             /\ pending'[k].upto = pending[k].upto
             /\ pending'[k].ack = pending[k].ack
             /\ pending'[k].from = pending[k].from
             /\ pending'[k].to = pending[k].to
             /\ pending'[k].snapshot = pending[k].snapshot
             /\ pending'[k].token = IF k <= n /\ pending[k].token = "queued"
                                    THEN new ELSE pending[k].token
  <2>1. pending[k] \in CycleType
    BY <1>2
  <2>2. CASE k <= n /\ pending[k].token = "queued"
    <3>1. pending'[k] = [pending[k] EXCEPT !.token = new]
      BY <1>3, <2>2
    <3> QED
      BY <2>1, <2>2, <3>1 DEF CycleType
  <2>3. CASE ~(k <= n /\ pending[k].token = "queued")
    <3>1. pending'[k] = pending[k]
      BY <1>3, <2>3
    <3> QED
      BY <2>1, <2>3, <3>1
  <2> QED
    BY <2>2, <2>3
<1>5. /\ pending' \in Seq(CycleType) /\ Len(pending') = len
      /\ DOMAIN pending' = 1 .. len
  <2>1. pending' \in [1 .. len -> CycleType]
    BY <1>3, <1>4
  <2> QED
    BY <1>2, <2>1
<1>6. /\ disk' \in Disk /\ disk'.written = disk.written
      /\ disk'.snapshot = disk.snapshot
      /\ disk.durable <= disk'.durable /\ disk'.durable <= disk.written
      /\ ok /\ ~disk.failed => pending[n].upto <= disk'.durable /\ ~disk'.failed
      /\ ok /\ disk.failed => disk'.failed
      /\ ~ok => disk'.failed
  <2>a. {disk.written, disk.durable, pending[n].upto} \subseteq Index
    BY <1>1, <1>2 DEF Disk, CycleType
  <2>b. pending[n].upto <= disk.written /\ disk.durable <= disk.written
    <3>1. /\ pending[n].upto <= pending[len].upto /\ pending[len].upto = disk.written
      <4>1. QueueSound(pending, disk)
        BY <1>0
      <4>2. n \in 1 .. len /\ len \in 1 .. len
        BY <1>2
      <4> QED
        BY ONLY <1>2, <4>1, <4>2 DEF QueueSound, len
    <3> QED
      BY <1>0, <3>1 DEF DiskSound
  <2>c. disk' = IF ~ok THEN [disk EXCEPT !.failed = TRUE]
                ELSE IF disk.failed THEN disk
                ELSE [disk EXCEPT !.durable = Most(@, pending[n].upto)]
    BY DEF Flush
  <2>d. \A i \in Index : i \in Int
    BY <1>m DEF Index
  <2>1. CASE ~ok
    <3>1. /\ disk' \in Disk /\ disk'.written = disk.written /\ disk'.failed
          /\ disk'.snapshot = disk.snapshot /\ disk'.durable = disk.durable
      BY <1>1, <2>1, <2>c, Zenon DEF Disk
    <3> QED
      BY <2>1, <2>a, <2>b, <2>d, <3>1
  <2>2. CASE ok /\ disk.failed
    <3>1. disk' = disk
      BY <2>2, <2>c
    <3> QED
      BY <1>1, <2>2, <2>a, <2>b, <2>d, <3>1
  <2>3. CASE ok /\ ~disk.failed
    <3>1. disk' = [disk EXCEPT !.durable = Most(disk.durable, pending[n].upto)]
      BY <2>3, <2>c
    <3>2. /\ Most(disk.durable, pending[n].upto) \in Index
          /\ disk.durable <= Most(disk.durable, pending[n].upto)
          /\ pending[n].upto <= Most(disk.durable, pending[n].upto)
          /\ Most(disk.durable, pending[n].upto) <= disk.written
      BY <2>a, <2>b, <2>d DEF Most
    <3>3. /\ disk' \in Disk /\ disk'.written = disk.written
          /\ disk'.failed = disk.failed /\ disk'.snapshot = disk.snapshot
          /\ disk'.durable = Most(disk.durable, pending[n].upto)
      BY <1>1, <3>1, <3>2 DEF Disk
    <3> QED
      BY <2>3, <3>2, <3>3
  <2> QED
    BY <2>1, <2>2, <2>3
<1>7. /\ {disk.durable, disk'.durable, disk.written, disk.snapshot} \subseteq Int
      /\ \A k \in 1 .. len : pending[k].upto \in Int
  <2>1. {disk.durable, disk'.durable, disk.written, disk.snapshot} \subseteq Index
    BY <1>1, <1>6 DEF Disk
  <2> QED
    BY <1>2, <1>m, <2>1, UptoIsInt DEF Index
<1>8. ASSUME NEW k \in 1 .. len PROVE CycleSound(pending'[k])
  BY <1>0, <1>2, <1>4 DEF QueueSound, CycleSound
<1>9. ASSUME NEW k \in 1 .. len PROVE Covered(pending', disk', k)
  <2>0. Covered(pending, disk, k)
    BY <1>0, <1>2 DEF QueueSound
  <2>1. CASE pending[k].upto <= disk.durable
    BY <1>4, <1>6, <1>7, <2>1 DEF Covered
  <2>2. ASSUME NEW j \in 1 .. k, pending[j].token = "failed"
        PROVE  Covered(pending', disk', k)
    BY <1>2, <1>4, <2>2 DEF Covered
  <2>3. ASSUME NEW j \in 1 .. k, pending[j].token = "queued",
               pending[k].upto <= pending[j].upto
        PROVE  Covered(pending', disk', k)
    <3>0. j \in 1 .. len
      BY <1>2
    <3>1. CASE j > n
      <4>1. pending'[j].token = "queued" /\ pending'[k].upto <= pending'[j].upto
        BY <1>2, <1>4, <2>3, <3>0, <3>1
      <4> QED
        BY <4>1 DEF Covered
    <3>2. CASE j <= n /\ ~ok
      <4>1. pending'[j].token = "failed"
        BY <1>4, <2>3, <3>0, <3>2
      <4> QED
        BY <4>1 DEF Covered
    <3>3. CASE j <= n /\ ok /\ ~disk.failed
      <4>1. pending[j].upto <= pending[n].upto
        BY <1>0, <1>2, <3>0, <3>3 DEF QueueSound
      <4>2. pending'[k].upto <= disk'.durable
        <5>1. pending'[k].upto = pending[k].upto
          BY <1>2, <1>4
        <5>2. pending[n].upto <= disk'.durable
          BY <1>6, <3>3
        <5>3. {pending[k].upto, pending[j].upto, pending[n].upto, disk'.durable} \subseteq Int
          BY <1>2, <1>7, <3>0
        <5> QED
          BY ONLY <2>3, <4>1, <5>1, <5>2, <5>3
      <4> QED
        BY <4>2 DEF Covered
    <3>4. CASE disk.failed
      <4>1. PICK f \in 1 .. len : /\ pending[f].token = "failed"
                                  /\ \A i \in 1 .. f : pending[i].token # "queued"
        BY <1>0, <1>2, <3>4 DEF QueueSound, FailureKept
      <4>2. f \in 1 .. k
        BY <1>2, <2>3, <3>0, <4>1
      <4> QED
        BY <2>2, <4>1, <4>2
    <3> QED
      BY <1>2, <3>0, <3>1, <3>2, <3>3, <3>4
  <2> QED
    BY <2>0, <2>1, <2>2, <2>3 DEF Covered
<1>10. FailureKept(pending', disk')
  <2>1. CASE ~ok
    <3>1. n \in 1 .. len /\ pending'[n].token = "failed"
      BY <1>2, <1>4, <2>1
    <3>2. \A j \in 1 .. n : pending'[j].token # "queued"
      BY <1>2, <1>4, <2>1
    <3> QED
      BY <1>5, <3>1, <3>2 DEF FailureKept
  <2>2. CASE ok /\ disk.failed
    <3>1. PICK f \in 1 .. len : /\ pending[f].token = "failed"
                                /\ \A i \in 1 .. f : pending[i].token # "queued"
      BY <1>0, <1>2, <2>2 DEF QueueSound, FailureKept
    <3>2. pending'[f].token = "failed"
      BY <1>4, <3>1
    <3>3. \A i \in 1 .. f : pending'[i].token # "queued"
      BY <1>2, <1>4, <3>1
    <3> QED
      BY <1>5, <3>2, <3>3 DEF FailureKept
  <2>3. CASE ok /\ ~disk.failed
    BY <1>6, <2>3 DEF FailureKept
  <2> QED
    BY <2>1, <2>2, <2>3
<1>11. QueueSound(pending', disk')
  <2>1. \A j, k \in 1 .. len : j <= k => pending'[j].upto <= pending'[k].upto
    BY <1>0, <1>2, <1>4 DEF QueueSound
  <2>2. pending # << >> /\ pending' # << >> /\ len >= 1 /\ len \in 1 .. len
    BY <1>2, <1>5
  <2>3. pending'[len].upto = disk'.written
    BY <1>0, <1>4, <1>6, <2>2, Zenon DEF QueueSound, len
  <2>4. Offloaded
    BY <1>0, <2>2 DEF QueueSound
  <2> QED
    BY <1>5, <1>8, <1>9, <1>10, <2>1, <2>2, <2>3, <2>4 DEF QueueSound
<1>12. Chained(raft', pending', handed')
  <2>1. Chained(raft, pending, handed) /\ pending # << >> /\ pending' # << >>
    BY <1>0, <1>2, <1>5 DEF Flush
  <2>2. \A k \in 1 .. len : End(pending'[k]) = End(pending[k])
    BY <1>4 DEF End
  <2>3. 1 \in 1 .. len /\ len \in 1 .. len /\ \A k \in 1 .. len - 1 : k + 1 \in 1 .. len
    BY <1>2
  <2>4. pending'[1].from = handed' + 1 /\ raft'.since = End(pending'[len])
    BY <1>2, <1>4, <2>1, <2>2, <2>3 DEF Chained, len
  <2>5. ASSUME NEW k \in 1 .. len - 1
        PROVE  pending'[k + 1].from = End(pending'[k]) + 1
    <3>1. pending[k + 1].from = End(pending[k]) + 1
      BY <2>1 DEF Chained, len
    <3> QED
      BY <1>2, <1>4, <2>2, <2>3, <3>1
  <2> QED
    BY <1>5, <2>1, <2>4, <2>5 DEF Chained
<1>13. TypeOK'
  <2>1. Len(pending') <= MaxInFlight
    BY <1>0, <1>5 DEF TypeOK, len
  <2> QED
    BY <1>0, <1>2, <1>5, <1>6, <2>1 DEF TypeOK, Disk
<1>14. RaftSound(raft', disk'.written) /\ DiskSound(disk')
  <2>1. RaftSound(raft, disk.written) /\ DiskSound(disk) /\ raft' = raft
    BY <1>0, <1>2
  <2>2. RaftSound(raft', disk'.written)
    BY ONLY <1>6, <2>1, Zenon
  <2> QED
    BY ONLY <1>6, <1>7, <2>1, <2>2 DEF DiskSound
<1>15. AcksAreDurable' /\ PersistedIsDurable' /\ HandOutIsSound'
  <2>1. {acked, handed, raft.persisted} \subseteq Int
    BY <1>1, <1>m DEF Raft, Index
  <2> QED
    BY <1>0, <1>2, <1>6, <1>7, <2>1
    DEF AcksAreDurable, PersistedIsDurable, HandOutIsSound
<1> QED
  BY <1>11, <1>12, <1>13, <1>14, <1>15 DEF IInv

\* A snapshot of what was handed out keeps the invariant.
LEMMA SnapshotKeepsInv ==
    ASSUME IInv, CreateSnapshot
    PROVE  IInv'
<1>0. /\ TypeOK /\ disk \in Disk /\ handed \in Index /\ handed <= disk.durable
      /\ DiskSound(disk) /\ QueueSound(pending, disk)
      /\ UNCHANGED <<raft, pending, acked, handed, skipped, phase, crashes>>
  BY DEF IInv, TypeOK, Disk, HandOutIsSound, CreateSnapshot
<1>1. /\ disk' \in Disk /\ disk'.snapshot = handed /\ disk'.failed = disk.failed
      /\ disk'.written = disk.written /\ disk'.durable = disk.durable
  BY <1>0 DEF CreateSnapshot, Disk
<1>2. DiskSound(disk')
  BY <1>0, <1>1 DEF DiskSound
<1>3. \A k \in DOMAIN pending : Covered(pending, disk, k) => Covered(pending, disk', k)
  BY <1>1 DEF Covered
<1>4. QueueSound(pending', disk')
  BY <1>0, <1>1, <1>3 DEF QueueSound, FailureKept
<1>5. TypeOK'
  BY <1>0, <1>1 DEF TypeOK, Disk
<1> QED
  BY <1>0, <1>1, <1>2, <1>4, <1>5
  DEF IInv, AcksAreDurable, PersistedIsDurable, HandOutIsSound

\* A restart from whatever the disk kept keeps the invariant.
LEMMA RestartKeepsInv ==
    ASSUME IInv, NEW last \in Index, NEW committed \in Index,
           Restart(last, committed)
    PROVE  IInv'
<1>m. MaxIndex \in Nat /\ MaxInFlight \in Nat /\ MaxCrashes \in Nat
  BY PipelineAssumption
<1>0. /\ TypeOK /\ disk \in Disk /\ DiskSound(disk) /\ acked \in Index
      /\ AcksAreDurable /\ skipped = FALSE /\ crashes \in 0 .. MaxCrashes
  BY DEF IInv, TypeOK, Disk, HandOutIsSound
<1>1. /\ crashes < MaxCrashes /\ crashes' = crashes + 1
      /\ last \in disk.durable .. disk.written
      /\ committed \in disk.snapshot .. Least(last, raft.committed)
      /\ raft' = NewRaft(last, committed, disk.snapshot)
      /\ disk' = [disk EXCEPT !.written = last, !.durable = last, !.failed = FALSE]
      /\ pending' = << >> /\ handed' = disk.snapshot /\ phase' = "up"
      /\ UNCHANGED <<acked, skipped>>
  BY DEF Restart
<1>2. {disk.written, disk.durable, disk.snapshot, acked, last, committed,
       raft.committed, 0} \subseteq Index
  BY <1>0, <1>m DEF Disk, TypeOK, Raft, Index
<1>3. /\ disk' \in Disk /\ disk'.written = last /\ disk'.durable = last
      /\ disk'.snapshot = disk.snapshot /\ disk'.failed = FALSE
  BY <1>0, <1>1, Zenon DEF Disk
<1>4. disk.snapshot <= last /\ acked <= last /\ committed <= last
  BY <1>0, <1>1, <1>2, <1>m DEF DiskSound, AcksAreDurable, Least, Index
<1>5. /\ raft' \in Raft /\ raft'.last = last /\ raft'.stable = last
      /\ raft'.committed = committed /\ raft'.persisted = last
      /\ raft'.since = disk.snapshot /\ raft'.snapshot = 0 /\ raft'.ack = 0
  BY <1>1, <1>2 DEF NewRaft, Raft
<1>6. RaftSound(raft', disk'.written) /\ DiskSound(disk')
  BY <1>2, <1>3, <1>4, <1>5, <1>m DEF RaftSound, DiskSound, Index
<1>7. QueueSound(pending', disk') /\ Chained(raft', pending', handed')
  BY <1>1, <1>3, <1>5 DEF QueueSound, FailureKept, Chained
<1>8. TypeOK'
  BY <1>0, <1>1, <1>2, <1>3, <1>5, <1>m DEF TypeOK, Disk
<1>9. AcksAreDurable' /\ PersistedIsDurable' /\ HandOutIsSound'
  BY <1>0, <1>1, <1>2, <1>3, <1>4, <1>5, <1>m
  DEF AcksAreDurable, PersistedIsDurable, HandOutIsSound, Index
<1> QED
  BY <1>6, <1>7, <1>8, <1>9 DEF IInv

-----------------------------------------------------------------------------

\* The invariant holds in every reachable state.
LEMMA IInvHolds == Spec => []IInv
<1>m. MaxIndex \in Nat /\ MaxInFlight \in Nat /\ MaxCrashes \in Nat
  BY PipelineAssumption
<1>1. Init => IInv
  <2> SUFFICES ASSUME Init PROVE IInv
    OBVIOUS
  <2>1. /\ raft \in Raft /\ raft.last = 0 /\ raft.stable = 0 /\ raft.ack = 0
        /\ raft.committed = 0 /\ raft.persisted = 0 /\ raft.since = 0
        /\ raft.snapshot = 0
    BY <1>m DEF Init, NewRaft, Raft, Index
  <2>2. /\ disk \in Disk /\ disk.written = 0 /\ disk.durable = 0
        /\ disk.snapshot = 0 /\ disk.failed = FALSE
    BY <1>m DEF Init, Disk, Index
  <2>3. TypeOK
    <3>1. 0 \in Index /\ 0 \in 0 .. MaxCrashes /\ << >> \in Seq(CycleType)
      BY <1>m DEF Index
    <3>2. Len(pending) <= MaxInFlight
      BY <1>m DEF Init
    <3> QED
      BY <2>1, <2>2, <3>1, <3>2, Zenon DEF Init, TypeOK, Disk
  <2>4. RaftSound(raft, disk.written) /\ DiskSound(disk)
    BY <2>1, <2>2 DEF RaftSound, DiskSound
  <2>5. QueueSound(pending, disk) /\ Chained(raft, pending, handed)
    BY <2>1, <2>2 DEF Init, QueueSound, FailureKept, Chained
  <2>6. AcksAreDurable /\ PersistedIsDurable /\ HandOutIsSound
    BY <2>1, <2>2 DEF Init, AcksAreDurable, PersistedIsDurable, HandOutIsSound
  <2> QED
    BY <2>3, <2>4, <2>5, <2>6 DEF IInv
<1>2. IInv /\ [Next]_vars => IInv'
  <2> SUFFICES ASSUME IInv, [Next]_vars PROVE IInv'
    OBVIOUS
  <2>1. CASE UNCHANGED vars
    <3>1. /\ raft' = raft /\ pending' = pending /\ disk' = disk /\ acked' = acked
          /\ handed' = handed /\ skipped' = skipped /\ phase' = phase
          /\ crashes' = crashes
      BY <2>1 DEF vars
    <3> QED
      BY <3>1 DEF IInv, TypeOK, AcksAreDurable, PersistedIsDurable, HandOutIsSound
  <2>2. CASE Next
    BY <2>2, InputKeepsInv, FinishKeepsInv, SubmitKeepsInv, FlushKeepsInv,
       SnapshotKeepsInv, RestartKeepsInv DEF Next
  <2> QED
    BY <2>1, <2>2
<1> QED
  BY <1>1, <1>2, PTL DEF Spec

\* Types are kept: raft's indexes, the queued cycles and the disk.
THEOREM TypeCorrect == Spec => []TypeOK
<1>1. IInv => TypeOK
  BY DEF IInv
<1> QED
  BY <1>1, IInvHolds, PTL

\* An acknowledgement leaves the node only when every entry it covers is
\* durable (finish_persisted), however many cycles are in flight, whichever
\* flushes fail and wherever the process restarts.
THEOREM AcksDurable == Spec => []AcksAreDurable
<1>1. IInv => AcksAreDurable
  BY DEF IInv
<1> QED
  BY <1>1, IInvHolds, PTL

\* Raft counts the node's own log towards a quorum only as far as a restart
\* would bring it back (on_persist_ready).
THEOREM PersistedDurable == Spec => []PersistedIsDurable
<1>1. IInv => PersistedIsDurable
  BY DEF IInv
<1> QED
  BY <1>1, IInvHolds, PTL

\* What step() hands out has no gap and no repeat, and is on disk.
THEOREM HandOutSound == Spec => []HandOutIsSound
<1>1. IInv => HandOutIsSound
  BY DEF IInv
<1> QED
  BY <1>1, IInvHolds, PTL

\* What is durable stays so: no flush, installed snapshot or restart takes an
\* entry back, so an acknowledgement is kept for good.
THEOREM DurableIsKept == Spec => [][disk.durable <= disk'.durable]_vars
<1>1. IInv /\ [Next]_vars => [disk.durable <= disk'.durable]_vars
  <2> SUFFICES ASSUME IInv, Next PROVE disk.durable <= disk'.durable
    OBVIOUS
  <2>0. /\ raft \in Raft /\ disk \in Disk /\ DiskSound(disk)
        /\ RaftSound(raft, disk.written) /\ disk.durable \in Int
    <3>1. raft \in Raft /\ disk \in Disk
      BY DEF IInv, TypeOK, Disk
    <3>2. disk.durable \in Int
      BY <3>1, PipelineAssumption DEF Disk, Index
    <3> QED
      BY <3>1, <3>2 DEF IInv
  <2>1. ASSUME disk' = disk PROVE disk.durable <= disk'.durable
    BY <2>0, <2>1
  <2>2. CASE StepSubmit
    BY <2>0, <2>2, PersistedDisk DEF StepSubmit
  <2>3. ASSUME NEW n \in 1 .. MaxInFlight, NEW ok \in BOOLEAN, Flush(n, ok)
        PROVE  disk.durable <= disk'.durable
    <3>1. n \in DOMAIN pending /\ pending \in Seq(CycleType)
      BY <2>3 DEF Flush, IInv, TypeOK
    <3>2. pending[n].upto \in Int
      BY <3>1, UptoIsInt
    <3>3. disk' = IF ~ok THEN [disk EXCEPT !.failed = TRUE]
                  ELSE IF disk.failed THEN disk
                  ELSE [disk EXCEPT !.durable = Most(disk.durable, pending[n].upto)]
      BY <2>3 DEF Flush
    <3>4. disk'.durable \in {disk.durable, Most(disk.durable, pending[n].upto)}
      BY <2>0, <3>3 DEF Disk
    <3> QED
      BY <2>0, <3>2, <3>4 DEF Most
  <2>4. CASE CreateSnapshot
    <3>1. disk'.durable = disk.durable
      BY <2>0, <2>4 DEF CreateSnapshot, Disk
    <3> QED
      BY <2>0, <3>1
  <2>5. ASSUME NEW last \in Index, NEW committed \in Index, Restart(last, committed)
        PROVE  disk.durable <= disk'.durable
    <3>1. disk'.durable = last /\ last \in disk.durable .. disk.written
      BY <2>0, <2>5 DEF Restart, Disk
    <3> QED
      BY <2>0, <3>1
  <2>6. CASE \/ \E i \in Index : AppendEntries(i) \/ RepeatAppend(i) \/ CommitTo(i)
             \/ \E s \in Snapshots : ReceiveSnapshot(s)
             \/ Propose \/ BroadcastHeartbeat \/ BecomeLeader \/ StepDown
             \/ StepFinish
    <3>1. disk' = disk
      BY <2>6, Zenon DEF AppendEntries, RepeatAppend, CommitTo, ReceiveSnapshot, Propose,
            BroadcastHeartbeat, BecomeLeader, StepDown, StepFinish, Receive
    <3> QED
      BY <2>1, <3>1
  <2> QED
    BY <2>2, <2>3, <2>4, <2>5, <2>6 DEF Next
<1> QED
  BY <1>1, IInvHolds, PTL DEF Spec
=============================================================================
