---------------------------- MODULE ReadyPipeline ---------------------------
(***************************************************************************)
(* RaftNode::step of arachne/src/consensus/node.rs: the pipeline of Ready  *)
(* cycles whose records are written and whose flush is still in the air.   *)
(* A cycle's messages, and the committed entries it hands to the state     *)
(* machine, leave when the cycle reaches the front and its flush landed.   *)
(*                                                                         *)
(* Raft (third_party/raft) and the storage are external here: raft is the  *)
(* indexes RawNode keeps, the disk is how far the log is written and how   *)
(* far it is durable.  Terms, and the overwriting of a suffix, are left to *)
(* WalStorage; an index stands for the entry at it.                        *)
(***************************************************************************)
EXTENDS Integers, Sequences

CONSTANTS
    MaxIndex,       \* bound on log indexes
    MaxInFlight,    \* MAX_IN_FLIGHT_READIES
    MaxCrashes,     \* bound on restarts
    Snapshots,      \* indexes at which a leader may send a snapshot
    Offloaded,      \* the storage flushes off-thread
    FlushMayFail    \* whether the device may fail a flush

ASSUME PipelineAssumption ==
    /\ MaxIndex \in Nat /\ MaxCrashes \in Nat
    /\ MaxInFlight \in Nat \ {0}
    /\ Snapshots \subseteq 1 .. MaxIndex
    /\ {Offloaded, FlushMayFail} \subseteq BOOLEAN

Index == 0 .. MaxIndex

VARIABLES
    raft,     \* RawNode
    pending,  \* self.pending: cycles written and not finished, oldest first
    disk,     \* the storage
    acked,    \* history: the highest index acknowledged to a leader
    handed,   \* last index handed out of step() since the node started
    skipped,  \* history: a hand-out did not continue where the last one ended
    phase,    \* "up", or how the node stopped
    crashes   \* restarts so far

vars == <<raft, pending, disk, acked, handed, skipped, phase, crashes>>

Least(a, b) == IF a < b THEN a ELSE b
Most(a, b) == IF a < b THEN b ELSE a

-----------------------------------------------------------------------------
(* The raft library, as far as the pipeline sees it.                       *)

(***************************************************************************)
(* last and stable are the ends of raft's log and of the part of it given  *)
(* to the storage; since is commit_since_index, the end of what Readies    *)
(* have handed out; snapshot is the unstable snapshot (0 for none); dirty  *)
(* says that the HardState has moved since the last Ready.  Of the waiting *)
(* messages, ack is the highest index an append response acknowledges, and *)
(* fast says that a leader's message (append, heartbeat) is among them.    *)
(***************************************************************************)
NewRaft(last, committed, base) ==
    [role |-> "follower", last |-> last, stable |-> last,
     committed |-> committed, persisted |-> last, since |-> base,
     applied |-> base, snapshot |-> 0, ack |-> 0, fast |-> FALSE,
     dirty |-> FALSE]

Deliverable(r) == Least(r.committed, r.persisted)

HasReady ==
    \/ raft.ack # 0 \/ raft.fast
    \/ raft.dirty
    \/ raft.last > raft.stable
    \/ raft.snapshot # 0
    \/ Deliverable(raft) > raft.since

\* A Ready that carries a snapshot carries no committed entries.
ReadySince == IF raft.snapshot # 0 THEN raft.snapshot
              ELSE Most(raft.since, Deliverable(raft))

\* Mutant: advance_append instead of advance_append_async.
AfterReadyPersisted ==
    [raft EXCEPT !.stable = raft.last, !.since = ReadySince, !.snapshot = 0,
                 !.ack = 0, !.fast = FALSE, !.dirty = FALSE,
                 !.persisted = raft.last]

AfterReady == [raft EXCEPT !.stable = raft.last, !.since = ReadySince,
                           !.snapshot = 0, !.ack = 0, !.fast = FALSE,
                           !.dirty = FALSE]

\* on_persist_ready(c.number): a cycle's last entry counts as persisted unless
\* newer entries or a newer snapshot have replaced it.
PersistedBy(r, c, d) ==
    LET snap  == Most(r.persisted, c.snapshot)
        bound == IF r.snapshot # 0 THEN r.snapshot ELSE r.stable + 1
    IN  IF c.last_entry > snap /\ c.last_entry < bound /\ c.last_entry >= d.snapshot
        THEN c.last_entry ELSE snap

OnPersistReady(r, c, d) == [r EXCEPT !.persisted = PersistedBy(r, c, d)]

\* advance_apply moves applied to since, and raft refuses (it panics) an index
\* it does not hold as committed and persisted.
AdvanceApplyPanics(r) == r.since > Deliverable(r)
AdvanceApply(r) == [r EXCEPT !.applied = r.since]

-----------------------------------------------------------------------------
(* The inputs of raft.                                                     *)

Receive == UNCHANGED <<pending, disk, acked, handed, skipped, phase, crashes>>

\* A follower accepts entries up to i and answers when they are durable.
AppendEntries(i) ==
    /\ phase = "up" /\ raft.role = "follower"
    /\ i > raft.last
    /\ raft' = [raft EXCEPT !.last = i, !.ack = i]
    /\ Receive

\* A retransmitted append (or a heartbeat) is answered with no new record.
RepeatAppend(i) ==
    /\ phase = "up" /\ raft.role = "follower"
    /\ i \in raft.committed .. raft.last
    /\ raft' = [raft EXCEPT !.ack = Most(@, i)]
    /\ Receive

Propose ==
    /\ phase = "up" /\ raft.role = "leader"
    /\ raft.last < MaxIndex
    /\ raft' = [raft EXCEPT !.last = @ + 1, !.fast = TRUE]
    /\ Receive

\* A heartbeat round (a ReadIndex request starts one) writes no record.
BroadcastHeartbeat ==
    /\ phase = "up" /\ raft.role = "leader"
    /\ raft' = [raft EXCEPT !.fast = TRUE]
    /\ Receive

CommitTo(i) ==
    /\ phase = "up"
    /\ i > raft.committed /\ i <= raft.last
    /\ raft' = [raft EXCEPT !.committed = i, !.dirty = TRUE]
    /\ Receive

\* Raft::restore: the log is replaced at once, in memory.
ReceiveSnapshot(s) ==
    /\ phase = "up" /\ raft.role = "follower"
    /\ s > raft.last
    /\ raft' = [raft EXCEPT !.last = s, !.stable = s, !.committed = s,
                            !.persisted = Least(@, raft.committed),
                            !.snapshot = s, !.ack = s, !.dirty = TRUE]
    /\ Receive

\* The vote requests that elect a leader left in a Ready of their own, so
\* nothing older is waiting when it takes office.
BecomeLeader ==
    /\ phase = "up" /\ raft.role = "follower"
    /\ raft.ack = 0 /\ raft.snapshot = 0 /\ raft.last = raft.persisted
    /\ raft' = [raft EXCEPT !.role = "leader", !.dirty = TRUE]
    /\ Receive

StepDown ==
    /\ phase = "up" /\ raft.role = "leader"
    /\ raft' = [raft EXCEPT !.role = "follower", !.dirty = TRUE]
    /\ Receive

-----------------------------------------------------------------------------
(* submit_ready                                                            *)

HasRecords == raft.last > raft.stable \/ raft.dirty

\* Mutant: committed entries are taken from applied on, not from the end of
\* what earlier Readies handed out.
CycleFromApplied ==
    [last_entry |-> IF raft.last > raft.stable THEN raft.last ELSE 0,
     upto       |-> raft.last,
     token      |-> IF Offloaded /\ HasRecords THEN "queued" ELSE "none",
     immediate  |-> raft.role = "leader" /\ raft.fast,
     ack        |-> raft.ack,
     from       |-> raft.applied + 1,
     to         |-> IF raft.snapshot # 0 THEN raft.since ELSE ReadySince,
     snapshot   |-> raft.snapshot]

\* A leader's messages need no local durability; everyone else's do.  The
\* messages of a cycle with a flush leave at submit, so it keeps none.
Cycle ==
    [last_entry |-> IF raft.last > raft.stable THEN raft.last ELSE 0,
     upto       |-> raft.last,
     token      |-> IF Offloaded /\ HasRecords THEN "queued" ELSE "none",
     immediate  |-> raft.role = "leader" /\ raft.fast,
     ack        |-> raft.ack,
     from       |-> raft.since + 1,
     to         |-> IF raft.snapshot # 0 THEN raft.since ELSE ReadySince,
     snapshot   |-> raft.snapshot]

\* install_snapshot, always synchronous, then persist_ready_records.
Installed == IF raft.snapshot = 0 THEN disk
             ELSE [disk EXCEPT !.snapshot = raft.snapshot,
                               !.durable = raft.snapshot]

Persisted == [Installed EXCEPT !.written = raft.last,
                               !.durable = IF Offloaded THEN @ ELSE raft.last]

CanSubmit == Len(pending) < MaxInFlight /\ HasReady

-----------------------------------------------------------------------------
(* finish_persisted                                                        *)

\* Mutant: a flush that has not been reported counts as landed.
LandedEarly == pending # << >>

\* Mutant: a cycle without a flush waits for one.
LandedFlushOnly == pending # << >> /\ Head(pending).token \in {"ok", "failed"}

\* The oldest cycle wrote nothing to flush, or poll_flush has its result.
Landed == pending # << >> /\ Head(pending).token # "queued"

\* What the caller sees: the state machine is restored from the snapshot, then
\* given the committed entries above it.
HandOut(c) ==
    LET start == IF c.snapshot # 0 THEN c.snapshot ELSE handed
        from  == Most(c.from, c.snapshot + 1)
    IN  /\ handed' = IF from <= c.to THEN c.to ELSE start
        /\ skipped' = (skipped \/ (from <= c.to /\ from # start + 1))

Finish(r, c, d) ==
    LET q == OnPersistReady(r, c, d)
    IN  \/ /\ AdvanceApplyPanics(q)
           /\ phase' = "panicked"
           /\ raft' = q
           /\ UNCHANGED <<acked, handed, skipped>>
        \/ /\ ~AdvanceApplyPanics(q)
           /\ raft' = AdvanceApply(q)
           /\ acked' = Most(acked, c.ack)
           /\ HandOut(c)
           /\ phase' = phase

(***************************************************************************)
(* step().  It finishes the oldest cycle if its flush has landed.  If not, *)
(* it submits a Ready, and finishes that one at once when nothing is ahead *)
(* of it and it needs no flush.                                            *)
(***************************************************************************)
StepFinish ==
    /\ phase = "up"
    /\ Landed
    /\ \/ /\ Head(pending).token = "failed"
          /\ phase' = "failed"
          /\ UNCHANGED <<raft, pending, acked, handed, skipped>>
       \/ /\ Head(pending).token # "failed"
          /\ pending' = Tail(pending)
          /\ Finish(raft, Head(pending), disk)
    /\ UNCHANGED <<disk, crashes>>

StepSubmit ==
    /\ phase = "up"
    /\ ~Landed
    /\ CanSubmit
    /\ disk' = Persisted
    /\ \/ /\ pending # << >> \/ Cycle.token = "queued"
          /\ raft' = AfterReady
          /\ pending' = Append(pending, [Cycle EXCEPT !.immediate =
                                            @ /\ Cycle.token # "queued"])
          /\ UNCHANGED <<acked, handed, skipped, phase>>
       \/ /\ pending = << >> /\ Cycle.token = "none"
          /\ pending' = pending
          /\ Finish(AfterReady, Cycle, Persisted)
    /\ UNCHANGED crashes

-----------------------------------------------------------------------------
(* The storage and the process                                             *)

\* The flusher takes the n oldest jobs in one batch.  A flush covers what was
\* written when its cycle was submitted; after a failed one nothing more is
\* known to be durable.
Queued(k) == pending[k].token = "queued"

Flush(n, ok) ==
    /\ phase = "up"
    /\ ok \/ FlushMayFail
    /\ n \in DOMAIN pending /\ Queued(n)
    /\ pending' = [k \in DOMAIN pending |->
                    IF k <= n /\ Queued(k)
                    THEN [pending[k] EXCEPT !.token = IF ok THEN "ok" ELSE "failed"]
                    ELSE pending[k]]
    /\ disk' = IF ~ok THEN [disk EXCEPT !.failed = TRUE]
               ELSE IF disk.failed THEN disk
               ELSE [disk EXCEPT !.durable = Most(@, pending[n].upto)]
    /\ UNCHANGED <<raft, acked, handed, skipped, phase, crashes>>

\* create_snapshot at what has been handed out, which releases the log below.
CreateSnapshot ==
    /\ phase = "up"
    /\ handed > disk.snapshot
    /\ disk' = [disk EXCEPT !.snapshot = handed]
    /\ UNCHANGED <<raft, pending, acked, handed, skipped, phase, crashes>>

\* The process stops anywhere and starts again from what the disk kept: at
\* least the durable log, at most the written one.
Restart(last, committed) ==
    /\ crashes < MaxCrashes
    /\ last \in disk.durable .. disk.written
    /\ committed \in disk.snapshot .. Least(last, raft.committed)
    /\ crashes' = crashes + 1
    /\ raft' = NewRaft(last, committed, disk.snapshot)
    /\ disk' = [disk EXCEPT !.written = last, !.durable = last, !.failed = FALSE]
    /\ pending' = << >>
    /\ handed' = disk.snapshot
    /\ phase' = "up"
    /\ UNCHANGED <<acked, skipped>>

Init ==
    /\ raft = NewRaft(0, 0, 0)
    /\ pending = << >>
    /\ disk = [written |-> 0, durable |-> 0, snapshot |-> 0, failed |-> FALSE]
    /\ acked = 0
    /\ handed = 0
    /\ skipped = FALSE
    /\ phase = "up"
    /\ crashes = 0

Next ==
    \/ \E i \in Index : AppendEntries(i) \/ RepeatAppend(i) \/ CommitTo(i)
    \/ \E s \in Snapshots : ReceiveSnapshot(s)
    \/ Propose
    \/ BroadcastHeartbeat
    \/ BecomeLeader
    \/ StepDown
    \/ StepFinish
    \/ StepSubmit
    \/ \E n \in 1 .. MaxInFlight, ok \in BOOLEAN : Flush(n, ok)
    \/ CreateSnapshot
    \/ \E last, committed \in Index : Restart(last, committed)

Spec == Init /\ [][Next]_vars

\* The actor loop steps the node on every tick and flush completion, and the
\* flusher thread runs whenever it has a job.
Step == StepFinish \/ StepSubmit
FlushSome == \E n \in 1 .. MaxInFlight : Flush(n, TRUE)
FairSpec == Spec /\ WF_vars(Step) /\ WF_vars(FlushSome)

-----------------------------------------------------------------------------

Raft == [role : {"follower", "leader"}, last : Index, stable : Index,
         committed : Index, persisted : Index, since : Index, applied : Index,
         snapshot : Index, ack : Index, fast : BOOLEAN, dirty : BOOLEAN]

CycleType ==
    [last_entry : Index, upto : Index,
     token : {"none", "queued", "ok", "failed"},
     immediate : BOOLEAN, ack : Index,
     from : 1 .. MaxIndex + 1, to : Index, snapshot : Index]

\* The shape of raft's indexes, of the queued cycles and of the disk.
TypeOK ==
    /\ raft \in Raft
    /\ pending \in Seq(CycleType)
    /\ Len(pending) <= MaxInFlight
    /\ disk \in [written : Index, durable : Index, snapshot : Index,
                 failed : BOOLEAN]
    /\ acked \in Index
    /\ handed \in Index
    /\ skipped \in BOOLEAN
    /\ phase \in {"up", "failed", "panicked"}
    /\ crashes \in 0 .. MaxCrashes

\* INV2 (finish_persisted): an acknowledgement leaves the node only when every
\* entry it covers is durable, also when its own cycle wrote nothing and an
\* earlier one is still being flushed; and so a restart never takes it back.
AcksAreDurable == acked <= disk.durable

\* Raft counts the node's own log towards a quorum only as far as a restart
\* would bring it back (on_persist_ready).
PersistedIsDurable == raft.persisted <= disk.durable

\* What step() hands out continues exactly where the last hand-out ended, or
\* restarts at a snapshot, so that the state machine, which refuses any other
\* index, never sees a gap or a repeat; and it is on disk, so that a restart
\* would replay it.
HandOutIsSound == ~skipped /\ handed <= disk.durable

\* submit_ready, "sending them now is what keeps a ReadIndex round from
\* queueing behind the device": with off-thread flushes no leader message
\* waits in a queued cycle.
FastPathNotQueued ==
    Offloaded => \A k \in DOMAIN pending : ~pending[k].immediate

\* finish_persisted, "the phased path must do it explicitly now that the
\* records are durable": raft accepts every advance_apply.
ApplyAdvances == phase # "panicked"

\* An acknowledgement raft has asked for is sent, when the device works and
\* the process is not restarted.
AcksAreSent ==
    \A i \in Index : (raft.ack = i) ~> (acked >= i)

=============================================================================
