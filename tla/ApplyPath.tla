----------------------------- MODULE ApplyPath -----------------------------
(***************************************************************************)
(* The runtime actor and its apply task                                    *)
(* (arachne/src/runtime/mod.rs).                                           *)
(*                                                                         *)
(* The actor turns client commands into raft proposals, hands the entries  *)
(* raft commits to the apply task over a bounded channel, and answers      *)
(* writes and linearizable reads from what the task reports back.  The     *)
(* task owns no queue of its own: it applies one request at a time to the  *)
(* shared state machine, sends one outcome per entry and publishes its     *)
(* progress at the end of each batch.                                      *)
(*                                                                         *)
(* The state machine is its applied index: KvReplication shows that the    *)
(* index determines the state.  Bytes are counted in entries.  Raft is     *)
(* external: it commits, hands out, confirms reads and changes leaders.    *)
(***************************************************************************)
EXTENDS Integers, Sequences, FiniteSets, SequencesExt

CONSTANTS
    Sessions,       \* the (client_id, seq_no) pairs of the clients
    ApplyDepth,     \* APPLY_QUEUE_DEPTH
    OutcomeDepth,   \* the capacity of the outcome channel
    BacklogLimit,   \* proposal_queue_bytes, in entries
    SnapshotEvery,  \* snapshot_threshold_bytes, in entries; 0 is never
    MaxLog,         \* bound: entries raft commits
    MaxProposals,   \* bound: write commands received
    MaxConf,        \* bound: membership commands received
    MaxReads,       \* bound: linearizable reads received
    MaxInstalls,    \* bound: snapshots installed by raft
    MaxLeaderships  \* bound: changes of leadership

ASSUME ApplyPathAssumption ==
    /\ ApplyDepth \in Nat \ {0}
    /\ OutcomeDepth \in Nat \ {0}
    /\ BacklogLimit \in Nat \ {0}
    /\ SnapshotEvery \in Nat

VARIABLES
    log,       \* the committed log
    handed,    \* raft: the last entry handed out by RaftNode::step
    leader,    \* raft: leader_id() = raft_id
    flying,    \* raft: proposals accepted and not committed
    rounds,    \* raft: the commit index of each open ReadIndex round, by token
    rt,        \* Runtime: the actor's fields and its channels
    turn,      \* the actor: waiting in select!, or folding a command burst
    task,      \* ApplyTask: the rest of its batch and its own counters
    sm,        \* the shared state machine: its applied index
    used,      \* the bounded counters
    replies,   \* the writes the last cycle answered with an outcome
    served     \* the reads the last cycle sent to the state machine

vars == <<log, handed, leader, flying, rounds, rt, turn, task, sm, used,
          replies, served>>

-----------------------------------------------------------------------------
(* Data *)

NotYet == -1        \* an Option that is None
NotAsked == -2      \* snapshot_wait is None

Command(s) == [kind |-> "cmd", sess |-> {s}]
Conf == [kind |-> "conf", sess |-> {}]
Foreign == [kind |-> "cmd", sess |-> {}]

IsCommand(i) == log[i].kind = "cmd"

Batch(snap, entries) == [kind |-> "batch", snap |-> snap, entries |-> entries]
SnapshotRequest == [kind |-> "snapshot", snap |-> 0, entries |-> <<>>]
NoBatch == Batch(0, <<>>)

\* The index a write at index i takes effect at: the first entry that carries
\* its session, whose outcome a replay of the same session repeats.
Effective(i) ==
    CHOOSE j \in 1..i :
        /\ log[j].sess = log[i].sess
        /\ \A k \in 1..(j - 1) : log[k].sess # log[i].sess

Indices(from, upto) == [k \in 1..(upto - from) |-> from + k]

\* The waiting commands of q that have no log index yet.
Open(q) == {k \in DOMAIN q : q[k].index = NotYet}

\* The first of the positions ks of q, if any, is given index i.
AssignFirst(q, ks, i) ==
    [k \in DOMAIN q |-> IF k \in ks /\ \A m \in ks : k <= m
                        THEN [q[k] EXCEPT !.index = i] ELSE q[k]]

-----------------------------------------------------------------------------
(* Handing committed work to the apply task.  Each operator below takes    *)
(* the actor's record and returns the next one.                            *)

AttributeAnyone(r, i) ==
    LET ks == IF IsCommand(i) THEN Open(r.pending) ELSE {}
    IN  [r EXCEPT !.pending = AssignFirst(@, ks, i)]

Attribute(r, i) ==
    LET ks == {k \in Open(r.pending) : {r.pending[k].sess} = log[i].sess}
    IN  [r EXCEPT !.pending = AssignFirst(@, ks, i)]

\* The batch put aside goes first; a full channel keeps it aside.
FlushDeferred(r) ==
    IF Len(r.applies) < ApplyDepth
    THEN [r EXCEPT !.applies = Append(@, r.deferred), !.deferred = NoBatch]
    ELSE r

EnqueueApply(r, snap, entries) ==
    LET noted == IF snap = 0 THEN r
                 ELSE [r EXCEPT !.snapshotIndex = IF @ < snap THEN snap ELSE @,
                                !.bytesAtSnapshot = r.appliedBytes]
        named == FoldLeft(Attribute, noted, entries)
        batch == IF snap = 0
                 THEN Batch(r.deferred.snap, r.deferred.entries \o entries)
                 ELSE Batch(snap, entries)
    IN  IF Batch(snap, entries) = NoBatch /\ r.deferred = NoBatch THEN r
        ELSE FlushDeferred([named EXCEPT !.sentBytes = @ + Len(entries),
                                         !.deferred = batch])

\* The membership change itself runs on the actor; the state machine is sent an
\* empty entry in its place, so that its index has no hole.
ApplyConfChange(r, i) ==
    LET sent == EnqueueApply(r, 0, <<i>>)
    IN  [sent EXCEPT !.applied = IF @ < i THEN i ELSE @, !.changed = i]

BarredNever(r, i) == FALSE

\* A membership change waits until everything before it is applied.
Barred(r, i) == r.applied + 1 < i

FlushRun(r) ==
    IF r.run = <<>> THEN r
    ELSE [EnqueueApply(r, 0, r.run) EXCEPT !.run = <<>>]

\* One entry of the queue: a run of commands is collected into one batch, and
\* nothing passes a membership change that must wait.
PumpEntry(r, i) ==
    LET flushed == FlushRun(r)
    IN  IF r.queue # <<>> THEN [r EXCEPT !.queue = Append(@, i)]
        ELSE IF IsCommand(i) THEN [r EXCEPT !.run = Append(@, i)]
        ELSE IF Barred(flushed, i) THEN [flushed EXCEPT !.queue = <<i>>]
        ELSE ApplyConfChange(flushed, i)

PumpCommitted(r) ==
    FlushRun(FoldLeft(PumpEntry, [r EXCEPT !.queue = <<>>], r.queue))

AttributeConf(r, i) ==
    LET ks == IF IsCommand(i) THEN {} ELSE Open(r.confs)
    IN  [r EXCEPT !.confs = AssignFirst(@, ks, i)]

StageCommitted(r, snap, entries) ==
    LET trimmed == [r EXCEPT !.queue = SelectSeq(@, LAMBDA i : i > snap)]
        named == FoldLeft(AttributeConf, trimmed, entries)
        staged == [named EXCEPT !.queue = @ \o entries]
    IN  PumpCommitted(IF snap = 0 THEN staged
                      ELSE EnqueueApply(staged, snap, <<>>))

-----------------------------------------------------------------------------
(* The rest of a cycle *)

\* fail_all_pending, and the loop is left.
Stop(r) == [r EXCEPT !.stopped = TRUE, !.pending = <<>>, !.confs = <<>>,
                     !.reads = <<>>]

AbsorbProgress(r) ==
    LET seen == [r EXCEPT !.applied = r.progress.applied,
                          !.appliedBytes = r.progress.bytes]
    IN  IF r.progress.failed THEN Stop(seen) ELSE seen

\* The term of an index below the store's first entry cannot be read.
PollSnapshot(r) ==
    IF r.stopped \/ r.snapshotWait < 0 THEN r
    ELSE IF r.snapshotWait < r.compacted THEN Stop(r)
    ELSE [r EXCEPT !.snapshotWait = NotAsked, !.snapshotIndex = r.snapshotWait,
                   !.compacted = r.snapshotWait,
                   !.bytesAtSnapshot = r.appliedBytes]

\* Every read without a token joins the round that starts in this cycle.
Unstamped(r) == {k \in DOMAIN r.reads : r.reads[k].token = 0}

StampReads(r) ==
    IF Unstamped(r) = {} THEN r
    ELSE [r EXCEPT !.nextToken = @ + 1,
                   !.reads = [k \in DOMAIN @ |->
                       IF k \in Unstamped(r)
                       THEN [@[k] EXCEPT !.token = r.nextToken] ELSE @[k]]]

Carried(r) == {r.reads[k].token : k \in DOMAIN r.reads} \ {0}

\* Raft answers a round with the commit index it had when the round began; a
\* round that no read waits for any more has no effect.
OpenRounds(r) ==
    [token \in Carried(r) |->
        IF token \in DOMAIN rounds THEN rounds[token] ELSE Len(log)]

ConfirmReads(r, open, tokens) ==
    [r EXCEPT !.reads = [k \in DOMAIN @ |->
        IF @[k].token \in tokens
        THEN [@[k] EXCEPT !.index = open[r.reads[k].token]] ELSE @[k]]]

ServableUnapplied(r, read) == read.index # NotYet

Servable(r, read) == read.index # NotYet /\ read.index <= r.applied

\* A timed-out read asks once more, in a new round, and then gives up.
RetryRead(read) ==
    [read EXCEPT !.attempts = 2, !.index = NotYet, !.token = 0]

ResolveReads(r, late) ==
    LET kept == SelectSeq(r.reads, LAMBDA read :
                    /\ leader
                    /\ ~Servable(r, read)
                    /\ read.attempts = 1 \/ read.id \notin late)
    IN  [r EXCEPT !.reads = [k \in DOMAIN kept |->
            IF kept[k].id \in late THEN RetryRead(kept[k]) ELSE kept[k]]]

Applied(r, p) == p.index # NotYet /\ p.index <= r.applied

Answerable(r, p) == Applied(r, p) /\ p.index \in r.received

\* The entries whose outcome a waiting proposal still needs.
Live(r, kept) == {r.pending[k].index : k \in kept}

\* The first `overdue` proposals, in order of arrival, are past their deadline.
ReplyPendings(r, overdue, confOverdue) ==
    LET left == [k \in DOMAIN r.pending |->
                    /\ ~Answerable(r, r.pending[k])
                    /\ k > overdue]
        kept == {k \in DOMAIN left : left[k]}
        still == SelectSeq([k \in DOMAIN left |-> k], LAMBDA k : left[k])
    IN  [r EXCEPT
            !.pending = [k \in DOMAIN still |-> r.pending[still[k]]],
            !.received = @ \cap Live(r, kept),
            !.confs = SelectSeq(@, LAMBDA p : ~Applied(r, p) /\ ~confOverdue)]

MaybeSnapshot(r) ==
    IF /\ SnapshotEvery > 0
       /\ r.applied > r.snapshotIndex
       /\ r.appliedBytes - r.bytesAtSnapshot >= SnapshotEvery
       /\ r.snapshotWait = NotAsked
       /\ Len(r.applies) < ApplyDepth
    THEN [r EXCEPT !.applies = Append(@, SnapshotRequest),
                   !.snapshotWait = NotYet]
    ELSE r

-----------------------------------------------------------------------------
(* The actor *)

Init ==
    /\ log = <<>> /\ handed = 0 /\ leader = TRUE
    /\ flying = {} /\ rounds = <<>>
    /\ rt = [pending |-> <<>>, confs |-> <<>>, reads |-> <<>>,
             nextToken |-> 1, queue |-> <<>>, run |-> <<>>, deferred |-> NoBatch,
             applied |-> 0, appliedBytes |-> 0, sentBytes |-> 0,
             received |-> {}, snapshotIndex |-> 0, bytesAtSnapshot |-> 0,
             snapshotWait |-> NotAsked, compacted |-> 0, changed |-> 0,
             applies |-> <<>>, outcomes |-> <<>>,
             progress |-> [applied |-> 0, bytes |-> 0, failed |-> FALSE],
             stopped |-> FALSE]
    /\ turn = "select"
    /\ task = [busy |-> FALSE, entries |-> <<>>, unsent |-> NotYet,
               bytes |-> 0, restored |-> 0]
    /\ sm = 0
    /\ used = [proposals |-> 0, confs |-> 0, reads |-> 0, installs |-> 0,
               leaderships |-> 0]
    /\ replies = {} /\ served = {}

\* Commands that change nothing (another leader, a backlog at its limit, a
\* membership change already pending) are answered with an error at once.
StartProposal(s) ==
    /\ ~rt.stopped /\ leader /\ used.proposals < MaxProposals
    /\ rt.sentBytes - rt.appliedBytes < BacklogLimit
    /\ rt' = [rt EXCEPT !.pending = Append(@, [sess |-> s, index |-> NotYet])]
    /\ flying' = flying \cup {[id |-> used.proposals, entry |-> Command(s)]}
    /\ used' = [used EXCEPT !.proposals = @ + 1]
    /\ turn' = "burst"
    /\ UNCHANGED <<log, handed, leader, rounds, task, sm, replies, served>>

StartConfChange ==
    /\ ~rt.stopped /\ leader /\ used.confs < MaxConf
    /\ rt.confs = <<>>
    /\ rt' = [rt EXCEPT !.confs = <<[index |-> NotYet]>>]
    /\ flying' = flying \cup {[id |-> used.confs, entry |-> Conf]}
    /\ used' = [used EXCEPT !.confs = @ + 1]
    /\ turn' = "burst"
    /\ UNCHANGED <<log, handed, leader, rounds, task, sm, replies, served>>

StartRead ==
    /\ ~rt.stopped /\ leader /\ used.reads < MaxReads
    /\ rt' = [rt EXCEPT !.reads = Append(@,
                [id |-> used.reads, floor |-> Len(log), token |-> 0,
                 index |-> NotYet, attempts |-> 1])]
    /\ used' = [used EXCEPT !.reads = @ + 1]
    /\ turn' = "burst"
    /\ UNCHANGED <<log, handed, leader, flying, rounds, task, sm, replies,
                   served>>

\* What a cycle does once RaftNode::step has returned: an installed snapshot
\* (or 0), the entries handed out up to `upto`, and the confirmed rounds.
AfterStep(r, snap, upto, tokens, overdue, confOverdue, late) ==
    \E staged \in {StageCommitted(
                       [r EXCEPT !.compacted = IF @ < snap THEN snap ELSE @],
                       snap, Indices(IF snap = 0 THEN handed ELSE snap, upto))} :
    \E confirmed \in {ConfirmReads(staged, OpenRounds(r), tokens)} :
    \E resolved \in {ResolveReads(confirmed, late)} :
        /\ rt' = MaybeSnapshot(ReplyPendings(resolved, overdue, confOverdue))
        /\ handed' = upto
        /\ rounds' = [k \in Carried(resolved) |-> OpenRounds(r)[k]]
        /\ served' =
               {[floor |-> read.floor, index |-> read.index, version |-> sm] :
                   read \in {q \in Range(confirmed.reads) :
                                leader /\ Servable(confirmed, q)}}
        /\ replies' =
               {[sess |-> p.sess, at |-> Effective(p.index)] :
                   p \in {q \in Range(resolved.pending) : Answerable(resolved, q)}}

DriveCycle(r) ==
    /\ turn' = "select"
    /\ UNCHANGED <<log, leader, flying, task, sm>>
    /\ \E polled \in {PollSnapshot(AbsorbProgress(r))} :
        \/ /\ polled.stopped
           /\ rt' = polled
           /\ replies' = {} /\ served' = {}
           /\ UNCHANGED <<handed, rounds, used>>
        \/ /\ ~polled.stopped
           /\ \E stamped \in {StampReads(polled)} :
              \E snap \in {0} \cup {s \in (handed + 1)..Len(log) :
                                       ~leader /\ used.installs < MaxInstalls} :
              \E upto \in (IF snap = 0 THEN handed ELSE snap)..Len(log) :
              \E tokens \in SUBSET Carried(stamped) :
              \E late \in SUBSET {q.id : q \in Range(stamped.reads)} :
              \E overdue \in 0..Len(stamped.pending), confOverdue \in BOOLEAN :
                 /\ confOverdue => stamped.confs # <<>>
                 /\ AfterStep(stamped, snap, upto, tokens, overdue,
                              confOverdue, late)
                 /\ used' = IF snap = 0 THEN used
                            ELSE [used EXCEPT !.installs = @ + 1]

\* A tick, a message, a progress or durability notification, or the end of a
\* burst of commands.
Cycle == ~rt.stopped /\ DriveCycle(rt)

\* Outcomes are drained in one go before the cycle.
OnOutcomes ==
    /\ ~rt.stopped /\ turn = "select" /\ rt.outcomes # <<>>
    /\ DriveCycle([rt EXCEPT !.received = @ \cup Range(rt.outcomes),
                             !.outcomes = <<>>])

-----------------------------------------------------------------------------
(* The apply task *)

TaskUnchanged == UNCHANGED <<log, handed, leader, flying, rounds, turn, used,
                             replies, served>>

\* Take the next request; an installed snapshot is restored before the entries
\* behind it, and a snapshot request is answered with the applied index.
TakeRequest ==
    /\ ~rt.stopped /\ ~task.busy /\ rt.applies # <<>>
    /\ LET req == Head(rt.applies)
           taken == [rt EXCEPT !.applies = Tail(@)]
       IN  \/ /\ req.kind = "snapshot"
              /\ rt' = [taken EXCEPT !.snapshotWait = sm]
              /\ UNCHANGED <<task, sm>>
           \/ /\ req.kind = "batch"
              /\ rt' = taken
              /\ task' = [task EXCEPT !.busy = TRUE, !.entries = req.entries,
                                      !.restored = IF @ < req.snap THEN req.snap
                                                   ELSE @]
              /\ sm' = IF req.snap = 0 THEN sm ELSE req.snap
    /\ TaskUnchanged

\* The state machine takes only the index that follows its own: anything else
\* is reported as a failure, and the task ends.
ApplyEntry ==
    /\ ~rt.stopped /\ ~rt.progress.failed
    /\ task.busy /\ task.unsent = NotYet /\ task.entries # <<>>
    /\ LET i == Head(task.entries)
       IN  \/ /\ i = sm + 1
              /\ sm' = i
              /\ task' = [task EXCEPT !.entries = Tail(@), !.unsent = i]
              /\ rt' = rt
           \/ /\ i # sm + 1
              /\ rt' = [rt EXCEPT !.progress.failed = TRUE]
              /\ UNCHANGED <<task, sm>>
    /\ TaskUnchanged

\* A full outcome channel holds the task back.
SendOutcome ==
    /\ ~rt.stopped /\ task.unsent # NotYet /\ Len(rt.outcomes) < OutcomeDepth
    /\ rt' = [rt EXCEPT !.outcomes = Append(@, task.unsent)]
    /\ task' = [task EXCEPT !.unsent = NotYet, !.bytes = @ + 1]
    /\ UNCHANGED sm
    /\ TaskUnchanged

Publish ==
    /\ ~rt.stopped /\ task.busy /\ task.entries = <<>> /\ task.unsent = NotYet
    /\ rt' = [rt EXCEPT !.progress.applied = sm, !.progress.bytes = task.bytes]
    /\ task' = [task EXCEPT !.busy = FALSE]
    /\ UNCHANGED sm
    /\ TaskUnchanged

TaskStep == TakeRequest \/ ApplyEntry \/ SendOutcome \/ Publish

-----------------------------------------------------------------------------
(* Raft *)

\* A proposal of this node, or an entry of another one, is committed.
Commit ==
    /\ ~rt.stopped /\ Len(log) < MaxLog
    /\ \/ /\ log' = Append(log, Foreign)
          /\ UNCHANGED flying
       \/ \E p \in flying :
             /\ log' = Append(log, p.entry)
             /\ flying' = flying \ {p}
    /\ UNCHANGED <<handed, leader, rounds, rt, turn, task, sm, used, replies,
                   served>>

ChangeLeader ==
    /\ ~rt.stopped /\ used.leaderships < MaxLeaderships
    /\ leader' = ~leader
    /\ used' = [used EXCEPT !.leaderships = @ + 1]
    /\ UNCHANGED <<log, handed, flying, rounds, rt, turn, task, sm, replies,
                   served>>

Next ==
    \/ \E s \in Sessions : StartProposal(s)
    \/ StartConfChange
    \/ StartRead
    \/ Cycle
    \/ OnOutcomes
    \/ TaskStep
    \/ Commit
    \/ ChangeLeader

Spec == Init /\ [][Next]_vars

\* The actor's loop turns (a tick always comes), it takes outcomes before it
\* sleeps, and the apply task runs whenever it can.
FairSpec ==
    Spec /\ WF_vars(Cycle) /\ WF_vars(OnOutcomes) /\ WF_vars(TaskStep)

-----------------------------------------------------------------------------
(* Properties *)

\* The type invariant: every field holds a value the code could, and the two
\* channels keep within the depths APPLY_QUEUE_DEPTH and the outcome channel
\* were built with.
TypeOK ==
    /\ handed \in 0..Len(log) /\ sm \in 0..handed
    /\ leader \in BOOLEAN /\ turn \in {"select", "burst"}
    /\ Len(rt.applies) <= ApplyDepth
    /\ Len(rt.outcomes) <= OutcomeDepth
    /\ rt.run = <<>>
    /\ rt.received \subseteq 1..Len(log)
    /\ rt.snapshotWait \in {NotAsked, NotYet} \cup (0..sm)
    /\ \A p \in Range(rt.pending) : p.index \in {NotYet} \cup (1..handed)
    /\ Len(rt.confs) <= 1
    /\ task.unsent \in {NotYet} \cup (1..sm)

\* A write is answered with the outcome of its own session and with the index
\* at which that session first took effect, and only once the state machine
\* has applied it: attribution in enqueue_apply and the pairing of outcomes in
\* reply_pendings never cross two proposals.
RepliesAreOwn ==
    \A a \in replies :
        /\ a.at <= sm
        /\ log[a.at].sess = {a.sess}
        /\ \A j \in 1..(a.at - 1) : log[j].sess # {a.sess}

\* Whatever is deferred, superseded by a snapshot or held behind a membership
\* change, everything takes effect in the order of the log: entries reach the
\* state machine without a hole (the apply task never reports the ordering
\* failure that stops the node), and when the actor changes the membership at
\* an index, every command before it has been applied (pump_committed).
AppliesInLogOrder ==
    /\ ~rt.progress.failed
    /\ \A i \in 1..(rt.changed - 1) : IsCommand(i) => i <= sm

\* A linearizable read is dispatched only when the state machine holds every
\* command that was committed before the read arrived, across retries, shared
\* rounds, leader changes and the actor's own lead after a ConfChange.
ReadsAreFresh ==
    \A r \in served :
        \A i \in (r.version + 1)..r.floor : ~IsCommand(i)

\* The outcome of an applied entry stays available for the proposal it was
\* attributed to until that proposal is answered: the pruning of
\* received_outcomes never turns an applied write into a timeout.
OutcomesAreKept ==
    \A p \in Range(rt.pending) :
        p.index > task.restored /\ p.index <= sm =>
            p.index \in rt.received \cup Range(rt.outcomes) \cup {task.unsent}

\* Every entry raft has handed out is applied in the end, with no help from
\* later entries: a batch that found the channel full is kept "for the next
\* cycle" (flush_deferred).
HandedIsApplied ==
    \A n \in 1..MaxLog : (handed >= n) ~> (sm >= n)

\* The read alert of resolve_reads "must never fire": when a read is let
\* through, the state machine's version has reached the read index.
ReadVersionReached == \A r \in served : r.version >= r.index

\* The node does not stop while no component has failed: term_at answers for
\* every index the apply task can report, "from the durable snapshot once the
\* entry itself has been compacted away".
NeverStops == ~rt.stopped
=============================================================================
