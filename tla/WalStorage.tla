----------------------------- MODULE WalStorage -----------------------------
(***************************************************************************)
(* The durable log of arachne/src/storage/wal.rs: segment files, the       *)
(* HardState records that live among the entries, the snapshot pointer in  *)
(* META, the off-thread flusher, power loss and recovery.                  *)
(*                                                                         *)
(* A file is the sequence of records written to it and the number of them  *)
(* a flush has made durable.  Power loss cuts each file somewhere at or    *)
(* after its durable length and may leave half a record behind.  Sizes are *)
(* counted in records.  The raft library above is external: its calls are  *)
(* the inputs of PersistReady, InstallSnapshot and CreateSnapshot.         *)
(***************************************************************************)
EXTENDS Integers, Sequences, FiniteSets, FiniteSetsExt, SequencesExt, TLC

CONSTANTS
    MaxIndex,       \* bound on log indexes
    MaxTerm,        \* bound on terms; a term stands for the (term, vote) pair
    MaxBatch,       \* bound on the entries of one Ready
    MaxCrashes,     \* bound on power losses
    SegmentRecords, \* segment_bytes: a segment this long is full
    TrailingKeep,   \* trailing_keep_bytes
    MaxInFlight,    \* MAX_IN_FLIGHT_READIES
    CrashPoints,    \* where a power loss may hit
    Offloaded,      \* off-thread durability is enabled
    FlushMayFail    \* whether the device may fail a flush

Index == 1 .. MaxIndex
Terms == 1 .. MaxTerm

SNAPSHOT_RETENTION == 2

ASSUME BoundsAssumption ==
    /\ {MaxIndex, MaxTerm, MaxBatch, SegmentRecords, MaxInFlight}
            \subseteq Nat \ {0}
    /\ {MaxCrashes, TrailingKeep} \subseteq Nat
    /\ {Offloaded, FlushMayFail} \subseteq BOOLEAN
    /\ CrashPoints \subseteq {"idle", "persist", "truncate", "save", "compact",
                              "install"}

VARIABLES
    segs,     \* segment files by first index
    files,    \* indexes of the snapshot files
    meta,     \* META.snapshot_index, 0 for none
    wal,      \* the WalStorage struct
    jobs,     \* flush jobs queued to the flusher thread
    done,     \* flush results not yet polled
    cycles,   \* Readies submitted and not yet reported durable, oldest first
    phase,    \* what the process is doing
    crashes,  \* power losses so far
    promised  \* history: what was reported durable and is still in force

vars == <<segs, files, meta, wal, jobs, done, cycles, phase, crashes, promised>>

-----------------------------------------------------------------------------
(* Records and files                                                       *)

EntryRec(i, t) == [kind |-> "entry", index |-> i, term |-> t]
HsRec(hs) == [kind |-> "hard_state", term |-> hs.term, commit |-> hs.commit]

NoHardState == [term |-> 0, commit |-> 0]
NewSegment == [recs |-> << >>, synced |-> 0, torn |-> FALSE]

WriteRecord(ss, a, rec) == [ss EXCEPT ![a].recs = Append(@, rec)]
SyncSegment(ss, a) == [ss EXCEPT ![a].synced = Len(ss[a].recs)]
Unlink(ss, gone) == [i \in DOMAIN ss \ gone |-> ss[i]]

\* open_segment_at opens an existing file for append or creates it.
OpenSegment(ss, a) ==
    [i \in DOMAIN ss \cup {a} |-> IF i \in DOMAIN ss THEN ss[i] ELSE NewSegment]

\* The n-th smallest member: list_segment_indices sorts ascending.
Nth(S, n) == CHOOSE x \in S : Cardinality({y \in S : y < x}) = n - 1

\* Every record on disk in replay order.
Replay(ss) ==
    FoldLeft(LAMBDA recs, n : recs \o ss[Nth(DOMAIN ss, n)].recs, << >>,
             [n \in 1 .. Cardinality(DOMAIN ss) |-> n])

IsEntry(rec) == rec.kind = "entry"
IsHardState(rec) == rec.kind = "hard_state"

(***************************************************************************)
(* While an operation runs it works on w: the fields of the struct, the    *)
(* files, the segments it has unlinked and whether it has succeeded.       *)
(***************************************************************************)
LastIndex(w) == IF w.entries = << >> THEN w.compacted_to
                ELSE Last(w.entries).index

Drop(w, gone) == [w EXCEPT !.segs = Unlink(@, gone),
                           !.unlinked = @ \cup gone]

-----------------------------------------------------------------------------
(* append                                                                  *)

\* Mutant: the outgoing segment is left unflushed.
RolloverWithoutFlush(w, next) ==
    IF Len(w.segs[w.active].recs) < SegmentRecords THEN w
    ELSE [w EXCEPT !.segs = OpenSegment(@, next),
                   !.pending_entry_fsync = FALSE,
                   !.active = next]

\* maybe_rollover: flush the outgoing segment if the flag says it is dirty.
MaybeRollover(w, next) ==
    IF Len(w.segs[w.active].recs) < SegmentRecords THEN w
    ELSE LET kept == IF w.pending_entry_fsync THEN SyncSegment(w.segs, w.active)
                     ELSE w.segs
         IN  [w EXCEPT !.segs = OpenSegment(kept, next),
                       !.pending_entry_fsync = FALSE,
                       !.active = next]

AppendEntry(w, t) ==
    LET next == LastIndex(w) + 1
        r    == MaybeRollover(w, next)
    IN  [r EXCEPT !.segs = WriteRecord(@, r.active, EntryRec(next, t)),
                  !.entries = Append(@, [index |-> next, term |-> t]),
                  !.pending_entry_fsync = TRUE]

\* truncate_log_to: the segment and the position of entry `keep`.
Holding(ss, keep) ==
    {a \in DOMAIN ss : \E n \in DOMAIN ss[a].recs :
        IsEntry(ss[a].recs[n]) /\ ss[a].recs[n].index = keep}

PositionOf(recs, keep) ==
    Min({n \in DOMAIN recs : IsEntry(recs[n]) /\ recs[n].index = keep})

CutAt(seg, n) == [recs |-> SubSeq(seg.recs, 1, n), synced |-> n, torn |-> FALSE]

Later(ss, a) == {b \in DOMAIN ss : b > a}

CutSegs(ss, keep) ==
    LET a == Min(Holding(ss, keep))
    IN  [ss EXCEPT ![a] = CutAt(@, PositionOf(@.recs, keep))]

\* Mutant: the segments after the cut stay on disk.
TruncateKeepingLater(w, keep) ==
    LET found == Holding(w.segs, keep)
        a     == IF found = {} THEN 1 ELSE Min(found)
        left  == IF found = {} THEN Drop(w, DOMAIN w.segs)
                 ELSE [w EXCEPT !.segs = CutSegs(@, keep)]
    IN  IF w.entries = << >> \/ LastIndex(w) <= keep THEN w
        ELSE [left EXCEPT !.segs = OpenSegment(@, a),
                          !.active = a,
                          !.entries = SubSeq(@, 1, Min({keep, Len(@)})),
                          !.pending_entry_fsync = FALSE]

\* The cache is truncated to `keep` elements, not to index `keep`.
TruncateLogTo(w, keep) ==
    LET found == Holding(w.segs, keep)
        a     == IF found = {} THEN 1 ELSE Min(found)
        left  == IF found = {} THEN Drop(w, DOMAIN w.segs)
                 ELSE Drop([w EXCEPT !.segs = CutSegs(@, keep)], Later(w.segs, a))
    IN  IF w.entries = << >> \/ LastIndex(w) <= keep THEN w
        ELSE [left EXCEPT !.segs = OpenSegment(@, a),
                          !.active = a,
                          !.entries = SubSeq(@, 1, Min({keep, Len(@)})),
                          !.pending_entry_fsync = FALSE]

(***************************************************************************)
(* The files a power loss in the middle of truncate_log_to can leave: the  *)
(* holding segment is cut and flushed first, then the later segments go    *)
(* one by one, lowest first, and the directory is flushed last.            *)
(***************************************************************************)
UnlinkedSome(ss, gone) ==
    {Unlink(ss, {b \in gone : b <= n}) : n \in gone \cup {0}}

TruncateWindow(ss, keep) ==
    IF Holding(ss, keep) = {} THEN UnlinkedSome(ss, DOMAIN ss)
    ELSE UnlinkedSome(CutSegs(ss, keep), Later(ss, Min(Holding(ss, keep))))

Conflicts(w, first) == first <= LastIndex(w)

\* append, given entries of one term starting at index `first`.  Records how
\* it went in `ok`: a refused append has already truncated.
AppendBatch(w, first, terms) ==
    LET keep == first - 1
        w1   == IF Conflicts(w, first) THEN TruncateLogTo(w, keep) ELSE w
    IN  CASE terms = << >> -> w
          [] Conflicts(w, first) /\ keep < w.compacted_to -> [w EXCEPT !.ok = FALSE]
          [] Conflicts(w, first) /\ keep < w.hard_state.commit ->
                [w EXCEPT !.ok = FALSE]
          [] first # LastIndex(w1) + 1 -> [w1 EXCEPT !.ok = FALSE]
          [] OTHER -> FoldLeft(AppendEntry, w1, terms)

-----------------------------------------------------------------------------
(* persist_ready_records                                                   *)

SetHardState(w, hs) ==
    LET s == WriteRecord(w.segs, w.active, HsRec(hs))
    IN  [w EXCEPT !.segs = SyncSegment(s, w.active), !.hard_state = hs]

\* Mutant: the flag is cleared and nothing is flushed.
SetHardStateBuffered(w, hs) ==
    [w EXCEPT !.segs = WriteRecord(@, w.active, HsRec(hs)),
              !.pending_entry_fsync = TRUE,
              !.hard_state = hs]

SyncEntries(w) ==
    [w EXCEPT !.segs = SyncSegment(@, w.active), !.pending_entry_fsync = FALSE]

\* The writes of one Ready before any flush, and then with the flushes of the
\* synchronous path; NoHardState means the Ready has none.
WriteBuffered(w, first, terms, hs) ==
    LET a == AppendBatch(w, first, terms)
    IN  IF a.ok /\ hs # NoHardState THEN SetHardStateBuffered(a, hs) ELSE a

\* Mutant: the entries are not flushed; a HardState, when there is one, is.
WriteUnsynced(w, first, terms, hs) ==
    LET a == AppendBatch(w, first, terms)
    IN  CASE Offloaded -> WriteBuffered(w, first, terms, hs)
          [] ~Offloaded /\ (~a.ok \/ hs = NoHardState) -> a
          [] OTHER -> SetHardState(a, hs)

WriteReady(w, first, terms, hs) ==
    LET a == AppendBatch(w, first, terms)
        s == IF terms # << >> THEN SyncEntries(a) ELSE a
    IN  CASE Offloaded -> WriteBuffered(w, first, terms, hs)
          [] ~Offloaded /\ ~a.ok -> a
          [] ~Offloaded /\ a.ok /\ hs = NoHardState -> s
          [] OTHER -> SetHardState(s, hs)

-----------------------------------------------------------------------------
(* Snapshots and compaction                                                *)

\* The newest SNAPSHOT_RETENTION files stay.
Prune(fs) == {f \in fs : Cardinality({g \in fs : g > f}) < SNAPSHOT_RETENTION}

\* delete_segments_below: the segments whose successor starts at or below
\* the watermark's next index; the active one never goes.
Successor(ss, a) == Min(Later(ss, a))
WhollyBelow(w, watermark) ==
    {a \in DOMAIN w.segs : /\ Later(w.segs, a) # {}
                           /\ Successor(w.segs, a) <= watermark + 1
                           /\ a # w.active}

RetainedFrom(ss, from) ==
    MapThenSumSet(LAMBDA a : Len(ss[a].recs), {a \in DOMAIN ss : a >= from})

\* With a trailing window, from the oldest, while what stays covers it.
BeyondWindow(w, watermark) ==
    {a \in WhollyBelow(w, watermark) :
        RetainedFrom(w.segs, Successor(w.segs, a)) >= TrailingKeep}

Removable(w, to) ==
    IF TrailingKeep = 0 THEN WhollyBelow(w, to) ELSE BeyondWindow(w, to)

Compact(w, to) ==
    LET gone      == Removable(w, to)
        effective == CASE TrailingKeep = 0 -> to
                       [] TrailingKeep # 0 /\ gone = {} -> w.compacted_to
                       [] OTHER -> Successor(w.segs, Max(gone)) - 1
        Kept(e)   == e.index > effective
    IN  IF to <= w.compacted_to THEN w
        ELSE [Drop(w, gone) EXCEPT !.entries = SelectSeq(@, Kept),
                                   !.compacted_to = effective]

\* replace_log_with_snapshot: every file goes, one empty segment is opened.
ReplaceLog(w, s) ==
    [Drop(w, DOMAIN w.segs) EXCEPT !.segs = OpenSegment(@, s + 1),
                                   !.entries = << >>,
                                   !.compacted_to = s,
                                   !.active = s + 1,
                                   !.pending_entry_fsync = FALSE]

-----------------------------------------------------------------------------
(* The calls of the layer above                                            *)

NoWal == [entries |-> << >>, compacted_to |-> 0, hard_state |-> NoHardState,
          active |-> 0, pending_entry_fsync |-> FALSE, snapshot |-> 0]

Working == [entries |-> wal.entries, compacted_to |-> wal.compacted_to,
            hard_state |-> wal.hard_state, active |-> wal.active,
            pending_entry_fsync |-> wal.pending_entry_fsync,
            snapshot |-> wal.snapshot,
            segs |-> segs, unlinked |-> {}, ok |-> TRUE]

Struct(w) == [entries |-> w.entries, compacted_to |-> w.compacted_to,
              hard_state |-> w.hard_state, active |-> w.active,
              pending_entry_fsync |-> w.pending_entry_fsync,
              snapshot |-> w.snapshot]

\* A job holds its own handle: a file unlinked under it is flushed in vain.
Orphan(js, gone) ==
    [n \in DOMAIN js |-> [js[n] EXCEPT !.live = @ /\ js[n].seg \notin gone]]

Init ==
    /\ segs = (1 :> NewSegment)
    /\ files = {}
    /\ meta = 0
    /\ wal = [NoWal EXCEPT !.active = 1]
    /\ jobs = << >>
    /\ done = {}
    /\ cycles = << >>
    /\ phase = "up"
    /\ crashes = 0
    /\ promised = [log |-> {}, hard_state |-> NoHardState]

\* What the log holds at or below `upto`, promised from now on.
Promise(w, upto, hs) ==
    [log |-> {e \in ToSet(w.entries) : e.index <= upto}, hard_state |-> hs]

\* Raft gives up every entry above `keep`, whatever was reported for it.
Released(p, keep) == [p EXCEPT !.log = {e \in @ : e.index <= keep}]
ReleasedCycles(keep) ==
    [n \in DOMAIN cycles |-> [cycles[n] EXCEPT !.upto = Min({@, keep})]]

\* The writes are done: report them durable, or queue a flush and a cycle.
\* Tokens count up in the code; here they repeat once none is outstanding.
Submit(w, keep) ==
    LET id == IF cycles = << >> THEN 0 ELSE (Last(cycles).id + 1) % (MaxInFlight + 1)
    IN  IF Offloaded
        THEN /\ jobs' = Append(Orphan(jobs, w.unlinked),
                               [id |-> id, seg |-> w.active, live |-> TRUE])
             /\ cycles' = Append(ReleasedCycles(keep),
                               [id |-> id, upto |-> LastIndex(w),
                                hard_state |-> w.hard_state])
             /\ promised' = Released(promised, keep)
        ELSE /\ promised' = Promise(w, LastIndex(w), w.hard_state)
             /\ UNCHANGED <<jobs, cycles>>

(***************************************************************************)
(* Raft's inputs.  Its commit index starts at the watermark.  A Ready has  *)
(* entries of the current term right after the log, or over a suffix that  *)
(* conflicts with them, and a HardState when term or commit moved; neither *)
(* ever goes back, and no leader overwrites an entry committed anywhere.   *)
(***************************************************************************)
RaftState == [term |-> wal.hard_state.term,
              commit |-> Max({wal.hard_state.commit, wal.compacted_to})]

Committed == Max({RaftState.commit, promised.hard_state.commit})

LegalAppend(first, n, t) ==
    /\ t \in Terms /\ t >= RaftState.term
    /\ first \in Committed + 1 .. LastIndex(wal) + 1
    /\ first + n - 1 <= MaxIndex
    /\ n = 0 => first = LastIndex(wal) + 1
    /\ \A e \in ToSet(wal.entries) :
            /\ e.index = first => e.term < t
            /\ e.index < first => e.term <= t

LegalReady(first, n, t, commit) ==
    /\ LegalAppend(first, n, t)
    /\ commit \in RaftState.commit .. first + n - 1
    /\ n > 0 \/ [term |-> t, commit |-> commit] # RaftState

ReadyHardState(t, commit) ==
    LET hs == [term |-> t, commit |-> commit]
    IN  IF hs = RaftState THEN NoHardState ELSE hs

PersistReady(first, n, t, commit) ==
    LET w == WriteReady(Working, first, [k \in 1 .. n |-> t],
                        ReadyHardState(t, commit))
    IN  /\ phase = "up"
        /\ Len(cycles) < MaxInFlight
        /\ LegalReady(first, n, t, commit)
        /\ segs' = w.segs
        /\ wal' = Struct(w)
        /\ \/ w.ok /\ Submit(w, first - 1) /\ phase' = phase
           \/ ~w.ok /\ phase' = "append_error"
                    /\ promised' = Released(promised, first - 1)
                    /\ UNCHANGED <<jobs, cycles>>
        /\ UNCHANGED <<files, meta, done, crashes>>

\* RaftNode::create_snapshot: save_snapshot, then compact.
CreateSnapshot(s) ==
    LET w == Compact([Working EXCEPT !.snapshot = s], s)
    IN  /\ phase = "up"
        /\ s > wal.snapshot
        /\ s <= wal.hard_state.commit /\ s <= promised.hard_state.commit
        /\ files' = Prune(files \cup {s})
        /\ meta' = s
        /\ segs' = w.segs
        /\ wal' = Struct(w)
        /\ jobs' = Orphan(jobs, w.unlinked)
        /\ UNCHANGED <<done, cycles, phase, crashes, promised>>

LegalInstall(s, t) ==
    /\ s > Committed
    /\ t >= RaftState.term
    /\ \A e \in ToSet(wal.entries) : e.term <= t /\ (e.index = s => e.term < t)

\* The part of submit_ready that handles a snapshot: install_snapshot, then
\* the HardState that commits it.
InstallSnapshot(s, t) ==
    LET hs == [term |-> t, commit |-> s]
        w  == WriteReady(ReplaceLog([Working EXCEPT !.snapshot = s], s),
                         s + 1, << >>, hs)
    IN  /\ phase = "up"
        /\ Len(cycles) < MaxInFlight
        /\ LegalInstall(s, t)
        /\ files' = Prune(files \cup {s})
        /\ meta' = s
        /\ segs' = w.segs
        /\ wal' = Struct(w)
        /\ Submit(w, s)
        /\ UNCHANGED <<done, phase, crashes>>

-----------------------------------------------------------------------------
(* The flusher thread and poll_flush                                       *)

\* One batch: the first n jobs, one sync per distinct file, one result per
\* job, the last job of a segment being its owner.
Flush(n, ok) ==
    LET batch  == SubSeq(jobs, 1, n)
        synced == {batch[k].seg : k \in {m \in 1 .. n : batch[m].live}}
        Owner(k) == \A m \in k + 1 .. n : batch[m].seg # batch[k].seg
    IN  /\ phase = "up"
        /\ n \in DOMAIN jobs
        /\ ok \/ FlushMayFail
        /\ jobs' = SubSeq(jobs, n + 1, Len(jobs))
        /\ segs' = [a \in DOMAIN segs |->
                        IF ok /\ a \in synced
                        THEN [segs[a] EXCEPT !.synced = Len(segs[a].recs)]
                        ELSE segs[a]]
        /\ done' = done \cup {[id |-> batch[k].id, seg |-> batch[k].seg,
                                ok |-> ok, owner |-> Owner(k)] : k \in 1 .. n}
        /\ UNCHANGED <<files, meta, wal, cycles, phase, crashes, promised>>

\* finish_persisted polls the oldest cycle only.
PollFlush(job) ==
    LET cycle == Head(cycles)
    IN  /\ phase = "up"
        /\ cycles # << >>
        /\ job.id = cycle.id
        /\ done' = done \ {job}
        /\ cycles' = Tail(cycles)
        /\ \/ /\ job.ok
              /\ wal' = [wal EXCEPT !.pending_entry_fsync =
                            @ /\ ~(job.owner /\ job.seg = wal.active)]
              /\ promised' = Promise(wal, cycle.upto, cycle.hard_state)
              /\ phase' = phase
           \/ /\ ~job.ok
              /\ phase' = "flush_error"
              /\ UNCHANGED <<wal, promised>>
        /\ UNCHANGED <<segs, files, meta, jobs, crashes>>

-----------------------------------------------------------------------------
(* Power loss                                                              *)

Images(seg) ==
    {[recs |-> SubSeq(seg.recs, 1, n), synced |-> n, torn |-> half] :
        n \in seg.synced .. Len(seg.recs), half \in BOOLEAN}
            \ {[recs |-> seg.recs, synced |-> Len(seg.recs), torn |-> TRUE]}

\* Every way a power loss can leave the files.
AfterPowerLoss(ss) ==
    LET dirty == {a \in DOMAIN ss : ss[a].synced < Len(ss[a].recs)}
        cuts  == {c \in [dirty -> UNION {Images(ss[a]) : a \in dirty}] :
                    \A a \in dirty : c[a] \in Images(ss[a])}
    IN  {[a \in DOMAIN ss |-> IF a \in dirty THEN c[a] ELSE ss[a]] : c \in cuts}

PowerLoss(point, ss) ==
    /\ point \in CrashPoints
    /\ crashes < MaxCrashes
    /\ crashes' = crashes + 1
    /\ segs' \in AfterPowerLoss(ss)
    /\ wal' = NoWal
    /\ jobs' = << >>
    /\ done' = {}
    /\ cycles' = << >>
    /\ phase' = "down"

\* Between two operations, or after the node has stopped on an error.
Crash ==
    /\ phase \in {"up", "append_error", "flush_error"}
    /\ PowerLoss("idle", segs)
    /\ UNCHANGED <<files, meta, promised>>

\* Inside persist_ready_records, with the records written and not flushed.
CrashInPersist(first, n, t, commit) ==
    /\ phase = "up"
    /\ LegalReady(first, n, t, commit)
    /\ PowerLoss("persist",
                 WriteBuffered(Working, first, [k \in 1 .. n |-> t],
                               ReadyHardState(t, commit)).segs)
    /\ promised' = Released(promised, first - 1)
    /\ UNCHANGED <<files, meta>>

\* Inside truncate_log_to.
CrashInTruncate(first, t) ==
    /\ phase = "up"
    /\ LegalAppend(first, 1, t)
    /\ Conflicts(wal, first)
    /\ \E ss \in TruncateWindow(segs, first - 1) :
            PowerLoss("truncate", ss)
    /\ promised' = Released(promised, first - 1)
    /\ UNCHANGED <<files, meta>>

\* Inside save_snapshot, after the rename and before META names the file.
CrashInSave(s) ==
    /\ phase = "up"
    /\ s > wal.snapshot
    /\ \/ s <= wal.hard_state.commit /\ s <= promised.hard_state.commit
       \/ \E t \in Terms : LegalInstall(s, t)
    /\ PowerLoss("save", segs)
    /\ files' = files \cup {s}
    /\ UNCHANGED <<meta, promised>>

\* Inside compact, with some of the segments unlinked.
CrashInCompact(s) ==
    /\ phase = "up"
    /\ s > wal.snapshot
    /\ s <= wal.hard_state.commit /\ s <= promised.hard_state.commit
    /\ \E ss \in UnlinkedSome(segs, Removable(Working, s)) :
            PowerLoss("compact", ss)
    /\ files' = Prune(files \cup {s})
    /\ meta' = s
    /\ UNCHANGED promised

\* Inside install_snapshot, with META written and some segments unlinked.
CrashInInstall(s, t) ==
    /\ phase = "up"
    /\ LegalInstall(s, t)
    /\ \E ss \in UnlinkedSome(segs, DOMAIN segs) : PowerLoss("install", ss)
    /\ files' = Prune(files \cup {s})
    /\ meta' = s
    /\ promised' = Released(promised, s)

-----------------------------------------------------------------------------
(* WalStorage::open                                                        *)

\* load_snapshot: the newest file at or below the index META names.
LoadSnapshot == Max({f \in files : f <= meta} \cup {0})

Contiguous(es) ==
    \A n \in DOMAIN es : es[n].index = es[1].index + n - 1

Recover ==
    LET records  == Replay(segs)
        all      == SelectSeq(records, IsEntry)
        states   == SelectSeq(records, IsHardState)
        hs       == IF states = << >> THEN NoHardState
                    ELSE [term |-> Last(states).term,
                          commit |-> Last(states).commit]
        base     == IF meta = 0 THEN 0 ELSE LoadSnapshot
        above    == [n \in DOMAIN all |->
                        [index |-> all[n].index, term |-> all[n].term]]
        Kept(e)  == e.index > base
        cached   == SelectSeq(above, Kept)
        last     == IF cached = << >> THEN base ELSE Last(cached).index
        torn     == {a \in DOMAIN segs : segs[a].torn}
        next     == IF all = << >> THEN base + 1 ELSE Last(all).index + 1
        first    == IF all = << >> THEN 1 ELSE all[1].index
    IN  [hs |-> hs, base |-> base, entries |-> cached,
         refused |-> \/ torn \ {Max(DOMAIN segs \cup {0})} # {}
                     \/ torn # {} /\ next <= hs.commit + 1
                     \/ meta # 0 /\ base = 0 /\ first # 1
                     \/ ~Contiguous(above)
                     \/ all # << >> /\ first > base + 1
                     \/ hs.commit > last,
         \* raft's load_state, on the state the store hands it
         panics |-> hs # NoHardState /\ hs.commit < base]

Open ==
    LET r      == Recover
        active == IF DOMAIN segs = {} THEN 1 ELSE Max(DOMAIN segs)
        opened == OpenSegment(segs, active)
    IN  /\ phase = "down"
        /\ \/ /\ ~r.refused /\ ~r.panics
              /\ segs' = [opened EXCEPT ![active].torn = FALSE]
              /\ wal' = [entries |-> r.entries, compacted_to |-> r.base,
                         hard_state |-> r.hs, active |-> active,
                         pending_entry_fsync |-> FALSE, snapshot |-> r.base]
              /\ phase' = "up"
           \/ /\ r.refused
              /\ phase' = "refused"
              /\ UNCHANGED <<segs, wal>>
           \/ /\ ~r.refused /\ r.panics
              /\ phase' = "panicked"
              /\ UNCHANGED <<segs, wal>>
        /\ UNCHANGED <<files, meta, jobs, done, cycles, crashes, promised>>

Next ==
    \/ \E first \in Committed + 1 .. LastIndex(wal) + 1, n \in 0 .. MaxBatch,
          t \in RaftState.term .. MaxTerm :
            \E commit \in RaftState.commit .. first + n - 1 :
                \/ PersistReady(first, n, t, commit)
                \/ CrashInPersist(first, n, t, commit)
    \/ \E s \in Index : CreateSnapshot(s) \/ CrashInSave(s) \/ CrashInCompact(s)
    \/ \E s \in Index, t \in Terms : InstallSnapshot(s, t) \/ CrashInInstall(s, t)
    \/ \E n \in 1 .. MaxInFlight, ok \in BOOLEAN : Flush(n, ok)
    \/ \E job \in done : PollFlush(job)
    \/ \E first \in Index, t \in Terms : CrashInTruncate(first, t)
    \/ Crash
    \/ Open

Spec == Init /\ [][Next]_vars

-----------------------------------------------------------------------------

HardState == [term : 0 .. MaxTerm, commit : 0 .. MaxIndex]
CachedEntry == [index : Index, term : Terms]
WalRecord == [kind : {"entry"}, index : Index, term : Terms]
                \cup [kind : {"hard_state"}, term : 0 .. MaxTerm,
                      commit : 0 .. MaxIndex]

\* The shape of the files, of the WalStorage struct and of the flusher's
\* queues.
TypeOK ==
    /\ DOMAIN segs \subseteq 1 .. MaxIndex + 1
    /\ \A a \in DOMAIN segs :
            /\ ToSet(segs[a].recs) \subseteq WalRecord
            /\ segs[a].synced \in 0 .. Len(segs[a].recs)
            /\ segs[a].torn \in BOOLEAN
    /\ files \subseteq Index
    /\ meta \in 0 .. MaxIndex
    /\ ToSet(wal.entries) \subseteq CachedEntry
    /\ {wal.compacted_to, wal.snapshot} \subseteq 0 .. MaxIndex
    /\ wal.hard_state \in HardState
    /\ phase = "up" => wal.active \in DOMAIN segs
    /\ Len(jobs) <= Len(cycles) /\ Len(cycles) <= MaxInFlight
    /\ phase \in {"up", "down", "append_error", "flush_error", "refused",
                  "panicked"}
    /\ promised.log \subseteq CachedEntry
    /\ promised.hard_state \in HardState

\* Recovery never loses what was reported durable (INV2, INV6): every entry
\* whose flush poll_flush (or the synchronous path) reported, and that no
\* conflicting append or installed snapshot has superseded since, is in the
\* log with its term or below the snapshot, in every state the store runs in,
\* across any number of power losses.
DurableEntriesSurvive ==
    phase = "up" =>
        \A e \in promised.log : e.index > wal.compacted_to =>
            e \in ToSet(wal.entries)

\* I1 (seam/storage.rs): the term, vote and commit a node was told are
\* durable are the ones it starts from after a restart, or newer ones.
HardStateSurvives ==
    phase = "up" =>
        /\ wal.hard_state.term >= promised.hard_state.term
        /\ wal.hard_state.commit >= promised.hard_state.commit

\* What raft reads is what a restart would replay: the cached entries are the
\* ones in the files above the watermark, in order, whatever rollovers,
\* truncations, compactions and installs shaped the files.
ReplayMatchesCache ==
    phase = "up" =>
        LET Kept(rec) == IsEntry(rec) /\ rec.index > wal.compacted_to
            above == SelectSeq(Replay(segs), Kept)
        IN  /\ Len(above) = Len(wal.entries)
            /\ \A n \in DOMAIN above :
                 wal.entries[n] = [index |-> above[n].index,
                                   term |-> above[n].term]

\* The struct's own contract (wal.rs, `entries`): the cache is contiguous and
\* starts right above the watermark, so first_index, term and entries agree.
CacheStartsAtWatermark ==
    phase = "up" =>
        \A n \in DOMAIN wal.entries :
            wal.entries[n].index = wal.compacted_to + n

\* propsol 5.5.3, maybe_rollover: only the last segment can be torn, because
\* a segment is flushed before the log moves past it.
OnlyLastSegmentDirty ==
    \A a \in DOMAIN segs :
        Later(segs, a) # {} => segs[a].synced = Len(segs[a].recs)

\* I3: META names a snapshot whose file exists, at every point a power loss
\* can hit.
MetaNamesAFile == meta # 0 => meta \in files

\* A legal append is accepted: truncate_log_to makes room for a conflicting
\* suffix.
LegalAppendAccepted == phase # "append_error"

\* install_snapshot, "a crash in between must leave the store readable": a
\* restart after it is neither refused by open nor stopped by raft.
StoreStaysReadable == phase \notin {"refused", "panicked"}

=============================================================================
