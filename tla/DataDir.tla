------------------------------ MODULE DataDir ------------------------------
(***************************************************************************)
(* What a data directory holds beside the log segments, and who writes it  *)
(* (arachne/src/storage/meta.rs, membership.rs, snapshot.rs, wal.rs,       *)
(* arachne-node/src/force_recovery.rs): META with the identity and the     *)
(* snapshot pointer, the membership file, the snapshot files.  Each is     *)
(* replaced by writing a temporary file, syncing it, renaming it and       *)
(* syncing the directory, and a crash may fall between any two of those.   *)
(* The writers are the node and the operator's force-recovery.             *)
(*                                                                         *)
(* The segments are modelled in WalStorage: here a record is durable when  *)
(* it is written.  A configuration is its set of voters.                   *)
(***************************************************************************)
EXTENDS Naturals, Sequences

CONSTANTS
    Log,       \* what the cluster commits: NoChange or <<type, node>>
    Voters0,   \* initial_cluster
    Early,     \* the node may be started or stopped while force-recovery runs
    Cut,       \* a crash may fall between the truncation and the new hard state
    KeepId,    \* --keep-cluster-id: the choices the operator may make
    MaxTerm, MaxCrashes, MaxRecoveries   \* bounds

NoChange == <<"Entry", 0>>
Absent == [torn |-> FALSE]
Torn == [torn |-> TRUE]
Files == {"META", "membership", "snapshots"}
NoWrite == [file |-> "", to |-> Absent, step |-> "idle"]

VARIABLES
    files,    \* per file: what is read now, and what a crash may leave
    tmp,      \* per file: its temporary file and whether that is synced
    wal,      \* the records on disk: first and last entry, hard state
    lock,     \* the process that holds LOCK
    config,   \* the configuration file the node is started with
    node,     \* the node process: pc, applied_index, conf_state, ...
    tool,     \* the force-recovery process
    io,       \* per process: the replacement under way
    reset,    \* force-recovery has cut the log
    done,     \* highest index a node has ever applied
    crashes, recoveries

vars == <<files, tmp, wal, lock, config, node, tool, io, reset, done, crashes, recoveries>>

Changed(voters, e) ==
    CASE e[1] = "AddNode" -> voters \cup {e[2]}
      [] e[1] = "RemoveNode" -> voters \ {e[2]}
      [] OTHER -> voters

ConfAt(i) ==
    LET after[k \in Nat] == IF k = 0 THEN Voters0 ELSE Changed(after[k - 1], Log[k])
    IN  after[i]

Larger(a, b) == IF a < b THEN b ELSE a

Read(f) == files[f].now

Down == [pc |-> "down", cluster |-> "", applied |-> 0, voters |-> {}, confIndex |-> 0,
         snap |-> 0, wait |-> 0, saving |-> 0]
Away == [pc |-> "away", meta |-> Absent, hs |-> [term |-> 0, vote |-> 0, commit |-> 0]]

(***************************************************************************)
(* Replacing a file: write_meta, write_membership, save_snapshot.          *)
(***************************************************************************)
Replace(p, f, v) == io' = [io EXCEPT ![p] = [file |-> f, to |-> v, step |-> "write"]]

Next4 == [write |-> "sync", sync |-> "rename", rename |-> "fsync_dir"]

Step(p) == io' = [io EXCEPT ![p].step = Next4[io[p].step]]

Write(p) ==
    /\ io[p].step = "write"
    /\ tmp' = [tmp EXCEPT ![io[p].file] = [val |-> io[p].to, synced |-> FALSE]]
    /\ Step(p)
    /\ UNCHANGED <<files, wal, lock, config, node, tool, done, crashes, recoveries, reset>>

Sync(p) ==
    /\ io[p].step = "sync"
    /\ tmp' = [tmp EXCEPT ![io[p].file].synced = TRUE]
    /\ Step(p)
    /\ UNCHANGED <<files, wal, lock, config, node, tool, done, crashes, recoveries, reset>>

\* A rename that finds the temporary file renamed away by the other process
\* is an error, on which the process stops.
Gone(p) ==
    /\ io' = [io EXCEPT ![p] = NoWrite]
    /\ lock' = IF lock = p THEN "nobody" ELSE lock
    /\ IF p = "node" THEN node' = Down /\ UNCHANGED tool ELSE tool' = Away /\ UNCHANGED node
    /\ UNCHANGED <<files, tmp>>

Rename(p) ==
    /\ io[p].step = "rename"
    /\ \E f \in {io[p].file} :
          IF tmp[f].val = Absent THEN Gone(p)
          ELSE /\ files' = [files EXCEPT ![f] =
                     [now |-> tmp[f].val,
                      disk |-> @.disk \cup {IF tmp[f].synced THEN tmp[f].val ELSE Torn}]]
               /\ tmp' = [tmp EXCEPT ![f] = [val |-> Absent, synced |-> FALSE]]
               /\ Step(p)
               /\ UNCHANGED <<lock, node, tool>>
    /\ UNCHANGED <<wal, config, done, crashes, recoveries, reset>>

\* The last step, with what the caller does next.
Returned(p) == io[p].step = "fsync_dir"

Durable == [f \in Files |->
    [files[f] EXCEPT !.disk = IF Torn \in @ THEN {Torn} ELSE {files[f].now}]]

(***************************************************************************)
(* WalStorage::open.                                                       *)
(***************************************************************************)
\* load_snapshot: the newest file at or below the index META names.
load_snapshot(named, all) ==
    LET ss == {s \in all : s.index <= named}
    IN  IF named = 0 \/ ss = {} THEN [index |-> 0, voters |-> {}]
        ELSE CHOOSE s \in ss : \A t \in ss : t.index <= s.index

Readable == Torn \notin {Read("META"), Read("membership")}

\* The log meets the snapshot and reaches the commit index.
Complete(s) ==
    /\ wal.first <= s.index + 1
    /\ wal.hs.commit <= Larger(wal.last, s.index)

\* The membership file wins only when it is newer than the snapshot.
FileFirst(s) ==
    IF Read("membership") # Absent
    THEN [index |-> Read("membership").index, voters |-> Read("membership").voters]
    ELSE s

Precedence(s) ==
    IF Read("membership") # Absent /\ Read("membership").index > s.index
    THEN [index |-> Read("membership").index, voters |-> Read("membership").voters]
    ELSE s

\* initial_state of the store, and of the raft adapter over it: an empty
\* configuration falls back to the bootstrap voters.
initial_state(voters) == IF voters = {} THEN config.voters ELSE voters

Opens(cluster) ==
    /\ lock = "nobody" /\ Readable
    /\ Read("META") # Absent /\ Read("META").cluster = cluster
    /\ Complete(load_snapshot(Read("META").snap, Read("snapshots").all))

open(p, cluster) == Opens(cluster) /\ lock' = p

\* recover_meta in a fresh directory.
Create ==
    /\ node.pc = "down" /\ lock = "nobody" /\ tool = Away
    /\ Read("META") = Absent
    /\ lock' = "node"
    /\ node' = [node EXCEPT !.pc = "create", !.cluster = config.cluster]
    /\ Replace("node", "META", [cluster |-> config.cluster, snap |-> 0])
    /\ UNCHANGED <<files, tmp, wal, config, tool, done, crashes, recoveries, reset>>

Created ==
    /\ node.pc = "create" /\ Returned("node")
    /\ files' = Durable
    /\ io' = [io EXCEPT !["node"] = NoWrite]
    /\ node' = [node EXCEPT !.pc = "run", !.voters = config.voters]
    /\ UNCHANGED <<tmp, wal, lock, config, tool, done, crashes, recoveries, reset>>

\* Arachne::open: the state machine restarts from the snapshot.
Start ==
    /\ node.pc = "down" /\ (Early \/ tool = Away)
    /\ open("node", config.cluster)
    /\ \E s \in {load_snapshot(Read("META").snap, Read("snapshots").all)} : \E c \in {Precedence(s)} :
          node' = [pc |-> "run", cluster |-> config.cluster, applied |-> s.index,
                   voters |-> initial_state(c.voters), confIndex |-> c.index,
                   snap |-> s.index, wait |-> 0, saving |-> 0]
    /\ UNCHANGED <<files, tmp, wal, config, tool, io, done, crashes, recoveries, reset>>

\* Arachne::shutdown: the actor stops, which drops the WAL and its lock.
Shutdown ==
    /\ node.pc = "run" /\ (Early \/ tool = Away)
    /\ lock' = "nobody" /\ node' = Down
    /\ UNCHANGED <<files, tmp, wal, config, tool, io, done, crashes, recoveries, reset>>

\* The transport's handshake: a hello is accepted under the receiver's own id.
validate_hello(hello, cluster) == hello = cluster

(***************************************************************************)
(* The node.  Records are durable before what they commit is applied.      *)
(***************************************************************************)
Last == Larger(wal.last, node.snap)

Persist(r) ==
    /\ node.pc = "run" /\ wal' = r
    /\ UNCHANGED <<files, tmp, lock, config, node, tool, io, done, crashes, recoveries, reset>>

\* Entries arrive while the node is in its first cluster.
Append1 ==
    /\ node.cluster = "old" /\ Last < Len(Log)
    /\ Persist([wal EXCEPT !.last = Last + 1])

Commit(k) == wal.hs.commit < k /\ k <= Last /\ Persist([wal EXCEPT !.hs.commit = k])

Vote(c) == wal.hs.term < MaxTerm /\ Persist([wal EXCEPT !.hs.term = @ + 1, !.hs.vote = c])

\* What the node may apply: entries whose commit is on disk.
Applicable == node.applied < wal.hs.commit

\* What apply_conf_change stores for the change at k.
Stored(k) == [index |-> k, voters |-> Changed(node.voters, Log[k])]

\* apply_conf_change: skipped when the stored configuration reflects it,
\* otherwise saved before it counts as applied.
apply_conf_change(k) ==
    /\ node' = [node EXCEPT !.pc = "conf"]
    /\ Replace("node", "membership", Stored(k))
    /\ UNCHANGED done

Apply ==
    /\ node.pc = "run" /\ Applicable
    /\ \E k \in {node.applied + 1} :
          IF Log[k] # NoChange /\ k > node.confIndex THEN apply_conf_change(k)
          ELSE /\ node' = [node EXCEPT !.applied = k]
               /\ done' = Larger(done, k)
               /\ UNCHANGED io
    /\ UNCHANGED <<files, tmp, wal, lock, config, tool, crashes, recoveries, reset>>

\* save_conf_state returns.
save_conf_state ==
    /\ node.pc = "conf" /\ Returned("node")
    /\ files' = Durable
    /\ node' = [node EXCEPT !.pc = "run", !.applied = @ + 1, !.confIndex = node.applied + 1,
                            !.voters = io["node"].to.voters]
    /\ done' = Larger(done, node.applied + 1)
    /\ io' = [io EXCEPT !["node"] = NoWrite]
    /\ UNCHANGED <<tmp, wal, lock, config, tool, crashes, recoveries, reset>>

\* maybe_snapshot: the apply task serializes its state at its index ...
maybe_snapshot ==
    /\ node.pc = "run" /\ node.wait = 0 /\ node.applied > node.snap
    /\ node' = [node EXCEPT !.wait = node.applied]
    /\ UNCHANGED <<files, tmp, wal, lock, config, tool, io, done, crashes, recoveries, reset>>

\* save_snapshot: the member table takes over when it is newer.
Save(i, voters, pc) ==
    /\ node' = [node EXCEPT !.pc = pc, !.saving = i, !.wait = IF pc = "local" THEN 0 ELSE @,
                            !.voters = IF i > node.confIndex THEN voters ELSE @,
                            !.confIndex = Larger(@, i)]
    /\ Replace("node", "snapshots",
               [all |-> Read("snapshots").all \cup {[index |-> i, voters |-> voters]}])

\* ... and poll_snapshot saves it with the configuration of that moment.
poll_snapshot ==
    /\ node.pc = "run" /\ node.wait > node.snap
    /\ Save(node.wait, node.voters, "local")
    /\ UNCHANGED <<files, tmp, wal, lock, config, tool, done, crashes, recoveries, reset>>

\* save_snapshot keeps the newer snapshot it already has.
poll_stale_snapshot ==
    /\ node.pc = "run" /\ 0 < node.wait /\ node.wait <= node.snap
    /\ node' = [node EXCEPT !.wait = 0]
    /\ UNCHANGED <<files, tmp, wal, lock, config, tool, io, done, crashes, recoveries, reset>>

\* install_snapshot: one from the leader at i, whose configuration is that of
\* an index j at or above i (see poll_snapshot).
install_snapshot(i, j) ==
    /\ node.cluster = "old"
    /\ node.pc = "run" /\ node.applied < i /\ wal.hs.commit < i /\ node.snap < i
    /\ Save(i, ConfAt(j), "install")
    /\ UNCHANGED <<files, tmp, wal, lock, config, tool, done, crashes, recoveries, reset>>

\* The snapshot file is durable: META is pointed at it.
SnapshotSaved ==
    /\ node.pc \in {"local", "install"} /\ Returned("node")
    /\ files' = Durable
    /\ node' = [node EXCEPT !.pc = [local |-> "local2", install |-> "install2"][@]]
    /\ Replace("node", "META", [cluster |-> node.cluster, snap |-> node.saving])
    /\ UNCHANGED <<tmp, wal, lock, config, tool, done, crashes, recoveries, reset>>

\* Mutant: a local snapshot compacts what was applied after it, too.
CompactedToApplied(pc, i) ==
    IF pc = "local2" THEN [wal EXCEPT !.first = node.applied + 1]
    ELSE [wal EXCEPT !.first = i + 1, !.last = i, !.hs.commit = i]

\* create_snapshot compacts the log it covers; install_snapshot drops the log,
\* and the hard state raft hands over with it follows.
Compacted(pc, i) ==
    IF pc = "local2" THEN [wal EXCEPT !.first = i + 1]
    ELSE [wal EXCEPT !.first = i + 1, !.last = i, !.hs.commit = i]

\* prune_snapshots: the newest two files stay.
Pruned(all) == {s \in all : \A t, u \in all : s.index < t.index /\ t.index < u.index => FALSE}

PointerSaved ==
    /\ node.pc \in {"local2", "install2"} /\ Returned("node")
    /\ \E all \in {[all |-> Pruned(Read("snapshots").all)]} :
          files' = [Durable EXCEPT !["snapshots"] = [now |-> all, disk |-> {all}]]
    /\ io' = [io EXCEPT !["node"] = NoWrite]
    /\ \E i \in {io["node"].to.snap} :
          /\ wal' = Compacted(node.pc, i)
          /\ node' = [node EXCEPT !.pc = "run", !.snap = i, !.saving = 0, !.applied = Larger(@, i)]
          /\ done' = Larger(done, i)
    /\ UNCHANGED <<tmp, lock, config, tool, crashes, recoveries, reset>>

(***************************************************************************)
(* force_recovery.  META is read before the lock is taken and written      *)
(* after it is dropped.                                                    *)
(***************************************************************************)
read_meta ==
    /\ tool = Away /\ recoveries < MaxRecoveries
    /\ Read("META") \notin {Absent, Torn}
    /\ recoveries' = recoveries + 1
    /\ tool' = [tool EXCEPT !.pc = "open", !.meta = Read("META")]
    /\ UNCHANGED <<files, tmp, wal, lock, config, node, io, done, crashes, reset>>

OpenOld ==
    /\ tool.pc = "open"
    /\ open("tool", tool.meta.cluster)
    /\ tool' = [tool EXCEPT !.pc = "truncate", !.hs = wal.hs]
    /\ UNCHANGED <<files, tmp, wal, config, node, io, done, crashes, recoveries, reset>>

Refused ==
    /\ tool.pc = "open" /\ ~Opens(tool.meta.cluster)
    /\ tool' = Away
    /\ UNCHANGED <<files, tmp, wal, lock, config, node, io, done, crashes, recoveries, reset>>

\* The cut falls right behind the entry at the commit index, so the hard state
\* that committed it, which follows the entry, is cut as well.
truncate_log_to(keep) ==
    IF wal.last <= keep THEN {wal}
    ELSE {[wal EXCEPT !.last = keep, !.hs = [term |-> 1, vote |-> 0, commit |-> c]] :
             c \in 0 .. IF keep = 0 THEN 0 ELSE keep - 1}

Truncate ==
    /\ tool.pc = "truncate"
    /\ wal' \in truncate_log_to(tool.hs.commit)
    /\ tool' = [tool EXCEPT !.pc = "vote"]
    /\ reset' = TRUE
    /\ UNCHANGED <<files, tmp, lock, config, node, io, done, crashes, recoveries>>

ResetInTerm(hs) == [hs EXCEPT !.vote = 1]
Reset(hs) == [hs EXCEPT !.term = @ + 1, !.vote = 1]

\* set_hard_state; dropping the WAL releases the lock.
set_hard_state ==
    /\ tool.pc = "vote"
    /\ wal' = [wal EXCEPT !.hs = Reset(tool.hs)]
    /\ lock' = "nobody"
    /\ tool' = [tool EXCEPT !.pc = "unlocked"]
    /\ UNCHANGED <<files, tmp, config, node, io, done, crashes, recoveries, reset>>

write_meta ==
    /\ tool.pc = "unlocked"
    /\ tool' = [tool EXCEPT !.pc = "meta"]
    /\ \E keep \in KeepId :
          Replace("tool", "META", [tool.meta EXCEPT !.cluster = IF keep THEN @ ELSE "new"])
    /\ UNCHANGED <<files, tmp, wal, lock, config, node, done, crashes, recoveries, reset>>

\* The report, and the single-voter configuration the operator now starts
\* the node with.
render_single_voter_config ==
    /\ tool.pc = "meta" /\ Returned("tool")
    /\ files' = Durable
    /\ config' = [cluster |-> io["tool"].to.cluster, voters |-> {1}]
    /\ tool' = Away
    /\ io' = [io EXCEPT !["tool"] = NoWrite]
    /\ UNCHANGED <<tmp, wal, lock, node, done, crashes, recoveries, reset>>

(***************************************************************************)
(* A crash of the machine: each file is what its last durable rename left, *)
(* or what a later one did.                                                *)
(***************************************************************************)
Crash ==
    /\ crashes < MaxCrashes /\ (node.pc # "down" \/ tool # Away)
    /\ Cut \/ tool.pc # "vote"
    /\ crashes' = crashes + 1
    /\ \E m \in files["META"].disk, b \in files["membership"].disk, s \in files["snapshots"].disk :
          files' = [f \in Files |-> LET v == CASE f = "META" -> m [] f = "membership" -> b
                                               [] OTHER -> s
                                    IN  [now |-> v, disk |-> {v}]]
    /\ tmp' = [f \in Files |-> [val |-> Absent, synced |-> FALSE]]
    /\ lock' = "nobody" /\ node' = Down /\ tool' = Away
    /\ io' = [p \in {"node", "tool"} |-> NoWrite]
    /\ UNCHANGED <<wal, config, done, recoveries, reset>>

Init ==
    /\ files = [f \in Files |->
           LET v == IF f = "snapshots" THEN [all |-> {}] ELSE Absent IN [now |-> v, disk |-> {v}]]
    /\ tmp = [f \in Files |-> [val |-> Absent, synced |-> FALSE]]
    /\ wal = [first |-> 1, last |-> 0, hs |-> [term |-> 1, vote |-> 0, commit |-> 0]]
    /\ lock = "nobody" /\ config = [cluster |-> "old", voters |-> Voters0]
    /\ node = Down /\ tool = Away
    /\ io = [p \in {"node", "tool"} |-> NoWrite]
    /\ reset = FALSE /\ done = 0 /\ crashes = 0 /\ recoveries = 0

Next ==
    \/ \E p \in {"node", "tool"} : Write(p) \/ Sync(p) \/ Rename(p)
    \/ Create \/ Created \/ Start \/ Shutdown
    \/ Append1 \/ (\E k \in 1 .. Len(Log) : Commit(k)) \/ (\E c \in Voters0 : Vote(c))
    \/ Apply \/ save_conf_state
    \/ maybe_snapshot \/ poll_snapshot \/ poll_stale_snapshot
    \/ \E i \in 1 .. Len(Log) : \E j \in i .. Len(Log) : install_snapshot(i, j)
    \/ SnapshotSaved \/ PointerSaved
    \/ read_meta \/ OpenOld \/ Refused \/ Truncate \/ set_hard_state
    \/ write_meta \/ render_single_voter_config
    \/ Crash

Spec == Init /\ [][Next]_vars

(***************************************************************************)
(* Properties.                                                             *)
(***************************************************************************)
TypeOK ==
    /\ wal.first \in 1 .. wal.last + 1
    /\ wal.hs.term \in 1 .. MaxTerm + MaxRecoveries /\ wal.hs.commit \in 0 .. Len(Log)
    /\ lock \in {"nobody", "node", "tool"}
    /\ node.confIndex \in 0 .. Len(Log) /\ done \in 0 .. Len(Log)

\* The replacement protocol: whatever step a crash falls on, META and the
\* membership file are the old or the new one, never a part of one.
NeverTorn == \A f \in Files : Torn \notin files[f].disk

\* I6 of membership.rs: no crash, and no force-recovery, leaves a membership
\* file newer than the log, so a restart never skips a change it does not hold.
MembershipBehindLog ==
    \A m \in files["membership"].disk : m # Absent => m.index <= wal.last

\* The running node's configuration (file, snapshot or bootstrap at its start,
\* then replay) has every change at or below its applied and its recorded index.
StartsWithLoggedMembership ==
    node.pc = "run" /\ ~reset =>
        \E k \in Larger(node.applied, node.confIndex) .. Len(Log) : node.voters = ConfAt(k)

\* Whatever a crash leaves, META names a snapshot that is there and meets the
\* log: open succeeds under the identity META holds.
DirOpens ==
    \A m \in files["META"].disk, s \in files["snapshots"].disk : m \notin {Absent, Torn} =>
        Complete(load_snapshot(m.snap, s.all))

\* force-recovery discards only what no node has applied.
AppliedSurvives ==
    node.pc = "down" /\ Read("META") # Absent =>
        done <= Larger(wal.last, load_snapshot(Read("META").snap, Read("snapshots").all).index)

\* One vote per term, force-recovery's own vote for itself included.
VoteKept ==
    [][wal'.hs.term = wal.hs.term /\ wal.hs.vote # 0 => wal'.hs.vote = wal.hs.vote]_vars

\* force_recovery.rs: the recovered directory starts as a single-voter cluster.
RecoveredIsSingleVoter ==
    node.pc = "run" /\ config.voters = {1} => node.voters = {1}

\* force_recovery.rs, precondition 1: nobody else has the directory open while
\* force-recovery rewrites it.
NobodyElse == tool.pc \in {"truncate", "vote", "unlocked", "meta"} => node.pc = "down"

\* force_recovery.rs: with a rotated id the surviving majority never meets a
\* node whose log has been cut.
RecoveredNeverRejoins ==
    node.pc = "run" /\ reset => ~validate_hello(node.cluster, "old")
=============================================================================
