----------------------------- MODULE MCCluster -----------------------------
(***************************************************************************)
(* What a cluster is made of besides its log, for TLC: its membership, the *)
(* data directory a member starts from, and the snapshots that bring a     *)
(* member up to date (the constants of the configuration).  Each is        *)
(* explored by itself: `mode' is chosen at the start, and the others stay  *)
(* as they were then.                                                      *)
(***************************************************************************)
EXTENDS SnapshotTransfer, TLC

CONSTANTS n1, n2, n3   \* the members, as model values

VARIABLES
    mode,
    m_leader, m_log, m_commit, m_first, m_known, m_matched, m_handed,
    m_applied, m_conf, m_confIndex, m_pendIndex, m_pending, m_replies,
    m_failed, m_overlapped, m_asked, m_elected, m_restarted,
    d_files, d_tmp, d_wal, d_lock, d_config, d_node, d_tool, d_io, d_reset,
    d_done, d_crashes, d_recoveries

m_vars == <<m_leader, m_log, m_commit, m_first, m_known, m_matched,
            m_handed, m_applied, m_conf, m_confIndex, m_pendIndex,
            m_pending, m_replies, m_failed, m_overlapped, m_asked,
            m_elected, m_restarted>>
d_vars == <<d_files, d_tmp, d_wal, d_lock, d_config, d_node, d_tool, d_io,
            d_reset, d_done, d_crashes, d_recoveries>>

\* A cluster of one voter that grows by its two learners and may lose the first.
M == INSTANCE Membership WITH
    Nodes <- {n1, n2, n3}, Voters0 <- {n1}, Learners0 <- {n2, n3}, Leader0 <- n1,
    promote_lag_entries <- 0,
    Changes <- {<<"AddNode", n2>>, <<"AddNode", n3>>, <<"RemoveNode", n1>>},
    Crashing <- {n1}, MaxLog <- 4, MaxWrites <- 1, MaxAsked <- 2,
    MaxElections <- 2, MaxRestarts <- 1,
    leader <- m_leader, log <- m_log, commit <- m_commit, first <- m_first,
    known <- m_known, matched <- m_matched, handed <- m_handed,
    applied <- m_applied, conf <- m_conf, confIndex <- m_confIndex,
    pendIndex <- m_pendIndex, pending <- m_pending, replies <- m_replies,
    failed <- m_failed, overlapped <- m_overlapped, asked <- m_asked,
    elected <- m_elected, restarted <- m_restarted

\* A write and two changes of the members, one crash and one force-recovery.
D == INSTANCE DataDir WITH
    Log <- <<<<"Entry", 0>>, <<"AddNode", 3>>, <<"RemoveNode", 2>>>>,
    Voters0 <- {1, 2}, Early <- FALSE, Cut <- FALSE, KeepId <- {FALSE},
    MaxTerm <- 2, MaxCrashes <- 1, MaxRecoveries <- 1,
    files <- d_files, tmp <- d_tmp, wal <- d_wal, lock <- d_lock,
    config <- d_config, node <- d_node, tool <- d_tool, io <- d_io,
    reset <- d_reset, done <- d_done, crashes <- d_crashes,
    recoveries <- d_recoveries

ClusterInit ==
    /\ mode \in {"membership", "datadir", "transfer"}
    /\ M!Init /\ D!Init /\ Init

ClusterNext ==
    \/ mode = "membership" /\ M!Next /\ UNCHANGED <<mode, d_vars, vars>>
    \/ mode = "datadir" /\ D!Next /\ UNCHANGED <<mode, m_vars, vars>>
    \/ mode = "transfer" /\ Next /\ UNCHANGED <<mode, m_vars, d_vars>>

ClusterSpec == ClusterInit /\ [][ClusterNext]_<<mode, m_vars, d_vars, vars>>

Symmetry == Permutations({n2, n3})

(***************************************************************************)
(* Properties.                                                             *)
(***************************************************************************)

\* No election loses a committed entry while changes have not overlapped: the
\* quorum that elects meets the quorum that committed, although the nodes have
\* applied different configurations (Command::ConfChange, pump_committed).
CommittedIsKept ==
    [][m_elected' # m_elected /\ ~m_overlapped => m_commit < m_first']_m_vars

\* A caller is told of success only when its own change is committed
\* (stage_committed attributes by identity; a change that raft replaced by an
\* empty entry is never confirmed).
OkMeansCommitted == mode = "membership" => M!OkMeansCommitted

\* The running node's configuration has every change at or below its applied
\* index, whether it started from the file, a snapshot or the bootstrap voters.
StartsWithLoggedMembership == mode = "datadir" => D!StartsWithLoggedMembership

\* One vote per term, force-recovery's own vote for itself included.
VoteKept ==
    [][d_wal'.hs.term = d_wal.hs.term /\ d_wal.hs.vote # 0
         => d_wal'.hs.vote = d_wal.hs.vote]_d_vars

\* Whatever step of a replacement or of a force-recovery a crash falls on, the
\* directory can be started from and has lost nothing: META and the membership
\* file are the old or the new one, META names a snapshot that is there and
\* meets the log, the membership file is no newer than the log, and no entry a
\* node has applied is gone (write_file_atomic, save_snapshot, force_recovery).
DirIsWhole ==
    mode = "datadir"
    => D!NeverTorn /\ D!DirOpens /\ D!MembershipBehindLog /\ D!AppliedSurvives
=============================================================================
