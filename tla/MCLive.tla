------------------------------- MODULE MCLive -------------------------------
(***************************************************************************)
(* What must eventually happen, for TLC: outbound queues drain,            *)
(* acknowledgements are sent, snapshot transfers end, and an operator's    *)
(* commands are answered.  The parts share no state, so one run explores   *)
(* one of them at a time: `mode' is chosen at the start, and the others    *)
(* stay in their initial states.                                           *)
(***************************************************************************)
EXTENDS OutboundSender

CONSTANTS p1, p2, me, ghost   \* the peers, this node, and a stranger

MCPeers == {p1, p2}
MCStrangers == {ghost}

VARIABLES
    mode,
    r_raft, r_pending, r_disk, r_acked, r_handed, r_skipped, r_phase,
    r_crashes,
    t_sm, t_snap, t_files, t_wait, t_failed, t_matched, t_term, t_progress,
    t_offers, t_fetch, t_tasks, t_path, t_content, t_done, t_stepped,
    t_faults,
    h_leader, h_believed, h_voters, h_transferee, h_entries,
    h_pending_transfer, h_pending_conf, h_cmd, h_elections

r_vars == <<r_raft, r_pending, r_disk, r_acked, r_handed, r_skipped,
            r_phase, r_crashes>>
t_vars == <<t_sm, t_snap, t_files, t_wait, t_failed, t_matched, t_term,
            t_progress, t_offers, t_fetch, t_tasks, t_path, t_content,
            t_done, t_stepped, t_faults>>
h_vars == <<h_leader, h_believed, h_voters, h_transferee, h_entries,
            h_pending_transfer, h_pending_conf, h_cmd, h_elections>>

\* Two entries, two cycles in flight, a device that works.
R == INSTANCE ReadyPipeline WITH
    MaxIndex <- 2, MaxInFlight <- 2, MaxCrashes <- 0, Snapshots <- {},
    Offloaded <- TRUE, FlushMayFail <- FALSE,
    raft <- r_raft, pending <- r_pending, disk <- r_disk, acked <- r_acked,
    handed <- r_handed, skipped <- r_skipped, phase <- r_phase,
    crashes <- r_crashes

\* Snapshots of two chunks, two faults and a change of the leadership.
T == INSTANCE SnapshotTransfer WITH
    SNAPSHOT_FETCH_ATTEMPTS <- 2, Chunks <- 2, MaxIndex <- 2, MaxTerm <- 2,
    MaxFaults <- 2,
    sm <- t_sm, snap <- t_snap, files <- t_files, wait <- t_wait,
    failed <- t_failed, matched <- t_matched, term <- t_term,
    progress <- t_progress, offers <- t_offers, fetch <- t_fetch,
    tasks <- t_tasks, path <- t_path, content <- t_content, done <- t_done,
    stepped <- t_stepped, faults <- t_faults

Ask(op, id, at, cli) == [op |-> op, id |-> id, at |-> at, cli |-> cli]

OperatorCommands ==
    <<Ask("remove", 1, 2, FALSE), Ask("transfer", 3, 1, TRUE), Ask("remove", 1, 1, TRUE)>>

\* Removing the leader from a handle and from the command line, and a transfer.
H == INSTANCE Handover WITH
    Nodes <- {1, 2, 3}, Voters0 <- {1, 2, 3}, Leader0 <- 1,
    Commands <- OperatorCommands, MAX_REDIRECTS <- 1, MaxElections <- 1,
    leader <- h_leader, believed <- h_believed, voters <- h_voters,
    transferee <- h_transferee, entries <- h_entries,
    pending_transfer <- h_pending_transfer, pending_conf <- h_pending_conf,
    cmd <- h_cmd, elections <- h_elections

LiveInit ==
    /\ mode \in {"outbound", "pipeline", "transfer", "handover"}
    /\ Init /\ R!Init /\ T!Init /\ H!Init

\* One part takes a step and the others do not.
OnlyO == mode = "outbound" /\ UNCHANGED <<mode, r_vars, t_vars, h_vars>>
OnlyR == mode = "pipeline" /\ UNCHANGED <<mode, vars, t_vars, h_vars>>
OnlyT == mode = "transfer" /\ UNCHANGED <<mode, vars, r_vars, h_vars>>
OnlyH == mode = "handover" /\ UNCHANGED <<mode, vars, r_vars, t_vars>>

LiveNext ==
    \/ OnlyO /\ Next
    \/ OnlyR /\ R!Next
    \/ OnlyT /\ T!Next
    \/ OnlyH /\ H!Next

\* The steps each part must take once they stay enabled, as its module has
\* them.  One part runs, so the steps of different parts are named together.
Fair1 ==
    \/ OnlyO /\ Drain
    \/ OnlyR /\ R!Step
    \/ OnlyT /\ T!Fetching
    \/ OnlyH /\ H!Next

Fair2 ==
    \/ OnlyO /\ SendSome(p1)
    \/ OnlyR /\ R!FlushSome
    \/ OnlyT /\ T!finish_snapshot_fetch

Fair3 ==
    \/ OnlyO /\ SendSome(p2)
    \/ OnlyT /\ T!poll_snapshot("follower")

Fair4 ==
    \/ OnlyO /\ Enqueue
    \/ OnlyT /\ \E m \in t_offers : T!start_snapshot_fetch(m)

Fair5 == OnlyT /\ T!Offer

Fair6 == OnlyT /\ T!Replicate

all == <<mode, vars, r_vars, t_vars, h_vars>>

LiveSpec ==
    /\ LiveInit /\ [][LiveNext]_all
    /\ WF_all(Fair1) /\ WF_all(Fair2) /\ WF_all(Fair3)
    /\ WF_all(Fair4) /\ WF_all(Fair5) /\ WF_all(Fair6)

(***************************************************************************)
(* Properties.                                                             *)
(***************************************************************************)

\* No acknowledgement stays behind in raft or in the pipeline, when the device
\* works and the process is not restarted, whatever the cycles before and after
\* it carry (RaftNode::step, finish_persisted).
AcksAreSent ==
    []<>(/\ r_raft.ack <= r_acked
         /\ \A i \in DOMAIN r_pending : r_pending[i].ack <= r_acked)

\* No lost wake-up: what is queued for a peer is taken by the task, unless the
\* node goes away, even when it was queued while the task was sending
\* (run_outbound_sender).
QueueIsDrained == \A p \in Peers : []<>(queue[p] = << >> \/ task = "stopped")

\* Every transfer comes to an end and is dealt with.
EveryFetchEnds ==
    []<>(t_failed["follower"] \/ (t_tasks = {} /\ t_done = << >>))

\* An operator's command that reports success has succeeded: the target of a
\* transfer has led since it was asked for, and a removed node is out of the
\* configuration, whatever was elected, aborted, lost or retried in between
\* (transfer_leader, remove_member, members.rs).
CommandIsReal == mode = "handover" => H!TransferIsReal /\ H!RemovalIsReal
=============================================================================
