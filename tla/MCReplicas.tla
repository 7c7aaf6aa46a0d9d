----------------------------- MODULE MCReplicas -----------------------------
(***************************************************************************)
(* What replicas compute and when one of them may answer a read, for TLC:  *)
(* the replicated state machine, and the actor and apply task serving a    *)
(* linearizable read (KvReplication shows that an applied index determines *)
(* the state; ApplyPath counts with indexes).  `mode' is chosen at the     *)
(* start; the other part stays in its initial state.                       *)
(***************************************************************************)
EXTENDS MCKvReplication

VARIABLES
    mode,
    a_log, a_handed, a_leader, a_flying, a_rounds, a_rt, a_turn, a_task,
    a_sm, a_used, a_replies, a_served

a_vars ==
    <<a_log, a_handed, a_leader, a_flying, a_rounds, a_rt, a_turn, a_task,
    a_sm, a_used, a_replies, a_served>>

\* One read against a change of membership and of the leadership.
A == INSTANCE ApplyPath WITH
    Sessions <- {s1}, ApplyDepth <- 1, OutcomeDepth <- 1, BacklogLimit <- 2,
    SnapshotEvery <- 2, MaxLog <- 3, MaxProposals <- 0, MaxConf <- 1,
    MaxReads <- 1, MaxInstalls <- 0, MaxLeaderships <- 1,
    log <- a_log, handed <- a_handed, leader <- a_leader, flying <-
    a_flying, rounds <- a_rounds, rt <- a_rt, turn <- a_turn, task <-
    a_task, sm <- a_sm, used <- a_used, replies <- a_replies, served <-
    a_served

ReplicasInit == mode \in {"machines", "reads"} /\ Init /\ A!Init

ReplicasNext ==
    \/ mode = "machines" /\ Next /\ UNCHANGED <<mode, a_vars>>
    \/ mode = "reads" /\ A!Next /\ UNCHANGED <<mode, vars>>

\* A linearizable read is answered from a state that holds every write
\* committed when the read arrived, whatever the apply task, the ReadIndex
\* round and the leadership did in between (serve_reads).
ReadsAreFresh == mode = "reads" => A!ReadsAreFresh
=============================================================================
