----------------------------- MODULE MCServices -----------------------------
(***************************************************************************)
(* The services around the log, for TLC: watch streams, sessions and local *)
(* reads, the transport, and the checker that judges the histories of a    *)
(* load test.  They share no state, so one run explores one service at a   *)
(* time: `mode' is chosen at the start, and the other services stay in an  *)
(* initial state.  The watch streams are extended, not instantiated, so    *)
(* that TLC evaluates the assumption their proofs rest on.                 *)
(***************************************************************************)
EXTENDS WatchStream, TLC

CONSTANTS n1, n2, c1, c2   \* nodes and callers, as model values

VARIABLES
    mode,
    s_now, s_leader, s_log, s_inflight, s_seen, s_sessions, s_next_gc,
    s_next_sweep, s_faults,
    l_sm, l_applying, l_progress, l_changed, l_alive, l_due, l_box,
    l_pending_applied, l_closed, l_tasks, l_call, l_calls, l_restarts,
    h_events, h_store, h_taken,
    f_valid, f_addresses, f_senders, f_receivers, f_servers, f_call,
    f_tasks, f_foreign, f_conns, f_queue, f_rx, f_accepted, f_delivered,
    f_rejects, f_starts, f_sends

s_vars == <<s_now, s_leader, s_log, s_inflight, s_seen, s_sessions,
            s_next_gc, s_next_sweep, s_faults>>
l_vars == <<l_sm, l_applying, l_progress, l_changed, l_alive, l_due, l_box,
            l_pending_applied, l_closed, l_tasks, l_call, l_calls, l_restarts>>
h_vars == <<h_events, h_store, h_taken>>
f_vars == <<f_valid, f_addresses, f_senders, f_receivers, f_servers, f_call,
            f_tasks, f_foreign, f_conns, f_queue, f_rx, f_accepted,
            f_delivered, f_rejects, f_starts, f_sends>>

\* One session on two nodes; time runs past ttl + grace.
S == INSTANCE Sessions WITH
    Nodes <- {n1, n2}, Sessions <- {"s"}, Ttl <- 1, Grace <- 1,
    max_sessions <- 1, MaxTime <- 3, MaxLog <- 3, MaxInflight <- 2,
    MaxFaults <- 1,
    now <- s_now, leader <- s_leader, log <- s_log, inflight <- s_inflight,
    seen <- s_seen, sessions <- s_sessions, next_gc <- s_next_gc,
    next_sweep <- s_next_sweep, faults <- s_faults

LocalCalls ==
    {[op |-> "wait_applied", index |-> 2],
     [op |-> "range", start |-> 0, end |-> 0, limit |-> 2],
     [op |-> "range", start |-> 2, end |-> 1, limit |-> 1],
     [op |-> "multi_get", keys |-> <<2, 1>>],
     [op |-> "get_stale_with_index", key |-> 1],
     [op |-> "get_stale", key |-> 2]}

\* Two callers and one waiter slot, with one restart of the actor.
L == INSTANCE LocalReads WITH
    NumKeys <- 2, Clients <- {c1, c2}, Calls <- LocalCalls, Log <- <<1, 2>>,
    CommandQueue <- 1, MAX_PENDING_APPLIED_WAITS <- 1,
    MAX_STALE_RANGE_ENTRIES <- 1, MAX_MULTI_GET_RESULT <- 1,
    MaxCalls <- 3, MaxRestarts <- 1,
    sm <- l_sm, applying <- l_applying, progress <- l_progress,
    changed <- l_changed, alive <- l_alive, due <- l_due, box <- l_box,
    pending_applied <- l_pending_applied, closed <- l_closed,
    tasks <- l_tasks, call <- l_call, calls <- l_calls,
    restarts <- l_restarts

\* Every history of three calls by two clients, retries included.
H == INSTANCE HistoryChecker WITH
    Clients <- {1, 2}, Keys <- {"k"}, Failures <- {"timeout", "not_leader"},
    MAX_CHECK_POINTS <- 3, MaxCalls <- 3, MaxTries <- 2,
    events <- h_events, store <- h_store, taken <- h_taken

\* Two nodes on a host with two ports; one peer dials the first.
F == INSTANCE TransportFactory WITH
    Nodes <- {1, 2}, Ports <- {1, 2}, Routes <- {<<3, 1>>}, Capacity <- 1,
    ConnsOutlive <- TRUE, MaxStarts <- 2, MaxSends <- 1,
    valid <- f_valid, addresses <- f_addresses, senders <- f_senders,
    receivers <- f_receivers, servers <- f_servers, call <- f_call,
    tasks <- f_tasks, foreign <- f_foreign, conns <- f_conns,
    queue <- f_queue, rx <- f_rx, accepted <- f_accepted,
    delivered <- f_delivered, rejects <- f_rejects, starts <- f_starts,
    sends <- f_sends

ServicesInit ==
    /\ mode \in {"watch", "sessions", "local", "history", "transport"}
    /\ Init /\ S!Init /\ L!Init /\ H!Init /\ F!Init
    /\ mode # "sessions" => s_leader = n1
    /\ mode # "transport" => /\ f_valid /\ f_foreign = {}
                             /\ f_addresses = [n \in {1, 2} |-> n]

ServicesNext ==
    \/ mode = "watch" /\ Next /\ UNCHANGED <<mode, s_vars, l_vars, h_vars, f_vars>>
    \/ mode = "sessions" /\ S!Next /\ UNCHANGED <<mode, vars, l_vars, h_vars, f_vars>>
    \/ mode = "local" /\ L!Next /\ UNCHANGED <<mode, vars, s_vars, h_vars, f_vars>>
    \/ mode = "history" /\ H!Next /\ UNCHANGED <<mode, vars, s_vars, l_vars, f_vars>>
    \/ mode = "transport" /\ F!Next /\ UNCHANGED <<mode, vars, s_vars, l_vars, h_vars>>

ServicesSpec ==
    ServicesInit /\ [][ServicesNext]_<<mode, vars, s_vars, l_vars, h_vars, f_vars>>

Symmetry == Permutations({n1, n2}) \cup Permutations({c1, c2})

(***************************************************************************)
(* Properties.                                                             *)
(***************************************************************************)

\* A command takes effect a second time only more than ttl + grace after the
\* first, whichever nodes led, restarted or installed a snapshot in between
\* (session_band).
DuplicateOutsideWindow == mode = "sessions" => S!DuplicateOutsideWindow

\* SessionExpired is only ever said of a command that took effect
\* (start_proposal with enqueue_apply).
ExpiredMeansHappened == mode = "sessions" => S!ExpiredMeansHappened

\* A kept wait whose index has been reached is answered by a turn of the loop
\* that is already due (drive_cycle): no wake-up is lost.
NoLostWakeup == mode = "local" => L!NoLostWakeup

\* The depth-first search decides linearizability, on every history within
\* MAX_CHECK_POINTS (check_reduced).
VerdictIsExact == mode = "history" => H!VerdictIsExact

\* A local read answers from one state of the state machine, no older than a
\* wait_applied that returned before it, and a range answer is a prefix of the
\* range in that state which says `truncated' exactly when keys are missing,
\* however the apply task runs beside it (multi_get, get_range_with_index).
LocalReadsAreExact ==
    mode = "local" => L!ReadIsOneState /\ L!ReadAfterWait /\ L!RangeIsExact

\* What the tests' oracle reports is a violation: a phantom, the minimised
\* witness of a failed search, and, where no two writes to a key overlap and
\* nothing is deleted, a read-your-writes or monotonic-reads report
\* (check_phantom, shrink_witness, check_read_your_writes).
ReportsAreViolations ==
    mode = "history"
    => H!PhantomIsViolation /\ H!WitnessIsViolation /\ H!ReportIsViolation

\* Whatever `:0', second start or failed bind came before, a node whose server
\* runs is dialled where it listens, and between calls every open listener has
\* a handle that a later start or shutdown can cancel (start_targets).
ServersAreKnown == mode = "transport" => F!ServedIsAddressed /\ F!NoListenerLeak
=============================================================================
