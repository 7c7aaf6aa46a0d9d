------------------------------ MODULE Sessions ------------------------------
(***************************************************************************)
(* The life of a session, a (client_id, seq_no) pair, across the cluster   *)
(* (arachne/src/runtime/mod.rs, state_machine/kv.rs): the replicated table *)
(* that deduplicates a retried command, and beside it every node's own     *)
(* table of when it last saw a session committed.  The leader's table      *)
(* decides which retries are proposed, which are answered SessionExpired,  *)
(* and which sessions a replicated GC entry removes everywhere.            *)
(*                                                                         *)
(* Consensus is external: one leader at a time appends proposals, a prefix *)
(* of what is in flight survives an election.                              *)
(***************************************************************************)
EXTENDS Naturals, Sequences, SequencesExt, FiniteSets

CONSTANTS
    Nodes, Sessions,
    Ttl, Grace,           \* session_ttl_ms, session_grace_ms
    max_sessions,         \* 0: no cap
    MaxTime, MaxLog, MaxInflight, MaxFaults   \* bounds

Window == Ttl + Grace

NoNode == "none"

VARIABLES
    now,       \* the clock every node reads
    leader,    \* the node that accepts proposals, or NoNode
    log,       \* committed entries
    inflight,  \* the leader's entries that are not committed
    seen,      \* per node: entries handed to its state machine
    sessions,  \* per node: when it saw each session committed
    next_gc, next_sweep,  \* per node: when GC and sweep are due again
    faults

vars == <<now, leader, log, inflight, seen, sessions,
          next_gc, next_sweep, faults>>

NoTable == [s \in {} |-> 0]

Use(s) == [op |-> "use", s |-> {s}, at |-> 0]

Gc(expired) == [op |-> "gc", s |-> expired, at |-> 0]

Room == Len(inflight) < MaxInflight /\ Len(log) + Len(inflight) < MaxLog

(***************************************************************************)
(* The replicated table after the first i entries of the log.              *)
(***************************************************************************)
TableAfter(table, e) ==
    IF e.op = "use" THEN table \cup e.s ELSE table \ e.s

Table(i) == FoldLeft(TableAfter, {}, SubSeq(log, 1, i))

Effective(i) == log[i].op = "use" /\ log[i].s \cap Table(i - 1) = {}

(***************************************************************************)
(* The leader's gates on a proposal.                                       *)
(***************************************************************************)
Elapsed(n, s) == now - sessions[n][s]

session_band(n, s) ==
    IF s \notin DOMAIN sessions[n] THEN "Fresh"
    ELSE IF Elapsed(n, s) <= Ttl THEN "Live"
    ELSE IF Elapsed(n, s) <= Window THEN "Grace" ELSE "Fresh"

\* What the apply task publishes; it is taken to be caught up.
live_sessions(n) == Cardinality(Table(seen[n]))

Full(n, s) ==
    /\ session_band(n, s) = "Fresh"
    /\ max_sessions > 0 /\ live_sessions(n) >= max_sessions

\* SessionExpired and SessionTableFull change nothing.
ProposalNoted(n, s) ==
    /\ leader = n /\ Room
    /\ session_band(n, s) # "Grace" /\ ~Full(n, s)
    /\ inflight' = Append(inflight, Use(s))
    /\ sessions' = [sessions EXCEPT ![n] =
                      [r \in DOMAIN @ \cup {s} |-> IF r = s THEN now ELSE @[r]]]
    /\ UNCHANGED <<now, leader, log, seen, next_gc, next_sweep, faults>>

start_proposal(n, s) ==
    /\ leader = n /\ Room
    /\ session_band(n, s) # "Grace" /\ ~Full(n, s)
    /\ inflight' = Append(inflight, Use(s))
    /\ UNCHANGED <<now, leader, log, seen, sessions,
                   next_gc, next_sweep, faults>>

(***************************************************************************)
(* A cycle of the actor: absorb the apply task's progress, note the        *)
(* committed entries on their way to the state machine, and, on the        *)
(* leader, start a GC round when one is due.                               *)
(***************************************************************************)
Older(table, age) == {s \in DOMAIN table : now - table[s] > age}

Without(table, gone) == [s \in DOMAIN table \ gone |-> table[s]]

\* note_session for the entries up to k: the first of them may sweep.
Used(n, k) ==
    UNION {log[i].s : i \in {j \in seen[n] + 1 .. k : log[j].op = "use"}}

SweepDue(n, k) == Used(n, k) # {} /\ now >= next_sweep[n]

Noted(n, k) ==
    LET kept == IF SweepDue(n, k)
                THEN Without(sessions[n], Older(sessions[n], Window))
                ELSE sessions[n]
    IN  [s \in DOMAIN kept \cup Used(n, k) |->
            IF s \in Used(n, k) THEN now ELSE kept[s]]

\* One round per ttl; what is proposed for removal is forgotten at once.
ExpiredEarly(table) == Older(table, Ttl)

Expired(table) == Older(table, Window)

maybe_collect_sessions(n, table) ==
    IF leader # n \/ now < next_gc[n]
    THEN /\ sessions' = [sessions EXCEPT ![n] = table]
         /\ UNCHANGED <<inflight, next_gc>>
    ELSE /\ next_gc' = [next_gc EXCEPT ![n] = now + (IF Ttl > 1 THEN Ttl ELSE 1)]
         /\ sessions' = [sessions EXCEPT ![n] = Without(table, Expired(table))]
         /\ IF Expired(table) = {} THEN UNCHANGED inflight
            ELSE /\ Room
                 /\ inflight' = Append(inflight, Gc(Expired(table)))

drive_cycle(n) ==
    \E k \in seen[n] .. Len(log) :
        /\ seen' = [seen EXCEPT ![n] = k]
        /\ next_sweep' = [next_sweep EXCEPT ![n] =
                            IF SweepDue(n, k) THEN now + Window ELSE @]
        /\ maybe_collect_sessions(n, Noted(n, k))
        /\ UNCHANGED <<now, leader, log, faults>>

\* A snapshot brings the replicated table; nothing of it is noted.
RestoreSnapshot(n) ==
    /\ n # leader
    /\ \E i \in seen[n] + 2 .. Len(log) : seen' = [seen EXCEPT ![n] = i]
    /\ UNCHANGED <<now, leader, log, inflight, sessions,
                   next_gc, next_sweep, faults>>

(***************************************************************************)
(* Consensus, the clock and restarts.                                      *)
(***************************************************************************)
Commit ==
    /\ leader # NoNode /\ inflight # << >>
    /\ log' = Append(log, [Head(inflight) EXCEPT !.at =
                              IF Head(inflight).op = "use" THEN now ELSE 0])
    /\ inflight' = Tail(inflight)
    /\ UNCHANGED <<now, leader, seen, sessions,
                   next_gc, next_sweep, faults>>

Elect(n) ==
    /\ faults < MaxFaults /\ leader # n
    /\ faults' = faults + 1 /\ leader' = n
    /\ \E k \in 0 .. Len(inflight) : inflight' = SubSeq(inflight, 1, k)
    /\ UNCHANGED <<now, log, seen, sessions, next_gc, next_sweep>>

\* The node comes back with its newest snapshot and replays the entries after.
Restart(n) ==
    /\ faults < MaxFaults /\ faults' = faults + 1
    /\ leader' = IF leader = n THEN NoNode ELSE leader
    /\ \E i \in 0 .. seen[n] : seen' = [seen EXCEPT ![n] = i]
    /\ sessions' = [sessions EXCEPT ![n] = NoTable]
    /\ next_gc' = [next_gc EXCEPT ![n] = 0]
    /\ next_sweep' = [next_sweep EXCEPT ![n] = 0]
    /\ UNCHANGED <<now, log, inflight>>

\* A cycle takes far less than a unit of the clock: a due round is not missed.
Tick ==
    /\ now < MaxTime /\ now' = now + 1
    /\ leader # NoNode => next_gc[leader] > now
    /\ UNCHANGED <<leader, log, inflight, seen, sessions,
                   next_gc, next_sweep, faults>>

Init ==
    /\ now = 0 /\ leader \in Nodes /\ log = << >> /\ inflight = << >>
    /\ seen = [n \in Nodes |-> 0]
    /\ sessions = [n \in Nodes |-> NoTable]
    /\ next_gc = [n \in Nodes |-> 0] /\ next_sweep = [n \in Nodes |-> 0]
    /\ faults = 0

Next ==
    \/ \E n \in Nodes :
          \/ \E s \in Sessions : start_proposal(n, s)
          \/ drive_cycle(n) \/ RestoreSnapshot(n) \/ Elect(n) \/ Restart(n)
    \/ Commit \/ Tick

Spec == Init /\ [][Next]_vars

(***************************************************************************)
(* Properties.                                                             *)
(***************************************************************************)
\* Every table and index is in range; nothing is noted in the future.
TypeOK ==
    /\ leader \in Nodes \cup {NoNode} /\ Len(log) <= MaxLog
    /\ \A n \in Nodes :
          /\ seen[n] \in 0 .. Len(log)
          /\ DOMAIN sessions[n] \subseteq Sessions
          /\ \A s \in DOMAIN sessions[n] : sessions[n][s] <= now

\* A command takes effect a second time only more than ttl + grace after the
\* first, whichever nodes led, restarted
\* or installed a snapshot in between (session_band: "what bounds a duplicate's
\* effect to ttl + grace").
DuplicateOutsideWindow ==
    \A i, j \in DOMAIN log :
        (i < j /\ log[i].s = log[j].s /\ Effective(i) /\ Effective(j))
        => log[j].at > log[i].at + Window

\* SessionExpired is only ever said of a command that took effect (start_proposal
\* with enqueue_apply: a proposal that never made it does not extend a session).
ExpiredMeansHappened ==
    \A n \in Nodes, s \in Sessions :
        session_band(n, s) = "Grace" =>
            \E i \in DOMAIN log : log[i].s = {s} /\ Effective(i)

\* "GC is what makes the cap recoverable" (start_proposal): on a leader that
\* nothing has disturbed, every session of the replicated table is one a GC
\* round will find, or is already on its way out.
CapIsRecoverable ==
    (leader # NoNode /\ seen[leader] = Len(log)) =>
        \A s \in Table(Len(log)) :
            \/ s \in DOMAIN sessions[leader]
            \/ \E i \in DOMAIN inflight : s \in inflight[i].s
==============================================================================
