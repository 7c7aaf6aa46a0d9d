--------------------------- MODULE OutboundSender ---------------------------
(***************************************************************************)
(* The outbound half of arachne/src/consensus/node.rs: the actor appends   *)
(* raft messages to bounded per-peer queues and wakes one background task, *)
(* which empties every queue and sends each peer's batch in order, all     *)
(* peers concurrently.                                                     *)
(*                                                                         *)
(* A message is its number, in the order the actor produced it.            *)
(***************************************************************************)
EXTENDS Integers, Sequences, FiniteSets, Functions

CONSTANTS
    Peers,      \* the peers map, fixed at construction
    Strangers,  \* destinations raft may name that are not in the map
    Self,       \* the node's own id
    Depth,      \* OUTBOUND_QUEUE_DEPTH
    MaxBatch,   \* bound on the messages of one enqueue
    MaxMsgs     \* bound on the messages produced

ASSUME OutboundAssumption ==
    /\ {Depth, MaxBatch} \subseteq Nat \ {0}
    /\ MaxMsgs \in Nat
    /\ Self \notin Peers \cup Strangers
    /\ Peers \cap Strangers = {}

VARIABLES
    queue,      \* queue[p]: messages waiting for the task
    loop,       \* enqueue_outbound's local variables, or Idle
    wakes,      \* signals in the drain-wake channel
    batch,      \* batch[p]: messages the task has drained and not yet sent
    task,       \* "select", "sending" or "stopped"
    dropped,    \* the dropped_sends counter
    delivered,  \* history: delivered[p], in the order the transport took them
    produced,   \* history: messages for other nodes produced so far
    lost        \* history: those of them that were not sent

vars == <<queue, loop, wakes, batch, task, dropped, delivered, produced, lost>>

Nothing == [p \in Peers |-> << >>]

\* left counts the messages of the call that are still to come; a call that
\* is running is never Idle.
Idle == [left |-> 0, dropped |-> 0, enqueued |-> FALSE, running |-> FALSE]

Init ==
    /\ queue = Nothing
    /\ loop = Idle
    /\ wakes = 0
    /\ batch = Nothing
    /\ task = "select"
    /\ dropped = 0
    /\ delivered = Nothing
    /\ produced = 0
    /\ lost = {}

\* enqueue_outbound is called with n messages.
EnqueueOutbound(n) ==
    /\ loop = Idle /\ task # "stopped"
    /\ produced + n <= MaxMsgs
    /\ loop' = [Idle EXCEPT !.left = n, !.running = TRUE]
    /\ UNCHANGED <<queue, wakes, batch, task, dropped, delivered, produced, lost>>

Full(p) == Len(queue[p]) >= Depth

\* Mutant: a message that finds the queue full is not counted.
EnqueueUncounted(to) ==
    /\ loop.left > 0
    /\ \/ /\ to = Self
          /\ loop' = [loop EXCEPT !.left = @ - 1]
          /\ UNCHANGED <<queue, produced, lost>>
       \/ /\ to \in Strangers \/ (to \in Peers /\ Full(to))
          /\ loop' = [loop EXCEPT !.left = @ - 1,
                                  !.dropped = IF to \in Peers THEN @ ELSE @ + 1]
          /\ produced' = produced + 1
          /\ lost' = lost \cup {produced + 1}
          /\ UNCHANGED queue
       \/ /\ to \in Peers /\ ~Full(to)
          /\ loop' = [loop EXCEPT !.left = @ - 1, !.enqueued = TRUE]
          /\ produced' = produced + 1
          /\ queue' = [queue EXCEPT ![to] = Append(@, produced + 1)]
          /\ UNCHANGED lost
    /\ UNCHANGED <<wakes, batch, task, dropped, delivered>>

(***************************************************************************)
(* One turn of its loop.  The lock is taken once per message, so the task  *)
(* may drain between two of them.                                          *)
(***************************************************************************)
EnqueueOne(to) ==
    /\ loop.left > 0
    /\ \/ /\ to = Self
          /\ loop' = [loop EXCEPT !.left = @ - 1]
          /\ UNCHANGED <<queue, produced, lost>>
       \/ /\ to \in Strangers \/ (to \in Peers /\ Full(to))
          /\ loop' = [loop EXCEPT !.left = @ - 1, !.dropped = @ + 1]
          /\ produced' = produced + 1
          /\ lost' = lost \cup {produced + 1}
          /\ UNCHANGED queue
       \/ /\ to \in Peers /\ ~Full(to)
          /\ loop' = [loop EXCEPT !.left = @ - 1, !.enqueued = TRUE]
          /\ produced' = produced + 1
          /\ queue' = [queue EXCEPT ![to] = Append(@, produced + 1)]
          /\ UNCHANGED lost
    /\ UNCHANGED <<wakes, batch, task, dropped, delivered>>

\* Its end: the drops are counted, and one wake is sent if anything was queued.
EndEnqueue ==
    /\ loop # Idle /\ loop.left = 0
    /\ dropped' = dropped + loop.dropped
    /\ wakes' = wakes + (IF loop.enqueued THEN 1 ELSE 0)
    /\ loop' = Idle
    /\ UNCHANGED <<queue, batch, task, delivered, produced, lost>>

\* Mutant: one wake drains one peer only.
DrainOnePeer ==
    /\ task = "select"
    /\ wakes > 0
    /\ wakes' = wakes - 1
    /\ \E p \in Peers :
            /\ queue = Nothing \/ queue[p] # << >>
            /\ batch' = [Nothing EXCEPT ![p] = queue[p]]
            /\ queue' = [queue EXCEPT ![p] = << >>]
    /\ task' = IF queue = Nothing THEN "select" ELSE "sending"
    /\ UNCHANGED <<loop, dropped, delivered, produced, lost>>

\* run_outbound_sender, one wake: take everything; a stale wake finds nothing.
Drain ==
    /\ task = "select"
    /\ wakes > 0
    /\ wakes' = wakes - 1
    /\ batch' = queue
    /\ queue' = Nothing
    /\ task' = IF queue = Nothing THEN "select" ELSE "sending"
    /\ UNCHANGED <<loop, dropped, delivered, produced, lost>>

\* Mutant: a message that could not be sent is queued again.
SendRequeuing(p, ok) ==
    /\ task = "sending"
    /\ batch[p] # << >>
    /\ batch' = [batch EXCEPT ![p] = Tail(@)]
    /\ delivered' = IF ok THEN [delivered EXCEPT ![p] = Append(@, Head(batch[p]))]
                    ELSE delivered
    /\ queue' = IF ok THEN queue
                ELSE [queue EXCEPT ![p] = Append(@, Head(batch[p]))]
    /\ task' = IF batch' = Nothing THEN "select" ELSE "sending"
    /\ UNCHANGED <<loop, wakes, dropped, produced, lost>>

\* One send of peer p's batch.  A failed send is counted and skipped.  The
\* task selects again when every batch is through (join_all).
Send(p, ok) ==
    /\ task = "sending"
    /\ batch[p] # << >>
    /\ batch' = [batch EXCEPT ![p] = Tail(@)]
    /\ delivered' = IF ok THEN [delivered EXCEPT ![p] = Append(@, Head(batch[p]))]
                    ELSE delivered
    /\ dropped' = IF ok THEN dropped ELSE dropped + 1
    /\ lost' = IF ok THEN lost ELSE lost \cup {Head(batch[p])}
    /\ task' = IF batch' = Nothing THEN "select" ELSE "sending"
    /\ UNCHANGED <<queue, loop, wakes, produced>>

\* The node is dropped: the task sees the closed stop channel when it selects.
Stop ==
    /\ loop = Idle
    /\ task = "select"
    /\ task' = "stopped"
    /\ UNCHANGED <<queue, loop, wakes, batch, dropped, delivered, produced, lost>>

Enqueue == (\E to \in Peers \cup Strangers \cup {Self} : EnqueueOne(to)) \/ EndEnqueue

Next ==
    \/ \E n \in 1 .. MaxBatch : EnqueueOutbound(n)
    \/ Enqueue
    \/ Drain
    \/ \E p \in Peers, ok \in BOOLEAN : Send(p, ok)
    \/ Stop

Spec == Init /\ [][Next]_vars

SendSome(p) == \E ok \in BOOLEAN : Send(p, ok)

\* enqueue_outbound never waits, the executor runs the task while it has a
\* wake, and every send returns: the transport puts a deadline on it.
FairSpec ==
    /\ Spec
    /\ WF_vars(Enqueue) /\ WF_vars(Drain)
    /\ \A p \in Peers : WF_vars(SendSome(p))

-----------------------------------------------------------------------------

Call == [left : 0 .. MaxBatch, dropped : Nat, enqueued : BOOLEAN, running : BOOLEAN]

\* The shape of the queues; a queue never exceeds its depth.
TypeOK ==
    /\ queue \in [Peers -> Seq(1 .. MaxMsgs)]
    /\ batch \in [Peers -> Seq(1 .. MaxMsgs)]
    /\ delivered \in [Peers -> Seq(1 .. MaxMsgs)]
    /\ \A p \in Peers : Len(queue[p]) <= Depth
    /\ loop \in Call
    /\ {wakes, dropped} \subseteq Nat
    /\ produced \in 0 .. MaxMsgs
    /\ lost \subseteq 1 .. produced
    /\ task \in {"select", "sending", "stopped"}

Increasing(s) == \A m, n \in DOMAIN s : m < n => s[m] < s[n]

\* Raft's I2 (group_by_peer, run_outbound_sender): a peer receives messages in
\* the order raft produced them, with gaps but never out of order, whatever
\* is queued while a batch is being sent.
PerPeerFifo == \A p \in Peers : Increasing(delivered[p] \o batch[p] \o queue[p])

\* The messages for p that were sent or still will be.
Held(p) == Range(delivered[p]) \cup Range(batch[p]) \cup Range(queue[p])

\* dropped_send_count, "a visible, rising gauge instead of a silent liveness
\* loss": every message for another node is sent, or waiting, or lost, for one
\* peer only and never two of these; and the counter, with what the running
\* call will add to it, is the number of the lost ones.
NothingLostSilently ==
    /\ 1 .. produced = lost \cup UNION {Held(p) : p \in Peers}
    /\ \A p \in Peers : Held(p) \cap lost = {}
    /\ \A p, q \in Peers : p # q => Held(p) \cap Held(q) = {}
    /\ dropped + loop.dropped = Cardinality(lost)

\* No lost wake-up: what is queued is taken by the task, unless the node goes
\* away, even when it was queued while the task was sending.
QueueDrained ==
    \A p \in Peers : (queue[p] # << >>) ~> (queue[p] = << >> \/ task = "stopped")

=============================================================================
