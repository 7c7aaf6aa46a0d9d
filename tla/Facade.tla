------------------------------- MODULE Facade -------------------------------
(***************************************************************************)
(* The embedding surface: Arachne::start, the static operations, handle and *)
(* shutdown around one process-wide slot, assemble_cluster beside it, and   *)
(* the dedicated thread the actor runs on.  Threads of the embedder call    *)
(* them concurrently.  What is at stake is what a node holds: the data      *)
(* directory's lock, the listener, the inbound senders and the thread, each *)
(* acquired by a step of the assembly that may fail and released by a step  *)
(* of the teardown that may have to wait.                                   *)
(*                                                                          *)
(* External: TCP, tokio's channels, and tonic's connections (see            *)
(* TransportFactory), which live on the runtime that serves them.           *)
(***************************************************************************)
EXTENDS Naturals, Sequences, FiniteSets

CONSTANTS
    Callers,       \* threads of the embedding process
    Clusters,      \* initial_cluster values callers start with
    Self,          \* this node's id
    Assembling,    \* may callers use assemble_cluster as well?
    ConnsOutlive,  \* may a connection's task outlive its server's future?
    MaxNodes,      \* bound on nodes built
    MaxFaults      \* bound on failing assembly steps and fail-stops

ASSUME FacadeAssumption ==
    /\ 0 \notin Callers
    /\ MaxNodes \in Nat /\ MaxFaults \in Nat
    /\ {Assembling, ConnsOutlive} \subseteq BOOLEAN
    /\ \A cluster \in Clusters : Len(cluster) \in Nat /\ DOMAIN cluster = 1 .. Len(cluster)

VARIABLES
    INSTANCE_,  \* the slot: a node, or NoNode
    guard,      \* the caller that holds the slot's mutex across a start, or NoNode
    node,       \* node -> what it holds
    caller,     \* caller -> where its call stands
    built, faults

vars == <<INSTANCE_, guard, node, caller, built, faults>>

NoNode == 0
Slots == 1..MaxNodes
Nothing == [kind |-> "none", id |-> 0, peers |-> {}, wal |-> FALSE, listener |-> FALSE,
            senders |-> FALSE, conn |-> FALSE, actor |-> "none", stop |-> FALSE]
Resting == [pc |-> "idle", op |-> "none", g |-> NoNode, result |-> "none",
            held |-> NoNode, owns |-> NoNode]

is_peerless(cluster) == Len(cluster) <= 1

\* Raft ids are the 1-based positions in initial_cluster.
raft_id(cluster) ==
    IF ~is_peerless(cluster) /\ \E i \in DOMAIN cluster : cluster[i] = Self
    THEN CHOOSE i \in DOMAIN cluster : cluster[i] = Self ELSE 1

peers(cluster) == IF is_peerless(cluster) THEN {} ELSE {i \in DOMAIN cluster : cluster[i] # Self}

Init ==
    /\ INSTANCE_ = NoNode
    /\ guard = NoNode
    /\ node = [g \in Slots |-> Nothing]
    /\ caller = [c \in Callers |-> Resting]
    /\ built = 0
    /\ faults = 0

At(c, pc) == caller[c].pc = pc
Mine(c) == node[caller[c].g]
Becomes(c, r) == caller' = [caller EXCEPT ![c] = r]
Returns(c, result) == Becomes(c, [caller[c] EXCEPT !.pc = "idle", !.result = result])
Fault == faults < MaxFaults /\ faults' = faults + 1

(***************************************************************************)
(* Assembly.                                                                *)
(***************************************************************************)
Begin(c, op, kind, cluster) ==
    /\ built < MaxNodes
    /\ built' = built + 1
    /\ node' = [node EXCEPT ![built + 1] = [Nothing EXCEPT !.kind = kind, !.id = raft_id(cluster),
                                                           !.peers = peers(cluster)]]
    /\ Becomes(c, [caller[c] EXCEPT !.pc = "open", !.op = op, !.g = built + 1])

\* Mutant: the mutex is released once the slot was found empty.
StartUnguarded(c, cluster) ==
    /\ At(c, "idle") /\ guard = NoNode
    /\ IF INSTANCE_ # NoNode
       THEN /\ Becomes(c, [caller[c] EXCEPT !.op = "start", !.g = NoNode,
                                            !.result = "AlreadyInitialized"])
            /\ UNCHANGED <<node, built>>
       ELSE Begin(c, "start", IF is_peerless(cluster) THEN "peerless" ELSE "member", cluster)
    /\ UNCHANGED <<INSTANCE_, guard, faults>>

\* The mutex is held across the whole assembly.
start(c, cluster) ==
    /\ At(c, "idle") /\ guard = NoNode
    /\ IF INSTANCE_ # NoNode
       THEN /\ Becomes(c, [caller[c] EXCEPT !.op = "start", !.g = NoNode,
                                            !.result = "AlreadyInitialized"])
            /\ UNCHANGED <<guard, node, built>>
       ELSE /\ Begin(c, "start", IF is_peerless(cluster) THEN "peerless" ELSE "member", cluster)
            /\ guard' = c
    /\ UNCHANGED <<INSTANCE_, faults>>

assemble_cluster(c, cluster) ==
    /\ Assembling /\ At(c, "idle") /\ caller[c].owns = NoNode
    /\ Begin(c, "assemble", "assembled", cluster)
    /\ UNCHANGED <<INSTANCE_, guard, faults>>

\* Mutant: only the WAL is dropped.
LeftServing(n) == [n EXCEPT !.wal = FALSE]

\* What an assembly that fails leaves: start drops the private runtime with all
\* that runs on it; assemble_cluster's servers run on the caller's runtime.
Left(n) == IF n.kind = "assembled" /\ n.listener
           THEN [n EXCEPT !.wal = FALSE, !.senders = FALSE]
           ELSE [n EXCEPT !.wal = FALSE, !.senders = FALSE, !.listener = FALSE, !.conn = FALSE]

Fails(c, why) ==
    /\ node' = [node EXCEPT ![caller[c].g] = Left(@)]
    /\ guard' = IF guard = c THEN NoNode ELSE guard
    /\ Returns(c, why)
    /\ UNCHANGED <<INSTANCE_, built>>

Step(c, n, pc) ==
    /\ node' = [node EXCEPT ![caller[c].g] = n]
    /\ Becomes(c, [caller[c] EXCEPT !.pc = pc])
    /\ UNCHANGED <<INSTANCE_, guard, built, faults>>

\* WalStorage::open takes the data directory's lock or fails.
open(c) ==
    /\ At(c, "open")
    /\ IF \E g \in Slots : node[g].wal
       THEN Fails(c, "locked") /\ UNCHANGED faults
       ELSE Step(c, [Mine(c) EXCEPT !.wal = TRUE],
                 IF Mine(c).kind = "peerless" THEN "runtime" ELSE "offload")

enable_offloaded_durability(c) ==
    /\ At(c, "offload")
    /\ Step(c, Mine(c), "bind") \/ (Fault /\ Fails(c, "offload"))

start_with_bind(c) ==
    /\ At(c, "bind")
    /\ IF \E g \in Slots : node[g].listener
       THEN Fails(c, "bind") /\ UNCHANGED faults
       ELSE Step(c, [Mine(c) EXCEPT !.listener = TRUE, !.senders = TRUE], "runtime")

Runtime_new(c) ==
    /\ At(c, "runtime")
    /\ Step(c, Mine(c), "spawn") \/ (Fault /\ Fails(c, "runtime"))

\* The actor runs; start fills the slot and releases the mutex.
spawn_dedicated(c) ==
    /\ At(c, "spawn")
    /\ \/ /\ node' = [node EXCEPT ![caller[c].g].actor = "running"]
          /\ IF caller[c].op = "start"
             THEN /\ INSTANCE_' = caller[c].g /\ guard' = NoNode
                  /\ Returns(c, "ok")
             ELSE /\ Becomes(c, [caller[c] EXCEPT !.pc = "idle", !.result = "ok",
                                                  !.owns = caller[c].g])
                  /\ UNCHANGED <<INSTANCE_, guard>>
          /\ UNCHANGED <<built, faults>>
       \/ Fault /\ Fails(c, "spawn")

(***************************************************************************)
(* Operations: borrow clones the handle under the mutex and awaits outside. *)
(***************************************************************************)
borrow(c, op) ==
    /\ At(c, "idle") /\ guard = NoNode
    /\ Becomes(c, [caller[c] EXCEPT
           !.op = op, !.g = INSTANCE_,
           !.pc = IF op = "call" /\ INSTANCE_ # NoNode THEN "await" ELSE "idle",
           !.held = IF op = "handle" THEN INSTANCE_ ELSE @,
           !.result = IF INSTANCE_ = NoNode THEN "NotInitialized" ELSE "ok"])
    /\ UNCHANGED <<INSTANCE_, guard, node, built, faults>>

set(c) == borrow(c, "call")
handle(c) == borrow(c, "handle")

\* A clone outlives the slot.
UseHandle(c) ==
    /\ At(c, "idle") /\ caller[c].held # NoNode
    /\ Becomes(c, [caller[c] EXCEPT !.op = "call", !.g = caller[c].held, !.pc = "await"])
    /\ UNCHANGED <<INSTANCE_, guard, node, built, faults>>

\* The actor answers, or its end drops the command unanswered.
Answered(c) ==
    /\ At(c, "await")
    /\ \/ Mine(c).actor = "running" /\ Returns(c, "ok")
       \/ Mine(c).actor = "stopped" /\ Returns(c, "Unavailable")
    /\ UNCHANGED <<INSTANCE_, guard, node, built, faults>>

(***************************************************************************)
(* Teardown.                                                                *)
(***************************************************************************)
Teardown(c, g) ==
    Becomes(c, [caller[c] EXCEPT !.op = "shutdown", !.g = g, !.result = "none",
                                 !.pc = IF node[g].kind = "peerless" THEN "stop" ELSE "close"])

\* The node leaves the slot before anything is waited for.
Taken == NoNode

shutdown(c) ==
    /\ At(c, "idle") /\ guard = NoNode
    /\ IF INSTANCE_ = NoNode
       THEN /\ Becomes(c, [caller[c] EXCEPT !.op = "shutdown", !.g = NoNode,
                                            !.result = "NotInitialized"])
            /\ UNCHANGED INSTANCE_
       ELSE Teardown(c, INSTANCE_) /\ INSTANCE_' = Taken
    /\ UNCHANGED <<guard, node, built, faults>>

\* The owner of an assembled node tears it down, or drops it: a RuntimeThread
\* that is dropped is detached, not stopped.
ShutdownAssembled(c) ==
    /\ At(c, "idle") /\ caller[c].owns # NoNode
    /\ \/ Teardown(c, caller[c].owns)
       \/ Becomes(c, [caller[c] EXCEPT !.owns = NoNode, !.op = "drop"])
    /\ UNCHANGED <<INSTANCE_, guard, node, built, faults>>

\* factory.shutdown: the servers end and the senders drop; the actor is stopped
\* only after it.
factory_shutdown(c) ==
    /\ At(c, "close")
    /\ \E kept \in {FALSE, ConnsOutlive /\ Mine(c).conn} :
         Step(c, [Mine(c) EXCEPT !.listener = FALSE, !.senders = FALSE, !.conn = kept], "stop")

\* Mutant: join without a stop signal.
JoinUnasked(c) == At(c, "stop") /\ Step(c, Mine(c), "join")

\* RuntimeThread::shutdown: notify_one stores a permit, then join.
RuntimeThread_shutdown(c) ==
    /\ At(c, "stop")
    /\ Step(c, [Mine(c) EXCEPT !.stop = TRUE], "join")

\* The joined state is dropped, the private runtime and its connections with it.
join(c) ==
    /\ At(c, "join") /\ Mine(c).actor = "stopped"
    /\ node' = [node EXCEPT ![caller[c].g].conn = @ /\ Mine(c).kind = "assembled"]
    /\ Becomes(c, [caller[c] EXCEPT !.pc = "idle", !.result = "ok",
                                    !.owns = IF @ = caller[c].g THEN NoNode ELSE @])
    /\ UNCHANGED <<INSTANCE_, guard, built, faults>>

(***************************************************************************)
(* The actor thread and the peers.                                          *)
(***************************************************************************)
\* The peerless receiver never yields; a tonic one ends with its last sender.
InboundClosed(n) == n.kind # "peerless" /\ ~n.listener /\ ~n.senders /\ ~n.conn

\* The loop ends and drops the WAL, which releases the lock.  The command
\* channel never closes: the runtime's own command sink holds a sender.
ActorEnds(g) ==
    /\ node[g].actor = "running" /\ (node[g].stop \/ InboundClosed(node[g]))
    /\ node' = [node EXCEPT ![g] = [@ EXCEPT !.actor = "stopped", !.wal = FALSE]]
    /\ UNCHANGED <<INSTANCE_, guard, caller, built, faults>>

FailStop(g) ==
    /\ node[g].actor = "running" /\ Fault
    /\ node' = [node EXCEPT ![g] = [@ EXCEPT !.actor = "stopped", !.wal = FALSE]]
    /\ UNCHANGED <<INSTANCE_, guard, caller, built>>

PeerConnects(g) ==
    /\ node[g].listener /\ ~node[g].conn
    /\ node' = [node EXCEPT ![g].conn = TRUE]
    /\ UNCHANGED <<INSTANCE_, guard, caller, built, faults>>

PeerLeaves(g) ==
    /\ node[g].conn
    /\ node' = [node EXCEPT ![g].conn = FALSE]
    /\ UNCHANGED <<INSTANCE_, guard, caller, built, faults>>

Work(c) ==
    \/ open(c) \/ enable_offloaded_durability(c) \/ start_with_bind(c) \/ Runtime_new(c)
    \/ spawn_dedicated(c) \/ Answered(c)
    \/ factory_shutdown(c) \/ RuntimeThread_shutdown(c) \/ join(c)

Next ==
    \/ \E c \in Callers, cluster \in Clusters : start(c, cluster) \/ assemble_cluster(c, cluster)
    \/ \E c \in Callers : set(c) \/ handle(c) \/ UseHandle(c) \/ shutdown(c) \/ ShutdownAssembled(c)
    \/ \E c \in Callers : Work(c)
    \/ \E g \in Slots : ActorEnds(g) \/ FailStop(g) \/ PeerConnects(g) \/ PeerLeaves(g)

Spec == Init /\ [][Next]_vars

\* A call that can go on does, and so does an actor told to stop.
LiveSpec ==
    /\ Spec
    /\ \A c \in Callers : WF_vars(Work(c))
    /\ \A g \in Slots : WF_vars(ActorEnds(g))

(***************************************************************************)
(* Properties.                                                              *)
(***************************************************************************)
\* The state is well formed, and one node at a time has the directory's lock.
TypeOK ==
    /\ INSTANCE_ \in 0..MaxNodes /\ guard \in Callers \cup {NoNode}
    /\ \A g \in Slots : /\ node[g].kind \in {"none", "peerless", "member", "assembled"}
                        /\ node[g].actor \in {"none", "running", "stopped"}
                        /\ node[g].actor = "running" => node[g].wal
    /\ \A c \in Callers : caller[c].g \in 0..MaxNodes /\ caller[c].held \in 0..MaxNodes
    /\ \A g, h \in Slots : node[g].wal /\ node[h].wal => g = h

Done(c, op, results) == At(c, "idle") /\ caller[c].op = op /\ caller[c].result \in results
                        /\ caller[c].g # NoNode

\* When a shutdown has returned, the lock, the listener and the thread are
\* free: a start that follows it cannot fail for them.
ReturnedMeansReleased ==
    \A c \in Callers : Done(c, "shutdown", {"ok"}) =>
        ~Mine(c).wal /\ ~Mine(c).listener /\ ~Mine(c).senders /\ Mine(c).actor = "stopped"

\* A start that fails, whichever step it fails at, leaves no lock, listener,
\* connection or thread behind, so that it can be tried again.
FailedStartHoldsNothing ==
    \A c \in Callers : Done(c, "start", {"locked", "offload", "bind", "runtime", "spawn"}) =>
        /\ ~Mine(c).wal /\ ~Mine(c).listener /\ ~Mine(c).senders /\ ~Mine(c).conn
        /\ Mine(c).actor = "none"

\* The slot never names a node that some caller is tearing down or has torn
\* down: shutdown takes it out first, so a second shutdown finds nothing.
SlotIsLive ==
    INSTANCE_ # NoNode =>
        ~\E c \in Callers : caller[c].op = "shutdown" /\ caller[c].g = INSTANCE_

\* A node started from the facade stays within reach: in the slot, or in the
\* hands of the call that builds it or tears it down.
NoOrphan ==
    \A g \in Slots : node[g].wal \/ node[g].listener \/ node[g].actor = "running" =>
        \/ node[g].kind = "assembled"
        \/ INSTANCE_ = g
        \/ \E c \in Callers : ~At(c, "idle") /\ caller[c].g = g

\* A call that has returned left nothing behind: after a shutdown lock, listener
\* and thread are free, and a start that fails, whichever step it fails at,
\* holds none of them (Arachne::shutdown, start_multi_node).
NothingIsLeaked == ReturnedMeansReleased /\ FailedStartHoldsNothing

\* The slot and the nodes agree under concurrent starts and shutdowns: it never
\* names a node that is being torn down, and a node that runs is in the slot or
\* in the hands of a call that builds it or tears it down (INSTANCE).
SlotIsExact == SlotIsLive /\ NoOrphan

\* A node's own raft id is none of its peers', and together they number every
\* position of the member list.
IdIsOwn ==
    \A g \in Slots : node[g].id # 0 =>
        /\ node[g].id \notin node[g].peers
        /\ node[g].peers # {} => node[g].peers \cup {node[g].id} = 1..(Cardinality(node[g].peers) + 1)

\* Every call returns: no start, operation or shutdown waits for ever, even
\* with a peer that never closes its connection.
EveryCallReturns == \A c \in Callers : []<>At(c, "idle")

\* server/mod.rs: "A second call (while the first is alive) returns
\* AlreadyInitialized".
SecondStartIsRefused == \A c \in Callers : ~Done(c, "start", {"locked", "bind"})

\* server/mod.rs, on a runtime that cannot be built: "shut the factory down
\* before returning so the gRPC server is torn down now".
FailedAssemblyServesNothing ==
    \A c \in Callers : Done(c, "assemble", {"runtime", "spawn"}) => ~Mine(c).listener
=============================================================================
