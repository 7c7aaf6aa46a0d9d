-------------------------- MODULE TransportFactory --------------------------
(***************************************************************************)
(* The tonic transport's factory: one bounded inbound channel per node, one *)
(* listener and server task per node that is started, and the order in      *)
(* which starting, starting again and shutting down bind, serve, cancel,    *)
(* await and close.  Its owner makes one call at a time; every await inside *)
(* a call is a step of its own, so peers, server tasks, receivers and other *)
(* processes on the host move in between.                                   *)
(*                                                                          *)
(* External: TCP ports, and tonic's server, which runs every accepted       *)
(* connection on a task of its own holding a clone of the service and so of *)
(* the inbound sender.                                                      *)
(***************************************************************************)
EXTENDS Naturals, Sequences, FiniteSets, FiniteSetsExt, SequencesExt

CONSTANTS
    Nodes,        \* the keys of the address map
    Ports,        \* the host's TCP ports, positive
    Routes,       \* pairs <<peer, node>>: who dials which node
    Capacity,     \* INBOUND_QUEUE_CAPACITY
    ConnsOutlive, \* may a connection's task outlive its server's future?
    MaxStarts,    \* bound on start calls
    MaxSends      \* bound on payloads sent to a node

EphemeralPort == 0  \* a `:0` listen address

VARIABLES
    valid,      \* no empty cluster id or node id
    addresses,  \* node -> listen address, then the bound one
    senders,    \* nodes whose sender the factory holds
    receivers,  \* nodes whose receiver `create` has not handed out
    servers,    \* ports of the recorded ServerHandles
    call,       \* the owner's call in progress
    tasks,      \* running server tasks
    foreign,    \* ports held by other processes
    conns,      \* open connections <<peer, node>>
    queue,      \* node -> its inbound channel
    rx,         \* node -> "factory", "held", "ended" or "dropped"
    accepted,   \* node -> payloads answered `accepted`
    delivered,  \* node -> payloads the receiver yielded
    rejects,    \* handshake refusals
    starts, sends  \* counted for the bounds

vars == <<valid, addresses, senders, receivers, servers, call, tasks, foreign, conns,
          queue, rx, accepted, delivered, rejects, starts, sends>>

Task(node, port) == [node |-> node, port |-> port, cancelled |-> FALSE]
Listener(node, port) == [node |-> node, port |-> port]
Idle == [pc |-> "idle", targets |-> <<>>, listeners |-> <<>>, result |-> "none"]
Returned(result) == [Idle EXCEPT !.result = result]

\* Ports in use: a listener is open from its bind until it, or the server
\* future that took it, is dropped.
BoundHere == {t.port : t \in tasks} \cup {l.port : l \in ToSet(call.listeners)}
Free(port) == port \notin BoundHere \cup foreign

\* A channel is open while any clone of its sender lives.
Open(n) == n \in senders \/ (\E t \in tasks : t.node = n) \/ (\E c \in conns : c[2] = n)

with_io ==
    /\ valid \in BOOLEAN
    /\ addresses \in [Nodes -> Ports \cup {EphemeralPort}]
    /\ senders = Nodes
    /\ receivers = Nodes
    /\ servers = {}
    /\ rejects = 0

Init ==
    /\ with_io
    /\ call = Idle
    /\ tasks = {}
    /\ foreign \in SUBSET Ports
    /\ conns = {}
    /\ queue = [n \in Nodes |-> <<>>]
    /\ rx = [n \in Nodes |-> "factory"]
    /\ accepted = [n \in Nodes |-> 0]
    /\ delivered = [n \in Nodes |-> 0]
    /\ starts = 0
    /\ sends = [n \in Nodes |-> 0]

(***************************************************************************)
(* The owner's calls.                                                       *)
(***************************************************************************)
Called(ok, targets) ==
    /\ call.pc = "idle" /\ starts < MaxStarts
    /\ starts' = starts + 1
    /\ call' = IF ok THEN [Idle EXCEPT !.pc = "stop", !.targets = targets]
               ELSE Returned("invalid_cluster_config")

\* Every node of the map, at its address as the map has it now.
start ==
    /\ \E order \in SetToSeqs(Nodes) :
         Called(valid, [i \in DOMAIN order |-> Listener(order[i], addresses[order[i]])])
    /\ UNCHANGED <<valid, addresses, senders, receivers, servers, tasks, foreign, conns,
                   queue, rx, accepted, delivered, rejects, sends>>

\* This node alone; without a sender there is no channel its server could feed.
start_with_bind(me, addr) ==
    /\ Called(valid /\ me \in senders, <<Listener(me, addr)>>)
    /\ UNCHANGED <<valid, addresses, senders, receivers, servers, tasks, foreign, conns,
                   queue, rx, accepted, delivered, rejects, sends>>

CancelServers == {IF t.port \in servers THEN [t EXCEPT !.cancelled = TRUE] ELSE t : t \in tasks}

\* Mutant: the previous handles are dropped, not cancelled.
StopDetaching ==
    /\ call.pc = "stop"
    /\ servers' = {}
    /\ call' = [call EXCEPT !.pc = "await"]
    /\ UNCHANGED <<valid, addresses, senders, receivers, tasks, foreign, conns, queue,
                   rx, accepted, delivered, rejects, starts, sends>>

\* Take the recorded handles and cancel them all, then await every task.
StopPrevious ==
    /\ call.pc = "stop"
    /\ tasks' = CancelServers
    /\ servers' = {}
    /\ call' = [call EXCEPT !.pc = "await"]
    /\ UNCHANGED <<valid, addresses, senders, receivers, foreign, conns, queue, rx,
                   accepted, delivered, rejects, starts, sends>>

\* A failed bind drops the listeners bound so far.
BindFailing == Returned("bind")

\* One bind of phase 1, an ephemeral port resolving to any free one.
bind ==
    /\ call.pc \in {"await", "bind"} /\ \A t \in tasks : ~t.cancelled
    /\ call.targets # <<>>
    /\ LET target == Head(call.targets)
       IN \/ \E port \in Ports :
               /\ target.port \in {port, EphemeralPort} /\ Free(port)
               /\ call' = [call EXCEPT !.pc = "bind", !.targets = Tail(@),
                                       !.listeners = Append(@, Listener(target.node, port))]
          \/ /\ target.port # EphemeralPort /\ ~Free(target.port)
             /\ call' = BindFailing
    /\ UNCHANGED <<valid, addresses, senders, receivers, servers, tasks, foreign, conns,
                   queue, rx, accepted, delivered, rejects, starts, sends>>

\* The bound addresses recorded, and the tasks of the nodes that have a sender.
RealAddresses(listeners) ==
    [n \in Nodes |-> IF \E l \in listeners : l.node = n
                     THEN (CHOOSE l \in listeners : l.node = n).port ELSE addresses[n]]

Spawned(listeners) == {Task(l.node, l.port) : l \in {k \in listeners : k.node \in senders}}

\* Phase 2, without an await.
start_targets ==
    /\ call.pc = "bind" /\ call.targets = <<>>
    /\ LET listeners == ToSet(call.listeners)
       IN /\ addresses' = RealAddresses(listeners)
          /\ tasks' = tasks \cup Spawned(listeners)
          /\ servers' = {t.port : t \in Spawned(listeners)}
    /\ call' = Returned("ok")
    /\ UNCHANGED <<valid, senders, receivers, foreign, conns, queue, rx, accepted,
                   delivered, rejects, starts, sends>>

\* Take the handles and cancel them, await every task, then drop the senders.
shutdown ==
    /\ call.pc = "idle"
    /\ tasks' = CancelServers
    /\ servers' = {}
    /\ call' = [Idle EXCEPT !.pc = "closing"]
    /\ UNCHANGED <<valid, addresses, senders, receivers, foreign, conns, queue, rx,
                   accepted, delivered, rejects, starts, sends>>

ShutdownEnds ==
    /\ call.pc = "closing" /\ \A t \in tasks : ~t.cancelled
    /\ senders' = {}
    /\ call' = Returned("shut_down")
    /\ UNCHANGED <<valid, addresses, receivers, servers, tasks, foreign, conns, queue,
                   rx, accepted, delivered, rejects, starts, sends>>

\* A receiver is handed out once; a second call gets a fresh closed one and
\* leaves the factory as it is.
create(me) ==
    /\ call.pc = "idle" /\ me \in receivers
    /\ receivers' = receivers \ {me}
    /\ rx' = [rx EXCEPT ![me] = "held"]
    /\ UNCHANGED <<valid, addresses, senders, servers, call, tasks, foreign, conns,
                   queue, accepted, delivered, rejects, starts, sends>>

(***************************************************************************)
(* Server tasks, peers, receivers and the host.                             *)
(***************************************************************************)
\* select!: the cancelled task drops the server future and its listener.  The
\* connections it accepted are tasks of their own.
ServerTaskEnds(t) ==
    /\ t.cancelled
    /\ tasks' = tasks \ {t}
    /\ \E kept \in SUBSET conns :
         /\ ConnsOutlive \/ \A c \in kept : c[2] # t.node
         /\ {c \in conns : c[2] # t.node} \subseteq kept
         /\ conns' = kept
    /\ UNCHANGED <<valid, addresses, senders, receivers, servers, call, foreign, queue,
                   rx, accepted, delivered, rejects, starts, sends>>

\* A peer dials the node's address.
Connect(route) ==
    /\ \E t \in tasks : t.node = route[2] /\ ~t.cancelled
    /\ route \notin conns
    /\ conns' = conns \cup {route}
    /\ UNCHANGED <<valid, addresses, senders, receivers, servers, call, tasks, foreign,
                   queue, rx, accepted, delivered, rejects, starts, sends>>

Disconnect(route) ==
    /\ route \in conns
    /\ conns' = conns \ {route}
    /\ UNCHANGED <<valid, addresses, senders, receivers, servers, call, tasks, foreign,
                   queue, rx, accepted, delivered, rejects, starts, sends>>

\* try_send: taken, or the queue is full, or the receiver is gone.
try_send(n) == rx[n] \in {"factory", "held"} /\ Len(queue[n]) < Capacity

\* The handshake comes first: a refused one is counted and its payload untouched.
send(route, hello) ==
    /\ route \in conns
    /\ LET n == route[2]
       IN /\ sends[n] < MaxSends
          /\ sends' = [sends EXCEPT ![n] = @ + 1]
          /\ rejects' = IF hello THEN rejects ELSE rejects + 1
          /\ IF hello /\ try_send(n)
             THEN /\ queue' = [queue EXCEPT ![n] = Append(@, accepted[n] + 1)]
                  /\ accepted' = [accepted EXCEPT ![n] = @ + 1]
             ELSE UNCHANGED <<queue, accepted>>
    /\ UNCHANGED <<valid, addresses, senders, receivers, servers, call, tasks, foreign,
                   conns, rx, delivered, starts>>

recv(n) ==
    /\ rx[n] = "held"
    /\ \/ /\ queue[n] # <<>>
          /\ queue' = [queue EXCEPT ![n] = Tail(@)]
          /\ delivered' = [delivered EXCEPT ![n] = @ + 1]
          /\ UNCHANGED rx
       \/ /\ queue[n] = <<>> /\ ~Open(n)
          /\ rx' = [rx EXCEPT ![n] = "ended"]
          /\ UNCHANGED <<queue, delivered>>
    /\ UNCHANGED <<valid, addresses, senders, receivers, servers, call, tasks, foreign,
                   conns, accepted, rejects, starts, sends>>

\* The node stops for a reason of its own and drops its receiver.
DropReceiver(n) ==
    /\ rx[n] = "held"
    /\ rx' = [rx EXCEPT ![n] = "dropped"]
    /\ queue' = [queue EXCEPT ![n] = <<>>]
    /\ UNCHANGED <<valid, addresses, senders, receivers, servers, call, tasks, foreign,
                   conns, accepted, delivered, rejects, starts, sends>>

\* Another process takes or frees a port.
OtherProcess(port) ==
    /\ \/ port \in foreign /\ foreign' = foreign \ {port}
       \/ Free(port) /\ foreign' = foreign \cup {port}
    /\ UNCHANGED <<valid, addresses, senders, receivers, servers, call, tasks, conns,
                   queue, rx, accepted, delivered, rejects, starts, sends>>

OwnerNext ==
    \/ start
    \/ \E me \in Nodes, addr \in Ports \cup {EphemeralPort} : start_with_bind(me, addr)
    \/ shutdown
    \/ \E me \in Nodes : create(me)

Next ==
    \/ OwnerNext
    \/ StopPrevious
    \/ bind
    \/ start_targets
    \/ ShutdownEnds
    \/ \E t \in tasks : ServerTaskEnds(t)
    \/ \E route \in Routes : Connect(route) \/ Disconnect(route)
    \/ \E route \in Routes, hello \in BOOLEAN : send(route, hello)
    \/ \E n \in Nodes : recv(n) \/ DropReceiver(n)
    \/ \E port \in Ports : OtherProcess(port)

Spec == Init /\ [][Next]_vars

(***************************************************************************)
(* Properties.                                                              *)
(***************************************************************************)
\* The state is well formed and the inbound queues are bounded.
TypeOK ==
    /\ addresses \in [Nodes -> Ports \cup {EphemeralPort}]
    /\ senders \subseteq Nodes /\ receivers \subseteq Nodes
    /\ servers \subseteq Ports /\ foreign \subseteq Ports
    /\ tasks \subseteq [node : Nodes, port : Ports, cancelled : BOOLEAN]
    /\ call.pc \in {"idle", "stop", "await", "bind", "closing"}
    /\ conns \subseteq Routes
    /\ \A n \in Nodes : Len(queue[n]) <= Capacity
    /\ rx \in [Nodes -> {"factory", "held", "ended", "dropped"}]
    /\ rejects <= Cardinality(Nodes) * MaxSends

\* A node whose server runs is dialled where it listens: whatever `:0`, second
\* start or failed bind came before, the address map names the server's port.
ServedIsAddressed == \A t \in tasks : ~t.cancelled => addresses[t.node] = t.port

\* Between calls no listener is open without a recorded handle that a later
\* start or shutdown can cancel: a bind that fails half way leaks nothing.
NoListenerLeak == call.pc = "idle" => {t.port : t \in tasks} = servers

\* An acknowledged payload reaches the node: what was accepted is delivered or
\* still queued, in order, and recv ends only on a channel that is drained.
AcceptedIsDelivered ==
    \A n \in Nodes : rx[n] # "dropped" =>
        /\ queue[n] = [i \in 1..(accepted[n] - delivered[n]) |-> delivered[n] + i]
        /\ rx[n] = "ended" => accepted[n] = delivered[n]

\* factory.rs: after shutdown "every inbound sender is dropped and each
\* TonicRx::recv resolves to None".
ShutdownClosesInbound == call.result = "shut_down" => \A n \in Nodes : ~Open(n)
=============================================================================
