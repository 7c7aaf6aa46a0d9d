---------------------------- MODULE NodeProcess ----------------------------
(***************************************************************************)
(* The node binary from start to exit: the assembly, the HTTP accept loop   *)
(* with a task per connection, the signal, and the shutdown that stops the  *)
(* HTTP server, then the gRPC servers, and then waits for the actor's       *)
(* thread.  Clients, the accept loop, connection tasks, the actor and the   *)
(* peers of the cluster move independently.                                 *)
(*                                                                          *)
(* The routing of a request is kept; what the key-value and membership      *)
(* routes answer is in ClientPath and Handover.  External: TCP, hyper, and  *)
(* tonic's connections (see TransportFactory).                              *)
(***************************************************************************)
EXTENDS Naturals, FiniteSets, FiniteSetsExt

CONSTANTS
    Clients,          \* HTTP connections
    Requests,         \* pairs <<method, path>> clients send
    MAX_CONNECTIONS,
    ConnsOutlive,     \* may a connection's task outlive its server's future?
    MaxFaults         \* bound on failing assembly steps and fail-stops

VARIABLES
    pc,        \* where `run` stands
    exit,      \* "none", "ok" or "error"
    held,      \* what the process holds: wal, listener, senders, peer, http
    actor,     \* "none", "running" or "stopped"
    ready,     \* the leader gauge is set
    shutdown_rx,  \* the HTTP server's shutdown flag
    loop,      \* the accept loop: a connection just accepted, or NoClient
    conn,      \* client -> its connection
    reply,     \* client -> the last status it received
    faults

vars == <<pc, exit, held, actor, ready, shutdown_rx, loop, conn, reply, faults>>

NoClient == "nobody"
Live == {"idle", "busy"}

Init ==
    /\ pc = "open" /\ exit = "none"
    /\ held = {}
    /\ actor = "none"
    /\ ready = FALSE
    /\ shutdown_rx = FALSE
    /\ loop = NoClient
    /\ conn = [c \in Clients |-> "none"]
    /\ reply = [c \in Clients |-> "none"]
    /\ faults = 0

Http == <<shutdown_rx, loop, conn, reply>>

(***************************************************************************)
(* Assembly: an error returns from `run`, and the process ends with it.     *)
(***************************************************************************)
Exits(code) ==
    /\ pc' = "exited" /\ exit' = code
    /\ held' = {}
    /\ actor' = IF actor = "running" THEN "killed" ELSE actor
    /\ conn' = [c \in Clients |-> IF conn[c] \in Live THEN "cut" ELSE conn[c]]
    /\ UNCHANGED <<ready, shutdown_rx, loop, reply>>

Fails(at) == pc = at /\ faults < MaxFaults /\ faults' = faults + 1 /\ Exits("error")

Acquires(at, what, next) ==
    /\ pc = at
    /\ held' = held \cup what
    /\ pc' = next
    /\ UNCHANGED <<exit, ready, faults>> /\ UNCHANGED Http

open ==
    \/ Acquires("open", {"wal"}, "bind") /\ UNCHANGED actor
    \/ Acquires("bind", {"listener", "senders"}, "runtime") /\ UNCHANGED actor
    \/ Acquires("runtime", {}, "http") /\ actor' = "running"
    \/ Fails("open") \/ Fails("bind") \/ Fails("runtime")

\* The HTTP listener; if it cannot be bound the node is dropped, not shut down.
run ==
    \/ Acquires("http", {"http"}, "serving") /\ UNCHANGED actor
    \/ Fails("http")

(***************************************************************************)
(* The HTTP server.                                                         *)
(***************************************************************************)
Routed == "actor"  \* answered by the key-value or membership handlers

handle_kv(method, path) ==
    CASE method \in {"GET", "DELETE"} -> Routed
      [] method = "PUT" -> IF path = "kv_pair" THEN Routed ELSE "400"
      [] OTHER -> "405"

handle(method, path) ==
    CASE path \in {"kv_key", "kv_pair"} -> handle_kv(method, path)
      [] path = "members" -> Routed
      [] path \in {"readyz", "metrics"} /\ method # "GET" -> "405"
      [] path = "readyz" -> IF ready THEN "200" ELSE "503"
      [] path = "metrics" -> "200"
      [] OTHER -> "404"

dispatch(method, path) ==
    IF method \in {"GET", "PUT", "DELETE", "POST"} THEN handle(method, path) ELSE "405"

Dial(c) ==
    /\ "http" \in held /\ conn[c] \in {"none", "closed"}
    /\ conn' = [conn EXCEPT ![c] = "queued"]
    /\ UNCHANGED <<pc, exit, held, actor, ready, shutdown_rx, loop, reply, faults>>

\* The biased select: an accept wins only while no shutdown is signalled.
Accept(c) ==
    /\ "http" \in held /\ loop = NoClient /\ ~shutdown_rx
    /\ conn[c] = "queued"
    /\ loop' = c
    /\ UNCHANGED <<pc, exit, held, actor, ready, shutdown_rx, conn, reply, faults>>

CloseHttp(cs) == [c \in Clients |-> IF conn[c] = "queued" \/ c \in cs THEN "closed" ELSE conn[c]]

\* Signalled meanwhile: stop, with the connection.  Otherwise spawn its task.  The
\* permit is a local of the loop's block and returns to the semaphore with it,
\* so the next accept finds it again.
serve ==
    /\ loop # NoClient
    /\ loop' = NoClient
    /\ IF shutdown_rx
       THEN conn' = CloseHttp({loop}) /\ held' = held \ {"http"}
       ELSE conn' = [conn EXCEPT ![loop] = IF MAX_CONNECTIONS > 0 THEN "idle" ELSE "closed"]
            /\ UNCHANGED held
    /\ UNCHANGED <<pc, exit, actor, ready, shutdown_rx, reply, faults>>

\* Mutant: the flag is only looked at after an accept.
LoopParked == FALSE /\ UNCHANGED vars

\* The select sees the flag while the loop waits in accept.
LoopEnds ==
    /\ "http" \in held /\ loop = NoClient /\ shutdown_rx
    /\ conn' = CloseHttp({})
    /\ held' = held \ {"http"}
    /\ UNCHANGED <<pc, exit, actor, ready, shutdown_rx, loop, reply, faults>>

call(c, req) ==
    /\ conn[c] = "idle"
    /\ LET to == dispatch(req[1], req[2])
       IN /\ conn' = [conn EXCEPT ![c] = IF to = Routed THEN "busy" ELSE "idle"]
          /\ reply' = [reply EXCEPT ![c] = IF to = Routed THEN "none" ELSE to]
    /\ UNCHANGED <<pc, exit, held, actor, ready, shutdown_rx, loop, faults>>

\* The client handle's answer; a stopped actor's is an error.
Answer(c) ==
    /\ conn[c] = "busy"
    /\ conn' = [conn EXCEPT ![c] = "idle"]
    /\ reply' = [reply EXCEPT ![c] = IF actor = "running" THEN "200" ELSE "503"]
    /\ UNCHANGED <<pc, exit, held, actor, ready, shutdown_rx, loop, faults>>

\* The client hangs up, or the header read times out.
ConnectionEnds(c) ==
    /\ conn[c] \in Live
    /\ conn' = [conn EXCEPT ![c] = "closed"]
    /\ UNCHANGED <<pc, exit, held, actor, ready, shutdown_rx, loop, reply, faults>>

(***************************************************************************)
(* The signal and the shutdown.                                             *)
(***************************************************************************)
Signal ==
    /\ pc = "serving"
    /\ pc' = "await_http"
    /\ shutdown_rx' = TRUE
    /\ UNCHANGED <<exit, held, actor, ready, loop, conn, reply, faults>>

\* The HTTP task ended: factory.shutdown.
Shutdown ==
    /\ pc = "await_http" /\ "http" \notin held
    /\ \E kept \in {{}, IF ConnsOutlive THEN {"peer"} ELSE {}} :
         held' = held \ ({"listener", "senders", "peer"} \ kept)
    /\ pc' = "join"
    /\ UNCHANGED <<exit, actor, ready, faults>> /\ UNCHANGED Http

\* The thread is joined; `run` returns and the runtime drops every task.
Joined ==
    /\ pc = "join" /\ actor = "stopped"
    /\ Exits("ok") /\ UNCHANGED faults

(***************************************************************************)
(* The actor and the peers.                                                 *)
(***************************************************************************)
\* Nothing else ends it: no stop signal is sent, and its own command sink keeps
\* the command channel open.
InboundClosed == held \cap {"listener", "senders", "peer"} = {}

ActorEnds ==
    /\ actor = "running" /\ InboundClosed
    /\ actor' = "stopped" /\ held' = held \ {"wal"}
    /\ UNCHANGED <<pc, exit, ready, faults>> /\ UNCHANGED Http

\* A fail-stop leaves the process running and the gauges as they are.
FailStop ==
    /\ actor = "running" /\ faults < MaxFaults
    /\ faults' = faults + 1
    /\ actor' = "stopped" /\ held' = held \ {"wal"}
    /\ UNCHANGED <<pc, exit, ready>> /\ UNCHANGED Http

LeaderKnown ==
    /\ actor = "running"
    /\ ready' = ~ready
    /\ UNCHANGED <<pc, exit, held, actor, faults>> /\ UNCHANGED Http

PeerConnects ==
    /\ "listener" \in held /\ "peer" \notin held
    /\ held' = held \cup {"peer"}
    /\ UNCHANGED <<pc, exit, actor, ready, faults>> /\ UNCHANGED Http

PeerLeaves ==
    /\ "peer" \in held
    /\ held' = held \ {"peer"}
    /\ UNCHANGED <<pc, exit, actor, ready, faults>> /\ UNCHANGED Http

Next ==
    \/ open \/ run
    \/ \E c \in Clients : Dial(c) \/ Accept(c) \/ Answer(c) \/ ConnectionEnds(c)
    \/ \E c \in Clients, req \in Requests : call(c, req)
    \/ serve \/ LoopEnds
    \/ Signal \/ Shutdown \/ Joined
    \/ ActorEnds \/ FailStop \/ LeaderKnown \/ PeerConnects \/ PeerLeaves

Spec == Init /\ [][Next]_vars

\* The process's own steps are taken once they can be.
LiveSpec ==
    /\ Spec
    /\ WF_vars(open) /\ WF_vars(run) /\ WF_vars(serve) /\ WF_vars(LoopEnds)
    /\ WF_vars(Shutdown) /\ WF_vars(Joined) /\ WF_vars(ActorEnds)
    /\ \A c \in Clients : WF_vars(Answer(c))

(***************************************************************************)
(* Properties.                                                              *)
(***************************************************************************)
\* The state is well formed, and the actor never runs without its WAL.
TypeOK ==
    /\ exit \in {"none", "ok", "error"} /\ actor \in {"none", "running", "stopped", "killed"}
    /\ held \subseteq {"wal", "listener", "senders", "peer", "http"}
    /\ conn \in [Clients -> {"none", "queued", "closed", "cut"} \cup Live]
    /\ actor = "running" => "wal" \in held

\* Exit code 0 is an orderly end: the actor had stopped and dropped its WAL,
\* and the HTTP server had taken its last connection.
ExitIsOrderly == exit = "ok" => actor = "stopped" /\ shutdown_rx /\ loop = NoClient

\* Once the signal is seen no connection is served that was not before it.
NoFreshWork ==
    [][shutdown_rx => \A c \in Clients : conn'[c] \in Live => conn[c] \in Live]_vars

\* After the signal the process ends, unless a peer keeps a connection open that
\* outlived its server.
ExitsUnlessPeerStays == shutdown_rx ~> (pc = "exited" \/ "peer" \in held)

\* cli.rs: "the process exits 0" on SIGTERM.
SignalEndsProcess == shutdown_rx ~> pc = "exited"

\* http.rs: "one task per connection, bounded by a Semaphore".
ConnectionsBounded == Cardinality({c \in Clients : conn[c] \in Live}) <= MAX_CONNECTIONS

\* http.rs: "in-flight connections are allowed to finish (graceful)".
NoRequestCut == [][exit' = "ok" => \A c \in Clients : conn[c] # "busy"]_vars

\* metrics.rs: "A node is ready to serve once it knows its cluster's leader".
ReadyCanServe == pc = "serving" /\ ready => actor = "running"
=============================================================================
