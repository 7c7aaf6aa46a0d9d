---------------------------- MODULE MCLifecycle -----------------------------
(***************************************************************************)
(* Starting and stopping, for TLC: the one node an embedder runs through   *)
(* the facade, and the node process with its HTTP server.  The two share   *)
(* no state: `mode' chooses one at the start, and the other stays in its   *)
(* initial state.                                                          *)
(***************************************************************************)
EXTENDS Facade

VARIABLES
    mode,
    p_pc, p_exit, p_held, p_actor, p_ready, p_shutdown, p_loop, p_conn,
    p_reply, p_faults

p_vars == <<p_pc, p_exit, p_held, p_actor, p_ready, p_shutdown, p_loop,
            p_conn, p_reply, p_faults>>

\* Node 2 alone, or second of three members.
MCClusters == {<<>>, <<1, 2, 3>>}

HttpRequests ==
    {<<"PUT", "kv_pair">>, <<"PUT", "kv_key">>, <<"POST", "kv_key">>,
     <<"GET", "readyz">>, <<"POST", "readyz">>, <<"GET", "metrics">>,
     <<"GET", "other">>, <<"PATCH", "members">>}

\* Two HTTP connections on a server for one, one request of each kind.
P == INSTANCE NodeProcess WITH
    Clients <- {"c1", "c2"}, Requests <- HttpRequests, MAX_CONNECTIONS <- 1,
    ConnsOutlive <- TRUE, MaxFaults <- 1,
    pc <- p_pc, exit <- p_exit, held <- p_held, actor <- p_actor,
    ready <- p_ready, shutdown_rx <- p_shutdown, loop <- p_loop,
    conn <- p_conn, reply <- p_reply, faults <- p_faults

LifeInit == mode \in {"facade", "process"} /\ Init /\ P!Init

\* One part takes a step and the other does not.
OnlyF == mode = "facade" /\ UNCHANGED <<mode, p_vars>>
OnlyP == mode = "process" /\ UNCHANGED <<mode, vars>>

LifeNext == (OnlyF /\ Next) \/ (OnlyP /\ P!Next)

\* The steps each part must take once they stay enabled, as its module has
\* them.  One part runs, so the steps of the two are named together; those of
\* the process are its main thread, the accept loop, the actor and its
\* connections.
Fair1 ==
    \/ OnlyF /\ Work(1)
    \/ OnlyP /\ (P!open \/ P!run \/ P!Shutdown \/ P!Joined)

Fair2 == (OnlyF /\ Work(2)) \/ (OnlyP /\ (P!serve \/ P!LoopEnds))

Fair3 == (OnlyF /\ ActorEnds(1)) \/ (OnlyP /\ P!ActorEnds)

Fair4 == (OnlyF /\ ActorEnds(2)) \/ (OnlyP /\ P!Answer("c1"))

Fair5 == OnlyP /\ P!Answer("c2")

all == <<mode, vars, p_vars>>

LifeSpec ==
    /\ LifeInit /\ [][LifeNext]_all
    /\ WF_all(Fair1) /\ WF_all(Fair2) /\ WF_all(Fair3)
    /\ WF_all(Fair4) /\ WF_all(Fair5)

(***************************************************************************)
(* Properties.                                                             *)
(***************************************************************************)

\* No start, operation or shutdown waits for ever, even with a peer that never
\* closes its connection (RuntimeThread::shutdown).
EveryFacadeCallReturns ==
    \A c \in {1, 2} : []<>At(c, "idle")

\* After the signal the process ends, unless a peer keeps a connection open that
\* outlived its server (ArachneNode::shutdown).
ExitsUnlessPeerStays ==
    []<>(p_shutdown => p_pc = "exited" \/ "peer" \in p_held)
=============================================================================
