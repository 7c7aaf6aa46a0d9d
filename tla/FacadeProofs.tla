---------------------------- MODULE FacadeProofs ----------------------------
(***************************************************************************)
(* Proofs about Facade, for any threads, clusters and number of nodes:     *)
(* one node at a time has the data directory's lock, a call that returned  *)
(* left nothing behind, and the slot agrees with the nodes.                *)
(***************************************************************************)
EXTENDS Facade, TLAPS

(***************************************************************************)
(* The inductive invariant.                                                *)
(***************************************************************************)
BuildPcs == {"open", "offload", "bind", "runtime", "spawn"}
ClosePcs == {"close", "stop", "join"}
Pcs == {"idle", "await"} \cup BuildPcs \cup ClosePcs
Ops == {"none", "start", "assemble", "call", "handle", "shutdown", "drop"}
Faults == {"locked", "offload", "bind", "runtime", "spawn"}
Results == {"none", "ok", "AlreadyInitialized", "NotInitialized", "Unavailable"} \cup Faults
Kinds == {"none", "peerless", "member", "assembled"}

NodeType ==
    [kind : Kinds, id : Nat, peers : SUBSET Nat, wal : BOOLEAN, listener : BOOLEAN,
     senders : BOOLEAN, conn : BOOLEAN, actor : {"none", "running", "stopped"}, stop : BOOLEAN]

CallerType ==
    [pc : Pcs, op : Ops, g : 0 .. MaxNodes, result : Results,
     held : 0 .. MaxNodes, owns : 0 .. MaxNodes]

Types ==
    /\ INSTANCE_ \in 0 .. MaxNodes /\ guard \in Callers \cup {NoNode}
    /\ node \in [Slots -> NodeType] /\ caller \in [Callers -> CallerType]
    /\ built \in 0 .. MaxNodes

\* Node n has been handed over to an actor.
Spawned(n) == n.actor # "none"

\* Node n has something that a later start would miss.
Holds(n) == n.wal \/ n.listener \/ n.actor = "running"

\* The actor has the WAL from its start to its end.
NodeOK(n) ==
    /\ n.actor = "running" => n.wal
    /\ n.actor = "stopped" => ~n.wal
    /\ n.kind = "peerless" => ~n.listener /\ ~n.senders

\* A node that is not built yet has nothing.
NodesInv ==
    \A g \in Slots : NodeOK(node[g]) /\ (g > built => ~Spawned(node[g]) /\ ~Holds(node[g]))

\* What the assembly r has acquired for its node n, step by step.
Assembly(r, n) ==
    /\ r.g # NoNode /\ n.actor = "none"
    /\ r.op \in {"start", "assemble"}
    /\ r.op = "assemble" <=> n.kind = "assembled"
    /\ n.wal <=> r.pc # "open"
    /\ r.pc \in {"open", "offload", "bind"} => ~n.listener /\ ~n.senders /\ ~n.conn
    /\ r.pc \in {"offload", "bind"} => n.kind # "peerless"

\* What the call r leaves of its node n when it returns.
Leaves(r, n) ==
    /\ r.op = "shutdown" /\ r.result = "ok" =>
           ~n.wal /\ ~n.listener /\ ~n.senders /\ n.actor = "stopped"
    /\ r.op = "start" /\ r.result \in Faults =>
           ~n.wal /\ ~n.listener /\ ~n.senders /\ ~n.conn /\ n.actor = "none"

\* What the call r may rely on of its node n.
Relies(r, n) ==
    /\ r.pc \in BuildPcs => Assembly(r, n)
    /\ r.pc \in ClosePcs => r.op = "shutdown" /\ r.g # NoNode
    /\ r.pc \in {"stop", "join"} => ~n.listener /\ ~n.senders
    /\ r.pc = "await" => r.op = "call"
    /\ r.op = "shutdown" /\ r.g # NoNode => Spawned(n)
    /\ r.pc = "idle" /\ r.g # NoNode => Leaves(r, n)

\* The nodes that the call r names beside its own: both run or have run.
Names(r) ==
    /\ r.g <= built
    /\ r.held # NoNode => Spawned(node[r.held])
    /\ r.owns # NoNode => Spawned(node[r.owns]) /\ node[r.owns].kind = "assembled"

CallerInv(c) ==
    /\ Names(caller[c])
    /\ Relies(caller[c], node[caller[c].g])
    /\ caller[c].pc \in BuildPcs /\ caller[c].op = "start" => guard = c

\* A node that is being assembled is in no other call's hands.
Apart == \A c, d \in Callers : c # d /\ caller[d].pc \in BuildPcs => caller[c].g # caller[d].g

Slot ==
    /\ INSTANCE_ # NoNode => Spawned(node[INSTANCE_]) /\ node[INSTANCE_].kind # "assembled"
    /\ guard # NoNode => /\ INSTANCE_ = NoNode
                         /\ caller[guard].pc \in BuildPcs /\ caller[guard].op = "start"

\* The call r builds node g or tears it down.
InHands(r, g) == r.pc \in BuildPcs \cup ClosePcs /\ r.g = g

\* NoOrphan, without the calls that only use a node.
Reach ==
    \A g \in Slots : Holds(node[g]) =>
        \/ node[g].kind = "assembled"
        \/ INSTANCE_ = g
        \/ \E c \in Callers : InHands(caller[c], g)

OneLock == \A g, h \in Slots : node[g].wal /\ node[h].wal => g = h

IInv ==
    /\ Types /\ NodesInv
    /\ \A c \in Callers : CallerInv(c)
    /\ Apart /\ Slot /\ Reach /\ OneLock /\ SlotIsLive

-----------------------------------------------------------------------------
(***************************************************************************)
(* Records and functions.                                                  *)
(***************************************************************************)
\* The fields of a call that name nodes.
LEMMA CallerIs ==
    ASSUME NEW r \in CallerType
    PROVE  r.g \in 0 .. MaxNodes /\ r.held \in 0 .. MaxNodes /\ r.owns \in 0 .. MaxNodes
BY DEF CallerType

\* What names a node names one of the slots.
LEMMA SlotIs ==
    ASSUME NEW g \in 0 .. MaxNodes, g # NoNode
    PROVE  g \in Slots
BY FacadeAssumption DEF Slots, NoNode

\* The mutex is free when its holder is the number 0.
LEMMA NoCaller == NoNode \notin Callers
BY FacadeAssumption DEF NoNode

\* One node changes and the others do not.
LEMMA NodeBecomes ==
    ASSUME NEW g \in Slots, NEW n \in NodeType, node \in [Slots -> NodeType],
           node' = [node EXCEPT ![g] = n]
    PROVE  /\ node' \in [Slots -> NodeType] /\ node'[g] = n
           /\ \A h \in Slots \ {g} : node'[h] = node[h]
OBVIOUS

\* One call moves on and the others do not.
LEMMA CallerBecomes ==
    ASSUME caller \in [Callers -> CallerType], NEW c \in Callers, NEW r \in CallerType, Becomes(c, r)
    PROVE  /\ caller' \in [Callers -> CallerType] /\ caller'[c] = r
           /\ \A d \in Callers \ {c} : caller'[d] = caller[d]
BY DEF Becomes

\* The parts of the invariant that a step begins from.
LEMMA Parts ==
    ASSUME IInv
    PROVE  /\ INSTANCE_ \in 0 .. MaxNodes /\ guard \in Callers \cup {NoNode}
           /\ node \in [Slots -> NodeType] /\ caller \in [Callers -> CallerType]
           /\ built \in Nat /\ built \in 0 .. MaxNodes
           /\ \A c \in Callers : CallerInv(c) /\ caller[c] \in CallerType
           /\ \A g \in Slots : node[g] \in NodeType /\ NodeOK(node[g])
<1>1. Types /\ NodesInv /\ \A c \in Callers : CallerInv(c)
    BY Zenon DEF IInv
<1>2. 0 .. MaxNodes \subseteq Nat
    BY FacadeAssumption
<1> QED
    BY ONLY <1>1, <1>2 DEF Types, NodesInv

-----------------------------------------------------------------------------
(***************************************************************************)
(* What one step leaves of the other calls and nodes.                      *)
(***************************************************************************)
\* From n to m a node acquires nothing and its actor does not start.
Tame(n, m) ==
    /\ m.kind = n.kind
    /\ m.wal => n.wal
    /\ m.listener => n.listener
    /\ m.senders => n.senders
    /\ m.conn => n.conn \/ n.listener
    /\ Spawned(m) <=> Spawned(n)
    /\ ~Spawned(n) => m.wal = n.wal
    /\ n.actor = "stopped" => m.actor = "stopped"
    /\ m.actor = "running" => n.actor = "running"

\* An actor that runs or ran stays one, of the same kind.
Lasting == \A h \in Slots : Spawned(node[h]) => Spawned(node'[h]) /\ node'[h].kind = node[h].kind

\* No call but c moves, and the mutex stays with the call that has it.
OnlyMoves(c) == \A d \in Callers \ {c} : caller'[d] = caller[d] /\ (guard = d => guard' = d)

\* The nodes of the other calls are left alone.
OthersTame(c) ==
    \A d \in Callers \ {c} :
        caller[d].g # NoNode => Tame(node[caller[d].g], node'[caller[d].g])

\* A node that does not change is left alone.
LEMMA SameIsTame == ASSUME NEW n PROVE Tame(n, n)
BY DEF Tame

\* What an assembly has acquired stays while its node is left alone.
LEMMA AssemblyStays ==
    ASSUME NEW r, NEW n, NEW m, Assembly(r, n), Tame(n, m)
    PROVE  Assembly(r, m)
BY DEF Assembly, Tame, Spawned

\* What a call left behind stays left behind.
LEMMA LeavesStays ==
    ASSUME NEW r, NEW n, NEW m, Leaves(r, n), Tame(n, m)
    PROVE  Leaves(r, m)
BY DEF Leaves, Tame, Spawned

\* What a call relies on stays as it is, while its node is left alone.
LEMMA ReliesStays ==
    ASSUME NEW r, NEW n, NEW m, Relies(r, n), r.g # NoNode => Tame(n, m)
    PROVE  Relies(r, m)
<1>1. CASE r.g = NoNode
    BY <1>1 DEF Relies, Assembly, ClosePcs
<1>2. CASE r.g # NoNode
    <2>1. Tame(n, m)
        BY <1>2
    <2>2. /\ Assembly(r, n) => Assembly(r, m)
          /\ Leaves(r, n) => Leaves(r, m)
        BY <2>1, AssemblyStays, LeavesStays, Zenon
    <2>3. /\ Spawned(n) => Spawned(m)
          /\ ~n.listener => ~m.listener
          /\ ~n.senders => ~m.senders
        BY ONLY <2>1, Zenon DEF Tame
    <2> QED
        BY ONLY <2>2, <2>3, Relies(r, n), Zenon DEF Relies
<1> QED
    BY <1>1, <1>2

\* The nodes that a call names stay what they are.
LEMMA NamesStays ==
    ASSUME NEW r \in CallerType, Names(r), Lasting, built \in Nat, built' \in Nat, built <= built'
    PROVE  /\ r.g <= built'
           /\ r.held # NoNode => Spawned(node'[r.held])
           /\ r.owns # NoNode => Spawned(node'[r.owns]) /\ node'[r.owns].kind = "assembled"
<1>1. r.g \in Nat /\ (r.held # NoNode => r.held \in Slots) /\ (r.owns # NoNode => r.owns \in Slots)
    BY CallerIs, SlotIs, FacadeAssumption
<1>2. r.g <= built'
    BY <1>1 DEF Names
<1> QED
    BY <1>1, <1>2, Zenon DEF Names, Lasting

\* The invariant, part by part, after a step of call c or of no call.
LEMMA StepKeeps ==
    ASSUME IInv, Types', NEW c, OnlyMoves(c), OthersTame(c), Lasting, built <= built', NodesInv',
           c \in Callers => CallerInv(c)',
           Apart', Slot', Reach', OneLock', SlotIsLive'
    PROVE  IInv'
<1>1. built \in Nat /\ built' \in Nat
    BY Parts, FacadeAssumption DEF Types
<1>2. ASSUME NEW d \in Callers, d # c PROVE CallerInv(d)'
    <2>1. PICK r \in CallerType : r = caller[d] /\ r = caller'[d]
        BY <1>2, Parts, Zenon DEF OnlyMoves
    <2>2. Names(r) /\ Relies(r, node[r.g]) /\ (r.pc \in BuildPcs /\ r.op = "start" => guard = d)
        BY <2>1, Parts, Zenon DEF CallerInv
    <2>3. /\ r.g <= built'
          /\ r.held # NoNode => Spawned(node'[r.held])
          /\ r.owns # NoNode => Spawned(node'[r.owns]) /\ node'[r.owns].kind = "assembled"
        BY <1>1, <2>2, NamesStays, Zenon
    <2>4. Names(r)'
        BY <2>3, Zenon DEF Names
    <2>5. r.g # NoNode => Tame(node[r.g], node'[r.g])
        BY <1>2, <2>1, Zenon DEF OthersTame
    <2>6. Relies(r, node'[r.g])
        BY <2>2, <2>5, ReliesStays, Zenon
    <2>7. guard = d => guard' = d
        BY <1>2, Zenon DEF OnlyMoves
    <2> QED
        BY <2>1, <2>2, <2>4, <2>6, <2>7, Zenon DEF CallerInv, Names
<1> QED
    BY <1>2, Zenon DEF IInv

\* Assemblies stay apart when the one call that moves takes a node that runs, or
\* none, or keeps its own.
LEMMA ApartKeeps ==
    ASSUME IInv, NEW c, OnlyMoves(c),
           c \in Callers =>
               /\ caller'[c].pc \in BuildPcs => caller[c].pc \in BuildPcs /\ caller'[c].g = caller[c].g
               /\ \/ caller'[c].g = caller[c].g
                  \/ caller'[c].g = NoNode \/ Spawned(node[caller'[c].g])
    PROVE  Apart'
<1> SUFFICES ASSUME NEW a \in Callers, NEW d \in Callers, a # d, caller'[d].pc \in BuildPcs
             PROVE  caller'[a].g # caller'[d].g
    BY Zenon DEF Apart
<1>1. caller[d].pc \in BuildPcs /\ caller'[d].g = caller[d].g
    BY DEF OnlyMoves
<1>2. caller[d].g # NoNode /\ ~Spawned(node[caller[d].g])
    BY <1>1, Parts, Zenon DEF CallerInv, Relies, Assembly, Spawned
<1>3. caller[a].g # caller[d].g
    BY <1>1, Zenon DEF IInv, Apart
<1>4. CASE a = c
    BY <1>1, <1>2, <1>3, <1>4
<1>5. CASE a # c
    BY <1>1, <1>3, <1>5 DEF OnlyMoves
<1> QED
    BY <1>4, <1>5

\* A node that holds something stays within reach.
LEMMA ReachKeeps ==
    ASSUME IInv, NEW c, OnlyMoves(c),
           \A h \in Slots : Holds(node'[h]) =>
               \/ node'[h].kind = "assembled" \/ INSTANCE_' = h
               \/ c \in Callers /\ InHands(caller'[c], h)
               \/ /\ Holds(node[h]) /\ node'[h].kind = node[h].kind
                  /\ INSTANCE_ # h
                  /\ c \in Callers => ~InHands(caller[c], h)
    PROVE  Reach'
<1> SUFFICES ASSUME NEW h \in Slots, Holds(node'[h])
             PROVE  \/ node'[h].kind = "assembled" \/ INSTANCE_' = h
                    \/ \E d \in Callers : InHands(caller'[d], h)
    BY Zenon DEF Reach
<1>1. CASE /\ Holds(node[h]) /\ node'[h].kind = node[h].kind /\ INSTANCE_ # h
           /\ c \in Callers => ~InHands(caller[c], h)
    <2>1. node[h].kind = "assembled" \/ \E d \in Callers : InHands(caller[d], h)
        BY <1>1, Zenon DEF IInv, Reach
    <2>2. CASE \E d \in Callers : InHands(caller[d], h)
        <3>1. PICK d \in Callers : InHands(caller[d], h)
            BY <2>2
        <3>2. caller'[d] = caller[d]
            BY <1>1, <3>1, Zenon DEF OnlyMoves
        <3> QED
            BY <3>1, <3>2
    <2> QED
        BY <1>1, <2>1, <2>2
<1> QED
    BY <1>1

\* No lock is taken.
LEMMA OneLockKeeps ==
    ASSUME IInv, \A h \in Slots : node'[h].wal => node[h].wal
    PROVE  OneLock'
BY Zenon DEF IInv, OneLock

\* The slot names no node that is torn down, when the call that moves does not
\* tear down the one in it.
LEMMA SlotIsLiveKeeps ==
    ASSUME IInv, NEW c, OnlyMoves(c), INSTANCE_' = INSTANCE_ \/ INSTANCE_' = NoNode,
           c \in Callers /\ caller'[c].op = "shutdown" =>
               \/ caller[c].op = "shutdown" /\ caller'[c].g = caller[c].g
               \/ caller'[c].g = NoNode \/ caller'[c].g # INSTANCE_'
    PROVE  SlotIsLive'
<1> SUFFICES ASSUME INSTANCE_' # NoNode, NEW d \in Callers,
                    caller'[d].op = "shutdown", caller'[d].g = INSTANCE_'
             PROVE  FALSE
    BY Zenon DEF SlotIsLive
<1>1. INSTANCE_' = INSTANCE_ /\ ~(caller[d].op = "shutdown" /\ caller[d].g = INSTANCE_)
    BY Zenon DEF IInv, SlotIsLive
<1>2. CASE d = c
    BY <1>1, <1>2, Zenon
<1>3. CASE d # c
    BY <1>1, <1>3, Zenon DEF OnlyMoves
<1> QED
    BY <1>2, <1>3

\* What the slot and its mutex say, while both stay as they are.
LEMMA SlotKeeps ==
    ASSUME IInv, NEW c, OnlyMoves(c), Lasting, INSTANCE_' = INSTANCE_, guard' = guard,
           c \in Callers /\ guard = c => caller'[c].pc \in BuildPcs /\ caller'[c].op = caller[c].op
    PROVE  Slot'
<1>1. INSTANCE_ # NoNode => Spawned(node'[INSTANCE_]) /\ node'[INSTANCE_].kind # "assembled"
    <2>1. INSTANCE_ # NoNode => INSTANCE_ \in Slots
        BY Parts, SlotIs
    <2> QED
        BY <2>1, Zenon DEF IInv, Slot, Lasting
<1>2. ASSUME guard # NoNode
      PROVE  INSTANCE_ = NoNode /\ caller'[guard].pc \in BuildPcs /\ caller'[guard].op = "start"
    <2>1. /\ guard \in Callers /\ INSTANCE_ = NoNode
          /\ caller[guard].pc \in BuildPcs /\ caller[guard].op = "start"
        BY <1>2, Parts DEF IInv, Slot
    <2> QED
        BY <2>1, Zenon DEF OnlyMoves
<1> QED
    BY <1>1, <1>2, Zenon DEF Slot

\* The invariant after a step that takes nothing, starts no actor and leaves
\* the mutex as it is.
LEMMA TameStep ==
    ASSUME IInv, Types', NEW c, OnlyMoves(c), UNCHANGED <<guard, built>>, NodesInv',
           INSTANCE_' = INSTANCE_ \/ (INSTANCE_' = NoNode /\ guard = NoNode),
           \A h \in Slots : Tame(node[h], node'[h]),
           c \in Callers =>
               /\ CallerInv(c)'
               /\ caller'[c].pc \notin BuildPcs /\ caller[c].pc \notin BuildPcs
               /\ \/ caller'[c].g = caller[c].g
                  \/ caller'[c].g = NoNode \/ Spawned(node[caller'[c].g])
               /\ caller'[c].op = "shutdown" =>
                      \/ caller[c].op = "shutdown" /\ caller'[c].g = caller[c].g
                      \/ caller'[c].g = NoNode \/ caller'[c].g # INSTANCE_',
           \A h \in Slots : Holds(node'[h]) /\ (INSTANCE_ = h \/ (c \in Callers /\ InHands(caller[c], h))) =>
               INSTANCE_' = h \/ (c \in Callers /\ InHands(caller'[c], h))
    PROVE  IInv'
<1>1. Lasting
    BY Zenon DEF Lasting, Tame
<1>2. OthersTame(c)
    <2>1. \A d \in Callers : caller[d].g # NoNode => caller[d].g \in Slots
        BY Parts, CallerIs, SlotIs
    <2> QED
        BY <2>1, Zenon DEF OthersTame
<1>3. Apart'
    BY ApartKeeps, Zenon
<1>4. Slot'
    <2>1. CASE INSTANCE_' = INSTANCE_
        <3>1. c \in Callers => guard # c
            BY NoCaller, Zenon DEF IInv, Slot
        <3> QED
            BY <1>1, <2>1, <3>1, SlotKeeps, Zenon
    <2>2. CASE INSTANCE_' = NoNode /\ guard = NoNode
        BY <2>2, Zenon DEF Slot
    <2> QED
        BY <2>1, <2>2, Zenon
<1>5. Reach'
    <2>1. \A h \in Slots : Holds(node'[h]) => Holds(node[h]) /\ node'[h].kind = node[h].kind
        BY Zenon DEF Tame, Holds
    <2> QED
        BY <2>1, ReachKeeps, Zenon
<1>6. OneLock'
    BY OneLockKeeps, Zenon DEF Tame
<1>7. SlotIsLive'
    BY SlotIsLiveKeeps, Zenon
<1>8. built <= built'
    BY Parts
<1> QED
    BY <1>1, <1>2, <1>3, <1>4, <1>5, <1>6, <1>7, <1>8, StepKeeps, Zenon

-----------------------------------------------------------------------------
(***************************************************************************)
(* The actor thread and the peers.                                         *)
(***************************************************************************)
\* The nodes, when one of them that is built changes.
LEMMA NodeChange ==
    ASSUME IInv, NEW g \in Slots, NEW n \in NodeType, node' = [node EXCEPT ![g] = n],
           NodeOK(n), g <= built \/ Tame(node[g], n), built' = built
    PROVE  /\ node' \in [Slots -> NodeType] /\ NodesInv' /\ node'[g] = n
           /\ \A h \in Slots \ {g} : node'[h] = node[h]
<1>1. /\ node' \in [Slots -> NodeType] /\ node'[g] = n
      /\ \A h \in Slots \ {g} : node'[h] = node[h]
    BY Parts, NodeBecomes, Zenon
<1>2. \A h \in Slots : NodeOK(node[h]) /\ (h > built => ~Spawned(node[h]) /\ ~Holds(node[h]))
    BY Zenon DEF IInv, NodesInv
<1>3. g > built => ~Spawned(n) /\ ~Holds(n)
    <2>1. g <= built => ~(g > built)
        BY Parts, FacadeAssumption DEF Slots
    <2> QED
        BY <1>2, <2>1, Zenon DEF Tame, Holds
<1>4. NodesInv'
    BY ONLY <1>1, <1>2, <1>3, NodeOK(n), built' = built, Zenon DEF NodesInv
<1> QED
    BY <1>1, <1>4

\* A step of a node's own, which no call takes.
LEMMA NodeStep ==
    ASSUME IInv, NEW g \in Slots, NEW n \in NodeType, node' = [node EXCEPT ![g] = n],
           UNCHANGED <<INSTANCE_, guard, caller, built>>,
           NodeOK(n), Tame(node[g], n)
    PROVE  IInv'
<1>1. /\ node' \in [Slots -> NodeType] /\ NodesInv' /\ node'[g] = n
      /\ \A h \in Slots \ {g} : node'[h] = node[h]
    BY NodeChange, Zenon
<1>2. Types'
    BY <1>1, Parts DEF Types
<1>3. \A h \in Slots : Tame(node[h], node'[h])
    BY <1>1, SameIsTame, Zenon
<1>4. OnlyMoves(NoNode)
    BY Zenon DEF OnlyMoves
<1> QED
    BY <1>1, <1>2, <1>3, <1>4, NoCaller, TameStep, Zenon

\* The end of an actor, and a peer's connection.
LEMMA NodesKeep ==
    ASSUME IInv, NEW g \in Slots, ActorEnds(g) \/ FailStop(g) \/ PeerConnects(g) \/ PeerLeaves(g)
    PROVE  IInv'
<1>1. UNCHANGED <<INSTANCE_, guard, caller, built>>
    BY Zenon DEF ActorEnds, FailStop, PeerConnects, PeerLeaves
<1>2. PICK n \in NodeType : n = node[g] /\ NodeOK(n)
    BY Parts, Zenon
<1>3. CASE ActorEnds(g) \/ FailStop(g)
    <2>1. PICK m : m = [n EXCEPT !.actor = "stopped", !.wal = FALSE]
        OBVIOUS
    <2>2. node' = [node EXCEPT ![g] = m] /\ n.actor = "running"
        BY <1>2, <1>3, <2>1, Zenon DEF ActorEnds, FailStop
    <2>3. /\ m \in NodeType /\ m.actor = "stopped" /\ m.wal = FALSE /\ m.kind = n.kind
          /\ m.listener = n.listener /\ m.senders = n.senders /\ m.conn = n.conn
        BY ONLY <1>2, <2>1, Zenon DEF NodeType
    <2>4. Tame(n, m) /\ NodeOK(m)
        BY ONLY <1>2, <2>2, <2>3 DEF Tame, NodeOK, Spawned
    <2> QED
        BY <1>1, <1>2, <2>2, <2>3, <2>4, NodeStep, Zenon
<1>4. CASE PeerConnects(g) \/ PeerLeaves(g)
    <2>1. PICK b \in BOOLEAN : node' = [node EXCEPT ![g] = [n EXCEPT !.conn = b]] /\ (b => n.listener)
        BY <1>2, <1>4, Zenon DEF PeerConnects, PeerLeaves
    <2>2. PICK m : m = [n EXCEPT !.conn = b]
        BY Zenon
    <2>3. m \in NodeType
        BY ONLY <1>2, <2>1, <2>2, Zenon DEF NodeType
    <2>4. /\ m.actor = n.actor /\ m.wal = n.wal /\ m.kind = n.kind
          /\ m.listener = n.listener /\ m.senders = n.senders /\ m.conn = b
        BY ONLY <1>2, <2>2, Zenon DEF NodeType
    <2>5. Tame(n, m) /\ NodeOK(m)
        <3>1. m.conn => n.listener
            BY <2>1, <2>4, Zenon
        <3> QED
            BY ONLY <1>2, <2>4, <3>1 DEF Tame, NodeOK, Spawned
    <2> QED
        BY <1>1, <1>2, <2>1, <2>2, <2>3, <2>5, NodeStep, Zenon
<1> QED
    BY <1>3, <1>4

-----------------------------------------------------------------------------
(***************************************************************************)
(* Calls that touch no node.                                               *)
(***************************************************************************)
\* A call names its own nodes, the one in the slot, or one that runs or ran.
LEMMA NamesKnown ==
    ASSUME IInv, NEW c \in Callers, NEW r \in CallerType,
           r.g = caller[c].g \/ r.g = NoNode \/ Spawned(node[r.g]),
           r.held = caller[c].held \/ r.held = INSTANCE_,
           r.owns = caller[c].owns \/ r.owns = NoNode
    PROVE  Names(r)
<1>1. Names(caller[c])
    BY Parts, Zenon DEF CallerInv
<1>2. /\ r.held # NoNode => Spawned(node[r.held])
      /\ r.owns # NoNode => Spawned(node[r.owns]) /\ node[r.owns].kind = "assembled"
    BY <1>1, Zenon DEF IInv, Slot, Names
<1>3. r.g \in Slots /\ Spawned(node[r.g]) => ~(r.g > built)
    BY Zenon DEF IInv, NodesInv
<1>4. r.g \in Nat /\ built \in Nat /\ (r.g # NoNode => r.g \in Slots)
    BY CallerIs, SlotIs, Parts, FacadeAssumption
<1>5. caller[c].g <= built
    BY <1>1, Zenon DEF Names
<1>6. r.g <= built
    BY <1>3, <1>4, <1>5 DEF NoNode
<1> QED
    BY <1>2, <1>6, Zenon DEF Names

\* A call that begins or ends without touching a node: it keeps no node but one
\* that runs, and it begins a teardown only of a node that is not in the slot
\* any more.
LEMMA CallStep ==
    ASSUME IInv, NEW c \in Callers, NEW r \in CallerType, Becomes(c, r),
           UNCHANGED <<guard, node, built>>, caller[c].pc \in {"idle", "await"},
           r.g = caller[c].g \/ r.g = NoNode \/ Spawned(node[r.g]),
           r.held = caller[c].held \/ r.held = INSTANCE_,
           r.owns = caller[c].owns \/ r.owns = NoNode,
           r.pc \notin BuildPcs, Relies(r, node[r.g]),
           r.op = "shutdown" => r.g = NoNode \/ r.g # INSTANCE_',
           \/ INSTANCE_' = INSTANCE_
           \/ INSTANCE_' = NoNode /\ guard = NoNode /\ InHands(r, INSTANCE_)
    PROVE  IInv'
<1>1. /\ caller' \in [Callers -> CallerType] /\ caller'[c] = r
      /\ \A d \in Callers \ {c} : caller'[d] = caller[d]
    BY Parts, CallerBecomes, Zenon
<1>2. Types'
    <2>1. NoNode \in 0 .. MaxNodes
        BY FacadeAssumption DEF NoNode
    <2> QED
        BY <1>1, <2>1, Parts DEF Types
<1>3. OnlyMoves(c)
    BY <1>1, Zenon DEF OnlyMoves
<1>4. NodesInv' /\ \A h \in Slots : Tame(node[h], node'[h])
    BY SameIsTame, Zenon DEF IInv, NodesInv
<1>5. CallerInv(c)'
    <2>1. Names(r)
        BY NamesKnown, Zenon
    <2> QED
        BY <1>1, <2>1, Zenon DEF CallerInv, Names
<1>6. caller[c].pc \notin BuildPcs /\ caller[c].pc \notin ClosePcs
    BY DEF BuildPcs, ClosePcs
<1>7. \A h : ~InHands(caller[c], h)
    BY <1>6, Zenon DEF InHands
<1>8. \A h \in Slots : Holds(node'[h]) /\ (INSTANCE_ = h \/ (c \in Callers /\ InHands(caller[c], h))) =>
          INSTANCE_' = h \/ (c \in Callers /\ InHands(caller'[c], h))
    BY <1>1, <1>7, Zenon
<1> QED
    BY <1>1, <1>2, <1>3, <1>4, <1>5, <1>6, <1>8, TameStep, Zenon

\* borrow: the static operations and handle.
LEMMA BorrowKeeps ==
    ASSUME IInv, NEW c \in Callers, NEW op \in {"call", "handle"}, borrow(c, op)
    PROVE  IInv'
<1>1. PICK old \in CallerType : old = caller[c]
    BY Parts
<1>2. PICK pc : pc = IF op = "call" /\ INSTANCE_ # NoNode THEN "await" ELSE "idle"
    OBVIOUS
<1>3. PICK held : held = IF op = "handle" THEN INSTANCE_ ELSE old.held
    OBVIOUS
<1>4. PICK result : result = IF INSTANCE_ = NoNode THEN "NotInitialized" ELSE "ok"
    OBVIOUS
<1>5. PICK r : r = [old EXCEPT !.op = op, !.g = INSTANCE_, !.pc = pc, !.held = held, !.result = result]
    OBVIOUS
<1>6. /\ Becomes(c, r) /\ UNCHANGED <<INSTANCE_, guard, node, built>> /\ old.pc = "idle"
    BY <1>1, <1>2, <1>3, <1>4, <1>5, Zenon DEF borrow, At
<1>7. /\ pc \in Pcs /\ op \in Ops /\ result \in Results
      /\ held \in {old.held, INSTANCE_} /\ pc \in {"idle", "await"} /\ (pc = "await" => op = "call")
    BY <1>2, <1>3, <1>4 DEF Pcs, Ops, Results
<1>8. held \in 0 .. MaxNodes /\ INSTANCE_ \in 0 .. MaxNodes
    BY <1>7, Parts, CallerIs
<1>9. /\ r \in CallerType /\ r.op = op /\ r.g = INSTANCE_ /\ r.owns = old.owns
      /\ r.held = held /\ r.pc = pc
    BY ONLY <1>5, <1>7, <1>8, old \in CallerType, Zenon DEF CallerType
<1>10. r.pc \notin BuildPcs /\ Relies(r, node[r.g])
    BY ONLY <1>7, <1>9, op \in {"call", "handle"} DEF BuildPcs, ClosePcs, Relies, Leaves
<1>11. INSTANCE_ # NoNode => Spawned(node[INSTANCE_])
    BY Zenon DEF IInv, Slot
<1> QED
    BY <1>1, <1>6, <1>7, <1>9, <1>10, <1>11, CallStep, Zenon

\* A call through a clone of the handle.
LEMMA UseHandleKeeps ==
    ASSUME IInv, NEW c \in Callers, UseHandle(c)
    PROVE  IInv'
<1>1. PICK old \in CallerType : old = caller[c]
    BY Parts
<1>2. PICK r : r = [old EXCEPT !.op = "call", !.g = old.held, !.pc = "await"]
    OBVIOUS
<1>3. /\ Becomes(c, r) /\ UNCHANGED <<INSTANCE_, guard, node, built>>
      /\ old.pc = "idle" /\ old.held # NoNode
    BY <1>1, <1>2, Zenon DEF UseHandle, At
<1>4. "call" \in Ops /\ "await" \in Pcs
    BY DEF Ops, Pcs
<1>5. /\ r \in CallerType /\ r.op = "call" /\ r.pc = "await"
      /\ r.g = old.held /\ r.owns = old.owns /\ r.held = old.held
    BY ONLY <1>2, <1>4, old \in CallerType, CallerIs, Zenon DEF CallerType
<1>6. Spawned(node[r.g])
    BY <1>1, <1>3, <1>5, Parts, Zenon DEF CallerInv, Names
<1>7. r.pc \notin BuildPcs /\ Relies(r, node[r.g])
    BY ONLY <1>5 DEF BuildPcs, ClosePcs, Relies
<1> QED
    BY <1>1, <1>3, <1>5, <1>6, <1>7, CallStep, Zenon

\* The answer to a call, or the end of the actor it waits for.
LEMMA AnsweredKeeps ==
    ASSUME IInv, NEW c \in Callers, Answered(c)
    PROVE  IInv'
<1>1. PICK old \in CallerType : old = caller[c]
    BY Parts
<1>2. PICK x \in Results : Becomes(c, [old EXCEPT !.pc = "idle", !.result = x])
    <2>1. "ok" \in Results /\ "Unavailable" \in Results
        BY DEF Results
    <2> QED
        BY <1>1, <2>1, Zenon DEF Answered, Returns
<1>3. PICK r : r = [old EXCEPT !.pc = "idle", !.result = x]
    OBVIOUS
<1>4. Becomes(c, r) /\ UNCHANGED <<INSTANCE_, guard, node, built>> /\ old.pc = "await"
    BY <1>1, <1>2, <1>3, Zenon DEF Answered, At
<1>5. old.op = "call" /\ "idle" \in Pcs
    <2>1. Relies(old, node[old.g])
        BY <1>1, Parts, Zenon DEF CallerInv
    <2> QED
        BY <1>4, <2>1 DEF Relies, Pcs
<1>6. /\ r \in CallerType /\ r.op = old.op /\ r.pc = "idle"
      /\ r.g = old.g /\ r.owns = old.owns /\ r.held = old.held
    BY ONLY <1>3, <1>5, x \in Results, old \in CallerType, Zenon DEF CallerType
<1>7. r.pc \notin BuildPcs /\ Relies(r, node[r.g]) /\ r.op # "shutdown"
    BY ONLY <1>5, <1>6 DEF BuildPcs, ClosePcs, Relies, Leaves
<1> QED
    BY <1>1, <1>4, <1>6, <1>7, CallStep, Zenon

\* A call on the slot that is refused: there is a node, or there is none.
LEMMA RefusedKeeps ==
    ASSUME IInv, NEW c \in Callers, NEW op \in {"start", "shutdown"},
           NEW why \in {"AlreadyInitialized", "NotInitialized"}, At(c, "idle"),
           Becomes(c, [caller[c] EXCEPT !.op = op, !.g = NoNode, !.result = why]),
           UNCHANGED <<INSTANCE_, guard, node, built>>
    PROVE  IInv'
<1>1. PICK old \in CallerType : old = caller[c]
    BY Parts
<1>2. PICK r : r = [old EXCEPT !.op = op, !.g = NoNode, !.result = why]
    OBVIOUS
<1>3. Becomes(c, r) /\ old.pc = "idle"
    BY <1>1, <1>2, Zenon DEF At
<1>4. NoNode \in 0 .. MaxNodes /\ op \in Ops /\ why \in Results
    BY FacadeAssumption DEF NoNode, Ops, Results
<1>5. /\ r \in CallerType /\ r.op = op /\ r.pc = old.pc
      /\ r.g = NoNode /\ r.owns = old.owns /\ r.held = old.held
    BY ONLY <1>2, <1>4, old \in CallerType, Zenon DEF CallerType
<1>6. r.pc \notin BuildPcs /\ Relies(r, node[r.g])
    BY ONLY <1>3, <1>5 DEF BuildPcs, ClosePcs, Relies
<1> QED
    BY <1>1, <1>3, <1>5, <1>6, CallStep, Zenon

-----------------------------------------------------------------------------
(***************************************************************************)
(* Teardown.                                                               *)
(***************************************************************************)
\* A teardown begins, of a node that runs and is not in the slot any more.
LEMMA TeardownKeeps ==
    ASSUME IInv, NEW c \in Callers, NEW g \in Slots, At(c, "idle"), Teardown(c, g),
           Spawned(node[g]), g # INSTANCE_', UNCHANGED <<guard, node, built>>,
           \/ INSTANCE_' = INSTANCE_
           \/ INSTANCE_' = NoNode /\ guard = NoNode /\ g = INSTANCE_
    PROVE  IInv'
<1>1. PICK old \in CallerType : old = caller[c]
    BY Parts
<1>2. PICK pc : pc = IF node[g].kind = "peerless" THEN "stop" ELSE "close"
    OBVIOUS
<1>3. PICK r : r = [old EXCEPT !.op = "shutdown", !.g = g, !.result = "none", !.pc = pc]
    OBVIOUS
<1>4. Becomes(c, r) /\ old.pc = "idle"
    BY <1>1, <1>2, <1>3, Zenon DEF Teardown, At
<1>5. g \in 0 .. MaxNodes /\ g # NoNode
    BY FacadeAssumption DEF Slots, NoNode
<1>6. /\ pc \in {"close", "stop"} /\ pc \in Pcs /\ (pc = "stop" => node[g].kind = "peerless")
      /\ "shutdown" \in Ops /\ "none" \in Results
    BY <1>2 DEF Pcs, ClosePcs, Ops, Results
<1>7. /\ r \in CallerType /\ r.op = "shutdown" /\ r.pc = pc /\ r.result = "none"
      /\ r.g = g /\ r.owns = old.owns /\ r.held = old.held
    BY ONLY <1>3, <1>5, <1>6, old \in CallerType, Zenon DEF CallerType
<1>8. r.pc \notin BuildPcs /\ r.pc \in ClosePcs /\ r.pc \notin {"join", "await", "idle"}
    BY ONLY <1>6, <1>7 DEF BuildPcs, ClosePcs
<1>9. Relies(r, node[r.g])
    <2>1. NodeOK(node[g])
        BY Parts
    <2> QED
        BY ONLY <1>5, <1>6, <1>7, <1>8, <2>1, Spawned(node[g]) DEF Relies, NodeOK
<1>10. InHands(r, g)
    BY <1>7, <1>8, Zenon DEF InHands
<1> QED
    BY <1>1, <1>4, <1>7, <1>8, <1>9, <1>10, CallStep, Zenon

\* Arachne::shutdown.
LEMMA ShutdownKeeps ==
    ASSUME IInv, NEW c \in Callers, shutdown(c)
    PROVE  IInv'
<1>1. At(c, "idle") /\ guard = NoNode /\ UNCHANGED <<guard, node, built>>
    BY Zenon DEF shutdown
<1>2. CASE INSTANCE_ = NoNode
    <2>1. /\ Becomes(c, [caller[c] EXCEPT !.op = "shutdown", !.g = NoNode, !.result = "NotInitialized"])
          /\ UNCHANGED INSTANCE_
        BY <1>2, Zenon DEF shutdown
    <2> QED
        BY <1>1, <2>1, RefusedKeeps, Zenon
<1>3. CASE INSTANCE_ # NoNode
    <2>1. Teardown(c, INSTANCE_) /\ INSTANCE_' = NoNode
        BY <1>3, Zenon DEF shutdown, Taken
    <2>2. INSTANCE_ \in Slots
        BY <1>3, SlotIs, Parts, Zenon
    <2>3. Spawned(node[INSTANCE_])
        BY <1>3, Zenon DEF IInv, Slot
    <2> QED
        BY <1>1, <1>3, <2>1, <2>2, <2>3, TeardownKeeps, Zenon
<1> QED
    BY <1>2, <1>3, Zenon

\* The owner of an assembled node shuts it down or drops it.
LEMMA ShutdownAssembledKeeps ==
    ASSUME IInv, NEW c \in Callers, ShutdownAssembled(c)
    PROVE  IInv'
<1>1. PICK old \in CallerType : old = caller[c]
    BY Parts
<1>2. At(c, "idle") /\ old.owns # NoNode /\ UNCHANGED <<INSTANCE_, guard, node, built>>
    BY <1>1, Zenon DEF ShutdownAssembled
<1>3. Spawned(node[old.owns]) /\ node[old.owns].kind = "assembled"
    BY <1>1, <1>2, Parts, Zenon DEF CallerInv, Names
<1>4. CASE Teardown(c, old.owns)
    <2>1. old.owns \in Slots
        BY <1>2, CallerIs, SlotIs, Zenon
    <2>2. old.owns # INSTANCE_
        BY <1>2, <1>3, Zenon DEF IInv, Slot
    <2> QED
        BY <1>2, <1>3, <1>4, <2>1, <2>2, TeardownKeeps, Zenon
<1>5. CASE Becomes(c, [old EXCEPT !.owns = NoNode, !.op = "drop"])
    <2>1. PICK r : r = [old EXCEPT !.owns = NoNode, !.op = "drop"]
        BY Zenon
    <2>2. NoNode \in 0 .. MaxNodes /\ "drop" \in Ops
        BY FacadeAssumption DEF NoNode, Ops
    <2>3. /\ r \in CallerType /\ r.op = "drop" /\ r.pc = old.pc
          /\ r.g = old.g /\ r.owns = NoNode /\ r.held = old.held
        BY ONLY <2>1, <2>2, old \in CallerType, Zenon DEF CallerType
    <2>4. old.pc = "idle"
        BY <1>1, <1>2, Zenon DEF At
    <2>5. r.pc \notin BuildPcs /\ Relies(r, node[r.g]) /\ r.op # "shutdown"
        BY ONLY <2>3, <2>4 DEF BuildPcs, ClosePcs, Relies, Leaves
    <2> QED
        BY <1>1, <1>2, <1>5, <2>1, <2>3, <2>4, <2>5, CallStep, Zenon
<1> QED
    BY <1>1, <1>4, <1>5, Zenon DEF ShutdownAssembled

\* What a call that tears a node down has in hand.
LEMMA CloserIs ==
    ASSUME IInv, NEW c \in Callers, caller[c].pc \in ClosePcs
    PROVE  /\ caller[c] \in CallerType /\ caller[c].g \in Slots /\ caller[c].op = "shutdown"
           /\ node[caller[c].g] \in NodeType /\ NodeOK(node[caller[c].g])
           /\ Spawned(node[caller[c].g]) /\ Relies(caller[c], node[caller[c].g])
<1>1. PICK r \in CallerType : r = caller[c] /\ r.pc \in ClosePcs
    BY Parts, Zenon
<1>2. Relies(r, node[r.g])
    BY <1>1, Parts, Zenon DEF CallerInv
<1>3. r.g # NoNode /\ r.op = "shutdown" /\ Spawned(node[r.g])
    BY <1>1, <1>2, Zenon DEF Relies
<1>4. r.g \in Slots
    BY <1>3, CallerIs, SlotIs, Zenon
<1> QED
    BY <1>1, <1>2, <1>3, <1>4, Parts, Zenon

\* A call that tears a node down takes its next step: what it closed stays
\* closed, and when it returns the actor has ended.
LEMMA CloseStep ==
    ASSUME IInv, NEW c \in Callers, NEW n \in NodeType, NEW r \in CallerType, Becomes(c, r),
           caller[c].pc \in ClosePcs, node' = [node EXCEPT ![caller[c].g] = n],
           UNCHANGED <<INSTANCE_, guard, built>>,
           Tame(node[caller[c].g], n), NodeOK(n), ~n.listener, ~n.senders,
           r.g = caller[c].g, r.op = caller[c].op, r.held = caller[c].held,
           r.owns = caller[c].owns \/ r.owns = NoNode,
           r.pc \in {"stop", "join"} \/ (r.pc = "idle" /\ n.actor = "stopped")
    PROVE  IInv'
<1>1. /\ caller' \in [Callers -> CallerType] /\ caller'[c] = r
      /\ \A d \in Callers \ {c} : caller'[d] = caller[d]
    BY Parts, CallerBecomes, Zenon
<1>2. PICK g \in Slots : g = caller[c].g /\ Spawned(node[g]) /\ caller[c].op = "shutdown"
    BY CloserIs, Zenon
<1>3. /\ node' \in [Slots -> NodeType] /\ NodesInv' /\ node'[g] = n
      /\ \A h \in Slots \ {g} : node'[h] = node[h]
    BY <1>2, NodeChange, Zenon
<1>4. Types'
    BY <1>1, <1>3, Parts DEF Types
<1>5. \A h \in Slots : Tame(node[h], node'[h])
    BY <1>2, <1>3, SameIsTame, Zenon
<1>6. OnlyMoves(c)
    BY <1>1, Zenon DEF OnlyMoves
<1>7. r.pc \notin BuildPcs /\ caller[c].pc \notin BuildPcs /\ (r.pc # "idle" => r.pc \in ClosePcs)
    BY DEF BuildPcs, ClosePcs
<1>8. CallerInv(c)'
    <2>1. Names(r)
        BY NamesKnown, Zenon
    <2>2. Lasting /\ built \in Nat /\ built' \in Nat /\ built <= built'
        <3>1. Lasting
            BY <1>5, Zenon DEF Lasting, Tame
        <3> QED
            BY <3>1, Parts
    <2>3. /\ r.g <= built'
          /\ r.held # NoNode => Spawned(node'[r.held])
          /\ r.owns # NoNode => Spawned(node'[r.owns]) /\ node'[r.owns].kind = "assembled"
        BY <2>1, <2>2, NamesStays, Zenon
    <2>4. Names(r)'
        BY <2>3, Zenon DEF Names
    <2>5. Relies(r, n)
        <3>1. r.op = "shutdown" /\ Spawned(n)
            BY <1>2, Zenon DEF Tame
        <3>2. r.pc # "await" /\ r.g # NoNode
            BY <1>2, FacadeAssumption DEF Slots, NoNode
        <3> QED
            BY ONLY <1>7, <3>1, <3>2, NodeOK(n), ~n.listener, ~n.senders,
                    r.pc \in {"stop", "join"} \/ (r.pc = "idle" /\ n.actor = "stopped")
               DEF Relies, Leaves, NodeOK
    <2> QED
        BY <1>1, <1>2, <1>3, <1>7, <2>4, <2>5, Zenon DEF CallerInv, Names
<1>9. \A h \in Slots : Holds(node'[h]) /\ (INSTANCE_ = h \/ (c \in Callers /\ InHands(caller[c], h))) =>
          INSTANCE_' = h \/ (c \in Callers /\ InHands(caller'[c], h))
    <2>1. r.pc = "idle" => ~Holds(n)
        BY DEF Holds, NodeOK
    <2>2. r.pc # "idle" => InHands(r, g)
        BY <1>2, <1>7, Zenon DEF InHands
    <2> QED
        BY <1>1, <1>2, <1>3, <2>1, <2>2, Zenon DEF InHands
<1> QED
    BY <1>1, <1>2, <1>3, <1>4, <1>5, <1>6, <1>7, <1>8, <1>9, TameStep, Zenon

\* The servers end, and then the actor is told to.
LEMMA ServersKeep ==
    ASSUME IInv, NEW c \in Callers, factory_shutdown(c) \/ RuntimeThread_shutdown(c)
    PROVE  IInv'
<1>1. caller[c].pc \in ClosePcs
    BY DEF factory_shutdown, RuntimeThread_shutdown, At, ClosePcs
<1>2. PICK old \in CallerType : old = caller[c]
    BY Parts
<1>3. PICK n \in NodeType : n = node[old.g] /\ NodeOK(n) /\ Relies(old, n)
    BY <1>1, <1>2, CloserIs, Zenon
<1>4. {"stop", "join"} \subseteq Pcs
    BY DEF Pcs, ClosePcs
<1>5. CASE factory_shutdown(c)
    <2>1. PICK kept \in {FALSE, ConnsOutlive /\ n.conn} :
              Step(c, [n EXCEPT !.listener = FALSE, !.senders = FALSE, !.conn = kept], "stop")
        BY <1>2, <1>3, <1>5, Zenon DEF factory_shutdown, Mine
    <2>2. kept \in BOOLEAN /\ (kept => n.conn)
        BY <2>1, Zenon
    <2>3. PICK m : m = [n EXCEPT !.listener = FALSE, !.senders = FALSE, !.conn = kept]
        BY Zenon
    <2>4. PICK r : r = [old EXCEPT !.pc = "stop"]
        BY Zenon
    <2>5. /\ Becomes(c, r) /\ node' = [node EXCEPT ![old.g] = m]
          /\ UNCHANGED <<INSTANCE_, guard, built>>
        BY <1>2, <2>1, <2>3, <2>4, Zenon DEF Step
    <2>6. m \in NodeType
        <3>1. /\ [n EXCEPT !.listener = FALSE, !.senders = FALSE, !.conn = FALSE] \in NodeType
              /\ [n EXCEPT !.listener = FALSE, !.senders = FALSE, !.conn = TRUE] \in NodeType
            BY ONLY n \in NodeType, Zenon DEF NodeType
        <3>2. kept = FALSE \/ kept = TRUE
            BY <2>2, Zenon
        <3> QED
            BY ONLY <2>3, <3>1, <3>2, Zenon
    <2>7. /\ m.kind = n.kind /\ m.wal = n.wal /\ m.actor = n.actor
          /\ m.conn = kept /\ m.listener = FALSE /\ m.senders = FALSE
        BY ONLY <1>3, <2>3, Zenon DEF NodeType
    <2>8. Tame(n, m) /\ NodeOK(m) /\ ~m.listener /\ ~m.senders
        <3>1. m.conn => n.conn
            BY <2>2, <2>7, Zenon
        <3> QED
            BY ONLY <1>3, <2>7, <3>1 DEF Tame, NodeOK, Spawned
    <2>9. /\ r \in CallerType /\ r.g = old.g /\ r.op = old.op /\ r.held = old.held
          /\ r.owns = old.owns /\ r.pc = "stop"
        BY ONLY <1>2, <1>4, <2>4, Zenon DEF CallerType
    <2> QED
        BY <1>1, <1>2, <1>3, <2>5, <2>6, <2>8, <2>9, CloseStep, Zenon
<1>6. CASE RuntimeThread_shutdown(c)
    <2>1. PICK m : m = [n EXCEPT !.stop = TRUE]
        BY Zenon
    <2>2. PICK r : r = [old EXCEPT !.pc = "join"]
        BY Zenon
    <2>3. /\ Becomes(c, r) /\ node' = [node EXCEPT ![old.g] = m] /\ old.pc = "stop"
          /\ UNCHANGED <<INSTANCE_, guard, built>>
        BY <1>2, <1>3, <1>6, <2>1, <2>2, Zenon DEF RuntimeThread_shutdown, Step, At, Mine
    <2>4. ~n.listener /\ ~n.senders
        BY ONLY <1>3, <2>3, Zenon DEF Relies
    <2>5. m \in NodeType
        BY ONLY <1>3, <2>1, Zenon DEF NodeType
    <2>6. /\ m.kind = n.kind /\ m.wal = n.wal /\ m.actor = n.actor
          /\ m.conn = n.conn /\ m.listener = n.listener /\ m.senders = n.senders
        BY ONLY <1>3, <2>1, Zenon DEF NodeType
    <2>7. Tame(n, m) /\ NodeOK(m) /\ ~m.listener /\ ~m.senders
        BY ONLY <1>3, <2>4, <2>6 DEF Tame, NodeOK, Spawned
    <2>8. /\ r \in CallerType /\ r.g = old.g /\ r.op = old.op /\ r.held = old.held
          /\ r.owns = old.owns /\ r.pc = "join"
        BY ONLY <1>2, <1>4, <2>2, Zenon DEF CallerType
    <2> QED
        BY <1>1, <1>2, <1>3, <2>3, <2>5, <2>7, <2>8, CloseStep, Zenon
<1> QED
    BY <1>5, <1>6, Zenon

\* The actor has ended, and the call that waited for it returns.
LEMMA JoinKeeps ==
    ASSUME IInv, NEW c \in Callers, join(c)
    PROVE  IInv'
<1>1. caller[c].pc \in ClosePcs
    BY DEF join, At, ClosePcs
<1>2. PICK old \in CallerType : old = caller[c]
    BY Parts
<1>3. PICK n \in NodeType : n = node[old.g] /\ NodeOK(n) /\ Relies(old, n)
    BY <1>1, <1>2, CloserIs, Zenon
<1>4. PICK kept \in BOOLEAN : kept = (n.conn /\ n.kind = "assembled")
    BY Zenon
<1>5. PICK owns : owns = IF old.owns = old.g THEN NoNode ELSE old.owns
    BY Zenon
<1>6. PICK m : m = [n EXCEPT !.conn = kept]
    BY Zenon
<1>7. PICK r : r = [old EXCEPT !.pc = "idle", !.result = "ok", !.owns = owns]
    BY Zenon
<1>8. /\ Becomes(c, r) /\ node' = [node EXCEPT ![old.g] = m]
      /\ UNCHANGED <<INSTANCE_, guard, built>> /\ old.pc = "join" /\ n.actor = "stopped"
    BY <1>2, <1>3, <1>4, <1>5, <1>6, <1>7, Zenon DEF join, Mine, At
<1>9. ~n.listener /\ ~n.senders
    BY ONLY <1>3, <1>8, Zenon DEF Relies
<1>10. m \in NodeType
    BY ONLY n \in NodeType, kept \in BOOLEAN, <1>6, Zenon DEF NodeType
<1>11. /\ m.kind = n.kind /\ m.wal = n.wal /\ m.actor = n.actor
       /\ m.conn = kept /\ m.listener = n.listener /\ m.senders = n.senders
    BY ONLY <1>3, <1>6, Zenon DEF NodeType
<1>12. Tame(n, m) /\ NodeOK(m) /\ ~m.listener /\ ~m.senders /\ m.actor = "stopped"
    <2>1. m.conn => n.conn
        BY <1>4, <1>11, Zenon
    <2> QED
        BY ONLY <1>3, <1>8, <1>9, <1>11, <2>1 DEF Tame, NodeOK, Spawned
<1>13. owns \in 0 .. MaxNodes /\ (owns = old.owns \/ owns = NoNode)
    BY <1>5, CallerIs, FacadeAssumption DEF NoNode
<1>14. "idle" \in Pcs /\ "ok" \in Results
    BY DEF Pcs, Results
<1>15. /\ r \in CallerType /\ r.g = old.g /\ r.op = old.op /\ r.held = old.held
       /\ r.owns = owns /\ r.pc = "idle"
    BY ONLY <1>7, <1>13, <1>14, old \in CallerType, Zenon DEF CallerType
<1> QED
    BY <1>1, <1>2, <1>3, <1>8, <1>10, <1>12, <1>13, <1>15, CloseStep, Zenon

-----------------------------------------------------------------------------
(***************************************************************************)
(* Assembly.                                                               *)
(***************************************************************************)
\* What a call that builds a node has in hand.
LEMMA BuilderIs ==
    ASSUME IInv, NEW c \in Callers, caller[c].pc \in BuildPcs
    PROVE  /\ caller[c] \in CallerType /\ caller[c].g \in Slots /\ node[caller[c].g] \in NodeType
           /\ NodeOK(node[caller[c].g]) /\ Assembly(caller[c], node[caller[c].g])
           /\ ~Spawned(node[caller[c].g]) /\ caller[c].g <= built
           /\ caller[c].op = "start" <=> guard = c
           /\ guard = c => INSTANCE_ = NoNode
<1>1. PICK r \in CallerType : r = caller[c] /\ r.pc \in BuildPcs
    BY Parts, Zenon
<1>2. Relies(r, node[r.g]) /\ (r.op = "start" => guard = c) /\ r.g <= built
    BY <1>1, Parts, Zenon DEF CallerInv, Names
<1>3. Assembly(r, node[r.g])
    BY <1>1, <1>2, Zenon DEF Relies
<1>4. r.g # NoNode /\ ~Spawned(node[r.g])
    BY <1>3, Zenon DEF Assembly, Spawned
<1>5. r.g \in Slots
    BY <1>4, CallerIs, SlotIs, Zenon
<1>6. guard = c => INSTANCE_ = NoNode /\ r.op = "start"
    BY <1>1, NoCaller, Zenon DEF IInv, Slot
<1> QED
    BY <1>1, <1>2, <1>3, <1>4, <1>5, <1>6, Parts, Zenon

\* The other calls, when a call changes the node it builds: none of them has
\* that node.
LEMMA BuilderIsApart ==
    ASSUME IInv, NEW c \in Callers, caller[c].pc \in BuildPcs, NEW n \in NodeType,
           node' = [node EXCEPT ![caller[c].g] = n], NodeOK(n), built' = built
    PROVE  /\ node' \in [Slots -> NodeType] /\ NodesInv' /\ node'[caller[c].g] = n
           /\ \A h \in Slots \ {caller[c].g} : node'[h] = node[h]
           /\ Lasting /\ OthersTame(c) /\ built <= built'
<1>1. PICK g \in Slots : g = caller[c].g /\ ~Spawned(node[g]) /\ g <= built
    BY BuilderIs, Zenon
<1>2. /\ node' \in [Slots -> NodeType] /\ NodesInv' /\ node'[g] = n
      /\ \A h \in Slots \ {g} : node'[h] = node[h]
    BY <1>1, NodeChange, Zenon
<1>3. Lasting
    BY <1>1, <1>2, Zenon DEF Lasting
<1>4. OthersTame(c)
    <2> SUFFICES ASSUME NEW d \in Callers \ {c}, caller[d].g # NoNode
                 PROVE  Tame(node[caller[d].g], node'[caller[d].g])
        BY Zenon DEF OthersTame
    <2>1. caller[d].g # g
        BY <1>1, Zenon DEF IInv, Apart
    <2>2. PICK h \in Slots : h = caller[d].g
        BY Parts, CallerIs, SlotIs, Zenon
    <2> QED
        BY <1>2, <2>1, <2>2, SameIsTame, Zenon
<1>5. built <= built'
    BY Parts
<1> QED
    BY <1>1, <1>2, <1>3, <1>4, <1>5, Zenon

\* The nodes that a call names beside the one it builds.
LEMMA NamesBuilt ==
    ASSUME IInv, NEW c \in Callers, NEW r \in CallerType, Lasting, built' = built,
           r.g = caller[c].g, r.held = caller[c].held, r.owns = caller[c].owns
    PROVE  Names(r)'
<1>1. Names(r)
    BY NamesKnown, Zenon
<1>2. built \in Nat /\ built' \in Nat /\ built <= built'
    BY Parts
<1>3. /\ r.g <= built'
      /\ r.held # NoNode => Spawned(node'[r.held])
      /\ r.owns # NoNode => Spawned(node'[r.owns]) /\ node'[r.owns].kind = "assembled"
    BY <1>1, <1>2, NamesStays, Zenon
<1> QED
    BY <1>3, Zenon DEF Names

\* The assembly takes its next step: the lock if nobody has it, the listener.
LEMMA BuildStep ==
    ASSUME IInv, NEW c \in Callers, caller[c].pc \in BuildPcs, NEW n \in NodeType,
           NEW pc \in BuildPcs \ {"open"}, Step(c, n, pc),
           n.kind = node[caller[c].g].kind, n.actor = "none", n.wal,
           node[caller[c].g].wal \/ \A h \in Slots : ~node[h].wal,
           pc \in {"offload", "bind"} =>
               n.kind # "peerless" /\ ~n.listener /\ ~n.senders /\ ~n.conn,
           n.kind = "peerless" => ~n.listener /\ ~n.senders
    PROVE  IInv'
<1>1. PICK old \in CallerType : old = caller[c]
    BY Parts
<1>2. PICK g \in Slots : g = old.g /\ Assembly(old, node[g]) /\ (old.op = "start" => guard = c)
    BY <1>1, BuilderIs, Zenon
<1>3. PICK r : r = [old EXCEPT !.pc = pc]
    BY Zenon
<1>4. /\ Becomes(c, r) /\ node' = [node EXCEPT ![g] = n] /\ UNCHANGED <<INSTANCE_, guard, built>>
    BY <1>1, <1>2, <1>3, Zenon DEF Step
<1>5. pc \in Pcs
    BY DEF Pcs
<1>6. /\ r \in CallerType /\ r.g = g /\ r.op = old.op /\ r.held = old.held
      /\ r.owns = old.owns /\ r.pc = pc
    BY ONLY <1>2, <1>3, <1>5, old \in CallerType, Zenon DEF CallerType
<1>7. /\ caller' \in [Callers -> CallerType] /\ caller'[c] = r
      /\ \A d \in Callers \ {c} : caller'[d] = caller[d]
    BY <1>4, <1>6, Parts, CallerBecomes, Zenon
<1>8. NodeOK(n)
    BY DEF NodeOK
<1>9. /\ node' \in [Slots -> NodeType] /\ NodesInv' /\ node'[g] = n
      /\ \A h \in Slots \ {g} : node'[h] = node[h]
      /\ Lasting /\ OthersTame(c) /\ built <= built'
    BY <1>1, <1>2, <1>4, <1>8, BuilderIsApart, Zenon
<1>10. Types' /\ OnlyMoves(c)
    <2>1. Types'
        BY <1>4, <1>7, <1>9, Parts DEF Types
    <2> QED
        BY <1>4, <1>7, <2>1, Zenon DEF OnlyMoves
<1>11. CallerInv(c)'
    <2>1. Names(r)'
        <3>1. r.g = caller[c].g /\ r.held = caller[c].held /\ r.owns = caller[c].owns
            BY ONLY <1>1, <1>2, <1>6, Zenon
        <3> QED
            BY ONLY <1>4, <1>6, <1>9, <3>1, IInv, c \in Callers, NamesBuilt, Zenon
    <2>2. Assembly(r, n)
        <3>1. /\ r.g # NoNode /\ r.op \in {"start", "assemble"}
              /\ r.op = "assemble" <=> n.kind = "assembled"
            BY <1>1, <1>2, <1>6 DEF Assembly
        <3>2. r.pc # "open" /\ (r.pc \in {"offload", "bind"} =>
                  n.kind # "peerless" /\ ~n.listener /\ ~n.senders /\ ~n.conn)
            BY <1>6
        <3> QED
            BY ONLY <3>1, <3>2, n.actor = "none", n.wal DEF Assembly
    <2>3. Relies(r, n)
        <3>1. r.op # "shutdown"
            BY <2>2 DEF Assembly
        <3>2. r.pc \notin ClosePcs /\ r.pc \notin {"stop", "join", "await", "idle"}
            BY <1>6 DEF BuildPcs, ClosePcs
        <3> QED
            BY ONLY <2>2, <3>1, <3>2, Zenon DEF Relies
    <2>4. Names(caller[c])'
        BY <1>7, <2>1, Zenon DEF Names
    <2>5. Relies(caller'[c], node'[caller'[c].g])
        BY ONLY <1>6, <1>7, <1>9, <2>3, Zenon
    <2>6. caller'[c].op = "start" => guard' = c
        BY ONLY <1>2, <1>4, <1>6, <1>7, Zenon
    <2> QED
        BY ONLY <2>4, <2>5, <2>6, Zenon DEF CallerInv
<1>12. Apart'
    BY <1>1, <1>2, <1>6, <1>7, <1>10, ApartKeeps, Zenon
<1>13. Slot'
    BY <1>1, <1>4, <1>6, <1>7, <1>9, <1>10, SlotKeeps, Zenon
<1>14. Reach'
    <2>1. InHands(r, g) /\ \A h \in Slots \ {g} : ~InHands(caller[c], h)
        BY <1>1, <1>2, <1>6, Zenon DEF InHands
    <2>2. \A h \in Slots \ {g} : Holds(node'[h]) => Holds(node[h]) /\ node'[h].kind = node[h].kind
        BY <1>9, Zenon
    <2> QED
        BY <1>4, <1>7, <1>10, <2>1, <2>2, ReachKeeps, Zenon
<1>15. OneLock'
    <2>1. CASE node[g].wal
        BY <1>9, <2>1, OneLockKeeps, Zenon
    <2>2. CASE \A h \in Slots : ~node[h].wal
        BY <1>9, <2>2, Zenon DEF OneLock
    <2> QED
        BY <1>1, <1>2, <2>1, <2>2, Zenon
<1>16. SlotIsLive'
    <2>1. r.op # "shutdown"
        BY <1>2, <1>6 DEF Assembly
    <2> QED
        BY <1>4, <1>7, <1>10, <2>1, SlotIsLiveKeeps, Zenon
<1> QED
    BY <1>9, <1>10, <1>11, <1>12, <1>13, <1>14, <1>15, <1>16, StepKeeps, Zenon

\* The assembly ends, with a node that runs or without: what the call has left
\* in its hands then is in the slot, its own, or nothing.
LEMMA BuildEnds ==
    ASSUME IInv, NEW c \in Callers, caller[c].pc \in BuildPcs, NEW n \in NodeType, NEW r \in CallerType,
           node' = [node EXCEPT ![caller[c].g] = n], Becomes(c, r), built' = built,
           r.pc = "idle", r.op = caller[c].op, r.g = caller[c].g, r.held = caller[c].held,
           n.kind = node[caller[c].g].kind, n.wal => node[caller[c].g].wal, NodeOK(n), Leaves(r, n),
           r.owns = caller[c].owns \/ (r.owns = caller[c].g /\ Spawned(n) /\ n.kind = "assembled"),
           guard' = (IF guard = c THEN NoNode ELSE guard),
           INSTANCE_' = INSTANCE_ \/ (INSTANCE_' = caller[c].g /\ Spawned(n) /\ guard = c),
           Holds(n) => n.kind = "assembled" \/ INSTANCE_' = caller[c].g
    PROVE  IInv'
<1>1. PICK old \in CallerType : old = caller[c]
    BY Parts
<1>2. PICK g \in Slots : /\ g = caller[c].g /\ Assembly(old, node[g])
                         /\ guard = c => INSTANCE_ = NoNode /\ old.op = "start"
    BY <1>1, BuilderIs, Zenon
<1>3. /\ r.op # "shutdown" /\ g # NoNode /\ r.g = g
      /\ guard = c => n.kind # "assembled"
    <2>1. old.op # "shutdown" /\ g # NoNode /\ (old.op = "start" => node[g].kind # "assembled")
        BY ONLY <1>1, <1>2 DEF Assembly
    <2> QED
        BY <1>1, <1>2, <2>1, Zenon
<1>4. /\ caller' \in [Callers -> CallerType] /\ caller'[c] = r
      /\ \A d \in Callers \ {c} : caller'[d] = caller[d]
    BY Parts, CallerBecomes, Zenon
<1>5. /\ node' \in [Slots -> NodeType] /\ NodesInv' /\ node'[g] = n
      /\ \A h \in Slots \ {g} : node'[h] = node[h]
      /\ Lasting /\ OthersTame(c) /\ built <= built'
    BY <1>2, BuilderIsApart, Zenon
<1>6. OnlyMoves(c)
    BY <1>4, Zenon DEF OnlyMoves
<1>7. Types'
    <2>1. INSTANCE_' \in 0 .. MaxNodes
        <3>1. INSTANCE_ \in 0 .. MaxNodes /\ caller[c].g \in 0 .. MaxNodes
            BY Parts, CallerIs, Zenon
        <3> QED
            BY <3>1, Zenon
    <2>2. guard' \in Callers \cup {NoNode} /\ built' \in 0 .. MaxNodes
        BY Parts, Zenon
    <2> QED
        BY ONLY <1>4, <1>5, <2>1, <2>2 DEF Types
<1>8. r.pc \notin BuildPcs /\ r.pc \notin ClosePcs
    BY DEF BuildPcs, ClosePcs
<1>9. CallerInv(c)'
    <2>1. Names(old)'
        BY <1>1, <1>5, NamesBuilt, Zenon
    <2>2. /\ r.g <= built' /\ (r.held # NoNode => Spawned(node'[r.held]))
          /\ r.owns # NoNode => Spawned(node'[r.owns]) /\ node'[r.owns].kind = "assembled"
        BY <1>1, <1>2, <1>5, <2>1, Zenon DEF Names
    <2>3. Names(caller[c])'
        BY <1>4, <2>2, Zenon DEF Names
    <2>4. Relies(r, n)
        BY ONLY <1>3, <1>8, r.pc = "idle", Leaves(r, n) DEF Relies
    <2>5. Relies(caller'[c], node'[caller'[c].g])
        BY ONLY <1>3, <1>4, <1>5, <2>4, Zenon
    <2> QED
        BY ONLY <1>4, <1>8, <2>3, <2>5, Zenon DEF CallerInv
<1>10. Apart'
    BY <1>4, <1>6, <1>8, ApartKeeps, Zenon
<1>11. Slot'
    <2>1. CASE guard = c
        <3>1. guard' = NoNode /\ (INSTANCE_' # NoNode => INSTANCE_' = g /\ Spawned(n))
            BY <1>2, <2>1, Zenon
        <3>2. INSTANCE_' # NoNode => Spawned(node'[INSTANCE_']) /\ node'[INSTANCE_'].kind # "assembled"
            BY ONLY <1>3, <1>5, <2>1, <3>1, Zenon
        <3> QED
            BY ONLY <3>1, <3>2, Zenon DEF Slot
    <2>2. CASE guard # c
        BY <1>4, <1>5, <1>6, <2>2, SlotKeeps, Zenon
    <2> QED
        BY <2>1, <2>2, Zenon
<1>12. Reach'
    <2>1. \A h \in Slots \ {g} : Holds(node'[h]) => Holds(node[h]) /\ node'[h].kind = node[h].kind
        BY <1>5, Zenon
    <2>2. \A h \in Slots \ {g} : ~InHands(caller[c], h)
        BY <1>2, Zenon DEF InHands
    <2>3. \A h \in Slots : INSTANCE_ = h => INSTANCE_' = h
        <3>1. NoNode \notin Slots
            BY FacadeAssumption DEF Slots, NoNode
        <3> QED
            BY <1>2, <3>1, Zenon
    <2>4. Holds(node'[g]) => node'[g].kind = "assembled" \/ INSTANCE_' = g
        BY <1>2, <1>5, Zenon
    <2>5. \A h \in Slots : Holds(node'[h]) =>
               \/ node'[h].kind = "assembled" \/ INSTANCE_' = h
               \/ c \in Callers /\ InHands(caller'[c], h)
               \/ /\ Holds(node[h]) /\ node'[h].kind = node[h].kind
                  /\ INSTANCE_ # h
                  /\ c \in Callers => ~InHands(caller[c], h)
        BY ONLY <2>1, <2>2, <2>3, <2>4
    <2> QED
        BY ONLY IInv, <1>6, <2>5, ReachKeeps, Zenon
<1>13. OneLock'
    BY <1>2, <1>5, OneLockKeeps, Zenon
<1>14. SlotIsLive'
    <2>1. CASE INSTANCE_' = INSTANCE_
        BY <1>3, <1>4, <1>6, <2>1, SlotIsLiveKeeps, Zenon
    <2>2. CASE INSTANCE_' = g
        <3>1. \A d \in Callers \ {c} : caller[d].g # g
            BY <1>2, Zenon DEF IInv, Apart
        <3>2. \A d \in Callers : caller'[d].op = "shutdown" => caller'[d].g # g
            BY ONLY <1>3, <1>4, <3>1, Zenon
        <3> QED
            BY <2>2, <3>2, Zenon DEF SlotIsLive
    <2> QED
        BY <1>2, <2>1, <2>2, Zenon
<1> QED
    BY <1>5, <1>6, <1>7, <1>9, <1>10, <1>11, <1>12, <1>13, <1>14, StepKeeps, Zenon

\* An assembly that fails, at whichever step.
LEMMA FailsKeep ==
    ASSUME IInv, NEW c \in Callers, caller[c].pc \in BuildPcs, NEW why \in Faults, Fails(c, why)
    PROVE  IInv'
<1>1. PICK old \in CallerType : old = caller[c]
    BY Parts
<1>2. PICK was \in NodeType : was = node[old.g] /\ Assembly(old, was) /\ NodeOK(was) /\ old.g \in Slots
    BY <1>1, BuilderIs, Zenon
<1>3. PICK r : r = [old EXCEPT !.pc = "idle", !.result = why]
    BY Zenon
<1>4. PICK a : a = [was EXCEPT !.wal = FALSE, !.senders = FALSE]
    BY Zenon
<1>5. PICK b : b = [was EXCEPT !.wal = FALSE, !.senders = FALSE, !.listener = FALSE, !.conn = FALSE]
    BY Zenon
<1>6. /\ a \in NodeType /\ a.kind = was.kind /\ a.actor = was.actor
      /\ a.wal = FALSE /\ a.senders = FALSE
    BY ONLY <1>4, was \in NodeType, Zenon DEF NodeType
<1>7. /\ b \in NodeType /\ b.kind = was.kind /\ b.actor = was.actor
      /\ b.wal = FALSE /\ b.senders = FALSE /\ b.listener = FALSE /\ b.conn = FALSE
    BY ONLY <1>5, was \in NodeType, Zenon DEF NodeType
<1>8. PICK n \in NodeType :
          /\ n = Left(was) /\ n.kind = was.kind /\ n.actor = was.actor /\ ~n.wal /\ ~n.senders
          /\ n.kind = "assembled" \/ (~n.listener /\ ~n.conn)
    BY ONLY <1>4, <1>5, <1>6, <1>7, Zenon DEF Left
<1>9. /\ Becomes(c, r) /\ node' = [node EXCEPT ![old.g] = n]
      /\ guard' = (IF guard = c THEN NoNode ELSE guard) /\ UNCHANGED <<INSTANCE_, built>>
    BY <1>1, <1>2, <1>3, <1>8, Zenon DEF Fails, Returns
<1>10. "idle" \in Pcs /\ why \in Results
    BY DEF Pcs, Results
<1>11. /\ r \in CallerType /\ r.g = old.g /\ r.op = old.op /\ r.held = old.held
       /\ r.owns = old.owns /\ r.pc = "idle"
    BY ONLY <1>3, <1>10, old \in CallerType, Zenon DEF CallerType
<1>12. n.actor = "none" /\ r.op # "shutdown" /\ (r.op = "start" => n.kind # "assembled")
    BY ONLY <1>2, <1>8, <1>11 DEF Assembly
<1>13. NodeOK(n) /\ Leaves(r, n) /\ (Holds(n) => n.kind = "assembled")
    <2>1. NodeOK(n)
        BY ONLY <1>8, <1>12 DEF NodeOK
    <2> QED
        BY ONLY <1>8, <1>12, <2>1 DEF Leaves, Holds
<1> QED
    BY <1>1, <1>2, <1>8, <1>9, <1>11, <1>13, BuildEnds, Zenon

\* The actor's thread starts, or cannot.
LEMMA SpawnKeeps ==
    ASSUME IInv, NEW c \in Callers, spawn_dedicated(c)
    PROVE  IInv'
<1>1. caller[c].pc \in BuildPcs /\ caller[c].pc = "spawn" /\ "spawn" \in Faults
    BY DEF spawn_dedicated, At, BuildPcs, Faults
<1>2. PICK old \in CallerType : old = caller[c]
    BY Parts
<1>3. PICK was \in NodeType : /\ was = node[old.g] /\ Assembly(old, was) /\ NodeOK(was)
                              /\ old.op = "start" <=> guard = c
    BY <1>1, <1>2, BuilderIs, Zenon
<1>4. CASE Fails(c, "spawn")
    BY <1>1, <1>4, FailsKeep, Zenon
<1>5. CASE ~Fails(c, "spawn")
    <2>1. PICK n : n = [was EXCEPT !.actor = "running"]
        BY Zenon
    <2>2. node' = [node EXCEPT ![old.g] = n] /\ built' = built
        BY <1>2, <1>3, <1>5, <2>1, Zenon DEF spawn_dedicated
    <2>3. /\ n \in NodeType /\ n.kind = was.kind /\ n.actor = "running" /\ n.wal = was.wal
          /\ n.listener = was.listener /\ n.senders = was.senders
        BY ONLY <2>1, was \in NodeType, Zenon DEF NodeType
    <2>4. /\ n.wal /\ old.op \in {"start", "assemble"}
          /\ old.op = "assemble" <=> n.kind = "assembled"
        BY ONLY <1>1, <1>2, <1>3, <2>3 DEF Assembly
    <2>5. NodeOK(n) /\ Spawned(n)
        BY ONLY <1>3, <2>3, <2>4 DEF NodeOK, Spawned
    <2>6. "idle" \in Pcs /\ "ok" \in Results /\ "ok" \notin Faults
        BY DEF Pcs, Results, Faults
    <2>7. CASE old.op = "start"
        <3>1. PICK r : r = [old EXCEPT !.pc = "idle", !.result = "ok"]
            BY Zenon
        <3>2. Becomes(c, r) /\ INSTANCE_' = old.g /\ guard' = NoNode
            BY <1>2, <1>5, <2>7, <3>1, Zenon DEF spawn_dedicated, Returns
        <3>3. /\ r \in CallerType /\ r.g = old.g /\ r.op = old.op /\ r.held = old.held
              /\ r.owns = old.owns /\ r.pc = "idle" /\ r.result = "ok"
            BY ONLY <2>6, <3>1, old \in CallerType, Zenon DEF CallerType
        <3>4. Leaves(r, n)
            BY ONLY <2>6, <2>7, <3>3 DEF Leaves
        <3>5. guard' = IF guard = c THEN NoNode ELSE guard
            BY <1>3, <2>7, <3>2, Zenon
        <3> QED
            BY <1>1, <1>2, <1>3, <2>2, <2>3, <2>5, <2>7, <3>2, <3>3, <3>4, <3>5, BuildEnds, Zenon
    <2>8. CASE old.op = "assemble"
        <3>1. PICK r : r = [old EXCEPT !.pc = "idle", !.result = "ok", !.owns = old.g]
            BY Zenon
        <3>2. Becomes(c, r) /\ UNCHANGED <<INSTANCE_, guard>> /\ old.op # "start"
            BY <1>2, <1>5, <2>8, <3>1 DEF spawn_dedicated
        <3>3. /\ r \in CallerType /\ r.g = old.g /\ r.op = old.op /\ r.held = old.held
              /\ r.owns = old.g /\ r.pc = "idle" /\ r.result = "ok"
            BY ONLY <2>6, <3>1, old \in CallerType, Zenon DEF CallerType
        <3>4. Leaves(r, n)
            BY ONLY <2>8, <3>3 DEF Leaves
        <3>5. guard' = (IF guard = c THEN NoNode ELSE guard) /\ n.kind = "assembled"
            BY <1>3, <2>4, <2>8, <3>2, Zenon
        <3> QED
            BY <1>1, <1>2, <1>3, <2>2, <2>3, <2>5, <3>2, <3>3, <3>4, <3>5, BuildEnds, Zenon
    <2> QED
        BY ONLY <2>4, <2>7, <2>8
<1> QED
    BY <1>4, <1>5, Zenon

\* The steps that acquire: the WAL with its lock, the offload of durability, the
\* listener, the runtime.
LEMMA AcquiresKeep ==
    ASSUME IInv, NEW c \in Callers,
           open(c) \/ enable_offloaded_durability(c) \/ start_with_bind(c) \/ Runtime_new(c)
    PROVE  IInv'
<1>1. caller[c].pc \in {"open", "offload", "bind", "runtime"}
    BY Zenon DEF open, enable_offloaded_durability, start_with_bind, Runtime_new, At
<1>2. caller[c].pc \in BuildPcs
    BY ONLY <1>1 DEF BuildPcs
<1>3. PICK old \in CallerType : old = caller[c]
    BY Parts
<1>4. PICK was \in NodeType : /\ was = node[old.g] /\ was = Mine(c)
                              /\ Assembly(old, was) /\ NodeOK(was)
    BY <1>2, <1>3, BuilderIs, Zenon DEF Mine
<1>5. was.actor = "none" /\ (was.kind = "peerless" => ~was.listener /\ ~was.senders)
    BY ONLY <1>4, Zenon DEF Assembly, NodeOK
<1>6. {"offload", "bind", "runtime", "spawn"} \subseteq BuildPcs \ {"open"}
    BY DEF BuildPcs
<1>7. CASE \E why \in Faults : Fails(c, why)
    BY <1>2, <1>7, FailsKeep, Zenon
<1>8. CASE open(c) /\ ~Fails(c, "locked")
    <2>1. PICK n : n = [was EXCEPT !.wal = TRUE]
        BY Zenon
    <2>2. PICK pc : pc = IF was.kind = "peerless" THEN "runtime" ELSE "offload"
        BY Zenon
    <2>3. old.pc = "open" /\ Step(c, n, pc) /\ \A h \in Slots : ~node[h].wal
        BY <1>3, <1>4, <1>8, <2>1, <2>2, Zenon DEF open, At
    <2>4. n \in NodeType
        BY ONLY <2>1, was \in NodeType, Zenon DEF NodeType
    <2>5. /\ n.kind = was.kind /\ n.actor = was.actor /\ n.wal = TRUE
          /\ n.listener = was.listener /\ n.senders = was.senders /\ n.conn = was.conn
        BY ONLY <2>1, was \in NodeType, Zenon DEF NodeType
    <2>6. /\ pc \in {"offload", "runtime"} /\ (pc \in {"offload", "bind"} => n.kind # "peerless")
        BY ONLY <2>2, <2>5
    <2>7. ~n.listener /\ ~n.senders /\ ~n.conn /\ n.wal /\ n.actor = "none"
        BY ONLY <1>4, <1>5, <2>3, <2>5 DEF Assembly
    <2>8. pc \in BuildPcs \ {"open"}
        BY <1>6, <2>6, Zenon
    <2> QED
        BY <1>2, <1>3, <1>4, <2>3, <2>4, <2>5, <2>6, <2>7, <2>8, BuildStep, Zenon
<1>9. CASE Step(c, was, "bind") /\ At(c, "offload")
    <2>1. old.pc = "offload"
        BY <1>3, <1>9, Zenon DEF At
    <2>2. was.wal /\ was.kind # "peerless" /\ ~was.listener /\ ~was.senders /\ ~was.conn
        BY ONLY <1>4, <2>1 DEF Assembly
    <2> QED
        BY <1>2, <1>3, <1>4, <1>5, <1>6, <1>9, <2>2, BuildStep, Zenon
<1>10. CASE start_with_bind(c) /\ ~Fails(c, "bind")
    <2>1. PICK n : n = [was EXCEPT !.listener = TRUE, !.senders = TRUE]
        BY Zenon
    <2>2. old.pc = "bind" /\ Step(c, n, "runtime")
        BY <1>3, <1>4, <1>10, <2>1, Zenon DEF start_with_bind, At
    <2>3. n \in NodeType /\ n.kind = was.kind /\ n.actor = was.actor /\ n.wal = was.wal
        BY ONLY <2>1, was \in NodeType, Zenon DEF NodeType
    <2>4. was.wal /\ was.kind # "peerless"
        BY ONLY <1>4, <2>2 DEF Assembly
    <2>5. "runtime" \notin {"offload", "bind"}
        OBVIOUS
    <2> QED
        BY <1>2, <1>3, <1>4, <1>5, <1>6, <2>2, <2>3, <2>4, <2>5, BuildStep, Zenon
<1>11. CASE Step(c, was, "spawn") /\ At(c, "runtime")
    <2>1. old.pc = "runtime"
        BY <1>3, <1>11, Zenon DEF At
    <2>2. was.wal
        BY ONLY <1>4, <2>1 DEF Assembly
    <2>3. "spawn" \notin {"offload", "bind"}
        OBVIOUS
    <2> QED
        BY <1>2, <1>3, <1>4, <1>5, <1>6, <1>11, <2>2, <2>3, BuildStep, Zenon
<1>12. {"locked", "offload", "bind", "runtime"} \subseteq Faults
    BY DEF Faults
<1> QED
    BY <1>4, <1>7, <1>8, <1>9, <1>10, <1>11, <1>12, Zenon DEF enable_offloaded_durability, Runtime_new

\* The raft ids of a cluster are natural numbers.
LEMMA IdsAreNumbers ==
    ASSUME NEW cluster \in Clusters
    PROVE  raft_id(cluster) \in Nat /\ peers(cluster) \in SUBSET Nat
<1>1. DOMAIN cluster \subseteq Nat
    BY FacadeAssumption
<1>2. raft_id(cluster) \in Nat
    BY <1>1 DEF raft_id
<1> QED
    BY <1>1, <1>2 DEF peers

\* A fresh node holds nothing, and its number is one that no call has.
LEMMA BeginKeeps ==
    ASSUME IInv, NEW c \in Callers, NEW cluster \in Clusters, NEW kind, NEW op,
           Begin(c, op, kind, cluster), At(c, "idle"), INSTANCE_' = INSTANCE_,
           \/ /\ op = "start" /\ kind \in {"peerless", "member"}
              /\ guard' = c /\ guard = NoNode /\ INSTANCE_ = NoNode
           \/ op = "assemble" /\ kind = "assembled" /\ guard' = guard
    PROVE  IInv'
<1>1. PICK old \in CallerType : old = caller[c] /\ old.pc = "idle"
    BY Parts, Zenon DEF At
<1>2. PICK g \in Slots : g = built + 1 /\ built' = g /\ g > built /\ g # NoNode /\ g \in 0 .. MaxNodes
    <2>1. built < MaxNodes /\ built' = built + 1 /\ built \in Nat
        BY Parts, Zenon DEF Begin
    <2> QED
        BY <2>1, FacadeAssumption DEF Slots, NoNode
<1>3. PICK id \in Nat : id = raft_id(cluster)
    BY IdsAreNumbers, Zenon
<1>4. PICK others \in SUBSET Nat : others = peers(cluster)
    BY IdsAreNumbers, Zenon
<1>5. PICK n : n = [Nothing EXCEPT !.kind = kind, !.id = id, !.peers = others]
    BY Zenon
<1>6. PICK r : r = [old EXCEPT !.pc = "open", !.op = op, !.g = g]
    BY Zenon
<1>7. node' = [node EXCEPT ![g] = n] /\ Becomes(c, r)
    BY <1>1, <1>2, <1>3, <1>4, <1>5, <1>6, Zenon DEF Begin
<1>8. kind \in Kinds /\ op \in Ops /\ "open" \in Pcs
    BY DEF Kinds, Ops, Pcs, BuildPcs
<1>9. /\ n \in NodeType /\ n.kind = kind /\ n.actor = "none" /\ n.wal = FALSE /\ n.listener = FALSE
      /\ n.senders = FALSE /\ n.conn = FALSE
    <2>1. /\ Nothing \in NodeType /\ Nothing.actor = "none" /\ Nothing.wal = FALSE
          /\ Nothing.listener = FALSE /\ Nothing.senders = FALSE /\ Nothing.conn = FALSE
        BY DEF Nothing, NodeType, Kinds
    <2> QED
        BY ONLY <1>5, <1>8, <2>1, id \in Nat, others \in SUBSET Nat, Zenon DEF NodeType
<1>10. /\ r \in CallerType /\ r.g = g /\ r.op = op /\ r.held = old.held
       /\ r.owns = old.owns /\ r.pc = "open"
    BY ONLY <1>2, <1>6, <1>8, old \in CallerType, Zenon DEF CallerType
<1>11. /\ caller' \in [Callers -> CallerType] /\ caller'[c] = r
       /\ \A d \in Callers \ {c} : caller'[d] = caller[d]
    BY <1>7, <1>10, Parts, CallerBecomes, Zenon
<1>12. /\ node' \in [Slots -> NodeType] /\ node'[g] = n
       /\ \A h \in Slots \ {g} : node'[h] = node[h]
    BY <1>7, <1>9, Parts, NodeBecomes, Zenon
<1>13. ~Spawned(node[g]) /\ ~Holds(node[g]) /\ ~Holds(n) /\ ~Spawned(n)
    <2>1. ~Spawned(node[g]) /\ ~Holds(node[g])
        BY <1>2, Zenon DEF IInv, NodesInv
    <2> QED
        BY <1>9, <2>1 DEF Holds, Spawned
<1>14. Lasting
    BY <1>12, <1>13, Zenon DEF Lasting
<1>15. \A d \in Callers : caller[d].g # g
    <2> TAKE d \in Callers
    <2>1. caller[d].g <= built
        BY Parts, Zenon DEF CallerInv, Names
    <2> QED
        BY <1>2, <2>1, Parts
<1>16. guard # c /\ OnlyMoves(c)
    <2>1. guard # c
        <3>1. "idle" \notin BuildPcs
            BY DEF BuildPcs
        <3> QED
            BY <1>1, <3>1, NoCaller, Zenon DEF IInv, Slot
    <2>2. \A d \in Callers : guard = d => guard' = d
        BY NoCaller, Zenon
    <2> QED
        BY <1>11, <2>1, <2>2, Zenon DEF OnlyMoves
<1>17. OthersTame(c)
    <2> SUFFICES ASSUME NEW d \in Callers \ {c}, caller[d].g # NoNode
                 PROVE  Tame(node[caller[d].g], node'[caller[d].g])
        BY Zenon DEF OthersTame
    <2>1. PICK h \in Slots \ {g} : h = caller[d].g
        BY <1>15, Parts, CallerIs, SlotIs, Zenon
    <2> QED
        BY <1>12, <2>1, SameIsTame, Zenon
<1>18. Types' /\ built \in Nat /\ built' \in Nat /\ built <= built'
    <2>1. built \in Nat /\ built' \in Nat /\ built <= built' /\ built' \in 0 .. MaxNodes
        BY <1>2, Parts
    <2>2. guard' \in Callers \cup {NoNode} /\ INSTANCE_' \in 0 .. MaxNodes
        BY Parts, Zenon
    <2> QED
        BY ONLY <1>11, <1>12, <2>1, <2>2 DEF Types
<1>19. NodesInv'
    <2>1. NodeOK(n)
        BY ONLY <1>9 DEF NodeOK
    <2>2. \A h \in Slots : h > built' => h > built
        BY <1>2, Parts, FacadeAssumption DEF Slots
    <2>3. \A h \in Slots : NodeOK(node[h]) /\ (h > built => ~Spawned(node[h]) /\ ~Holds(node[h]))
        BY Zenon DEF IInv, NodesInv
    <2> QED
        BY ONLY <1>12, <1>13, <2>1, <2>2, <2>3, Zenon DEF NodesInv
<1>20. CallerInv(c)'
    <2>1. Names(old)
        BY <1>1, Parts, Zenon DEF CallerInv
    <2>2. /\ old.held # NoNode => Spawned(node'[old.held])
          /\ old.owns # NoNode => Spawned(node'[old.owns]) /\ node'[old.owns].kind = "assembled"
        BY <1>14, <1>18, <2>1, NamesStays, Zenon
    <2>3. g <= built'
        BY <1>2, Parts
    <2>4. Names(caller[c])'
        BY ONLY <1>10, <1>11, <2>2, <2>3, Zenon DEF Names
    <2>5. Assembly(r, n)
        BY ONLY <1>2, <1>9, <1>10, \/ op = "start" /\ kind \in {"peerless", "member"}
                                   \/ op = "assemble" /\ kind = "assembled" DEF Assembly
    <2>6. Relies(r, n)
        <3>1. r.op # "shutdown"
            BY <2>5 DEF Assembly
        <3>2. r.pc \notin ClosePcs /\ r.pc \notin {"stop", "join", "await", "idle"}
            BY <1>10 DEF ClosePcs
        <3> QED
            BY ONLY <2>5, <3>1, <3>2, Zenon DEF Relies
    <2>7. Relies(caller'[c], node'[caller'[c].g])
        BY ONLY <1>10, <1>11, <1>12, <2>6, Zenon
    <2>8. caller'[c].op = "start" => guard' = c
        BY <1>10, <1>11
    <2> QED
        BY ONLY <2>4, <2>7, <2>8, Zenon DEF CallerInv
<1>21. Apart'
    <2> SUFFICES ASSUME NEW a \in Callers, NEW d \in Callers, a # d, caller'[d].pc \in BuildPcs
                 PROVE  caller'[a].g # caller'[d].g
        BY Zenon DEF Apart
    <2>1. CASE d = c \/ a = c
        BY <1>10, <1>11, <1>15, <2>1
    <2>2. CASE d # c /\ a # c
        BY <1>11, <2>2, Zenon DEF IInv, Apart
    <2> QED
        BY <2>1, <2>2
<1>22. Slot'
    <2>1. CASE op = "start"
        <3>1. "open" \in BuildPcs
            BY DEF BuildPcs
        <3>2. guard' = c /\ INSTANCE_' = NoNode
            BY <2>1
        <3> QED
            BY <1>10, <1>11, <2>1, <3>1, <3>2, Zenon DEF Slot
    <2>2. CASE op = "assemble"
        <3>1. guard' = guard
            BY <2>2
        <3> QED
            BY <1>14, <1>16, <3>1, SlotKeeps, Zenon
    <2> QED
        BY <2>1, <2>2, Zenon
<1>23. Reach'
    <2>1. \A h \in Slots : Holds(node'[h]) => Holds(node[h]) /\ node'[h].kind = node[h].kind
        BY <1>12, <1>13, Zenon
    <2>2. "idle" \notin BuildPcs \cup ClosePcs
        BY DEF BuildPcs, ClosePcs
    <2>3. \A h : ~InHands(caller[c], h)
        BY <1>1, <2>2, Zenon DEF InHands
    <2> QED
        BY <1>16, <2>1, <2>3, ReachKeeps, Zenon
<1>24. OneLock'
    <2>1. \A h \in Slots : node'[h].wal => node[h].wal
        BY <1>9, <1>12, Zenon
    <2> QED
        BY <2>1, OneLockKeeps, Zenon
<1>25. SlotIsLive'
    <2>1. caller'[c].op # "shutdown"
        BY <1>10, <1>11
    <2> QED
        BY <1>16, <2>1, SlotIsLiveKeeps, Zenon
<1> QED
    BY <1>14, <1>16, <1>17, <1>18, <1>19, <1>20, <1>21, <1>22, <1>23, <1>24, <1>25, StepKeeps, Zenon

\* Arachne::start and assemble_cluster.
LEMMA StartKeeps ==
    ASSUME IInv, NEW c \in Callers, NEW cluster \in Clusters,
           start(c, cluster) \/ assemble_cluster(c, cluster)
    PROVE  IInv'
<1>1. CASE start(c, cluster) /\ INSTANCE_ # NoNode
    <2>1. /\ Becomes(c, [caller[c] EXCEPT !.op = "start", !.g = NoNode,
                                          !.result = "AlreadyInitialized"])
          /\ At(c, "idle") /\ UNCHANGED <<INSTANCE_, guard, node, built>>
        BY <1>1, Zenon DEF start
    <2> QED
        BY <2>1, RefusedKeeps, Zenon
<1>2. CASE start(c, cluster) /\ INSTANCE_ = NoNode
    <2>1. PICK kind : kind = IF is_peerless(cluster) THEN "peerless" ELSE "member"
        BY Zenon
    <2>2. /\ Begin(c, "start", kind, cluster) /\ At(c, "idle") /\ INSTANCE_' = INSTANCE_
          /\ guard = NoNode /\ guard' = c
        BY <1>2, <2>1, Zenon DEF start
    <2>3. kind \in {"peerless", "member"}
        BY <2>1, Zenon
    <2> QED
        BY <1>2, <2>2, <2>3, BeginKeeps, Zenon
<1>3. CASE assemble_cluster(c, cluster)
    BY <1>3, BeginKeeps, Zenon DEF assemble_cluster
<1> QED
    BY <1>1, <1>2, <1>3, Zenon

-----------------------------------------------------------------------------
\* Every step keeps the invariant.
LEMMA NextIInv == IInv /\ [Next]_vars => IInv'
<1> SUFFICES ASSUME IInv, [Next]_vars PROVE IInv'
    OBVIOUS
<1>1. CASE \E c \in Callers, cluster \in Clusters : start(c, cluster) \/ assemble_cluster(c, cluster)
    BY <1>1, StartKeeps, Zenon
<1>2. CASE \E c \in Callers : set(c) \/ handle(c) \/ UseHandle(c) \/ shutdown(c) \/ ShutdownAssembled(c)
    BY <1>2, BorrowKeeps, UseHandleKeeps, ShutdownKeeps, ShutdownAssembledKeeps, Zenon DEF set, handle
<1>3. CASE \E c \in Callers : Work(c)
    BY <1>3, AcquiresKeep, SpawnKeeps, AnsweredKeeps, ServersKeep, JoinKeeps, Zenon DEF Work
<1>4. CASE \E g \in Slots : ActorEnds(g) \/ FailStop(g) \/ PeerConnects(g) \/ PeerLeaves(g)
    BY <1>4, NodesKeep, Zenon
<1>5. CASE UNCHANGED vars
    <2>1. UNCHANGED <<INSTANCE_, guard, node, caller, built>>
        BY <1>5 DEF vars
    <2>2. Types'
        BY <2>1, Zenon DEF IInv, Types
    <2>3. NodesInv' /\ \A h \in Slots : Tame(node[h], node'[h])
        BY <2>1, SameIsTame, Zenon DEF IInv, NodesInv
    <2>4. OnlyMoves(NoNode)
        BY <2>1, Zenon DEF OnlyMoves
    <2> QED
        BY <2>1, <2>2, <2>3, <2>4, NoCaller, TameStep, Zenon
<1> QED
    BY <1>1, <1>2, <1>3, <1>4, <1>5, Zenon DEF Next

\* The invariant holds at the start.
LEMMA InitIInv == Init => IInv
<1> SUFFICES ASSUME Init PROVE IInv
    OBVIOUS
<1>1. /\ Nothing \in NodeType /\ NodeOK(Nothing) /\ ~Spawned(Nothing) /\ ~Holds(Nothing)
      /\ ~Nothing.wal
    BY DEF Nothing, NodeType, Kinds, NodeOK, Spawned, Holds
<1>2. /\ Resting \in CallerType /\ Resting.pc = "idle" /\ Resting.op = "none" /\ Resting.g = NoNode
      /\ Resting.held = NoNode /\ Resting.owns = NoNode
    <2>1. "idle" \in Pcs /\ "none" \in Ops /\ "none" \in Results /\ NoNode \in 0 .. MaxNodes
        BY FacadeAssumption DEF Pcs, Ops, Results, NoNode
    <2> QED
        BY <2>1 DEF Resting, CallerType
<1>3. /\ INSTANCE_ = NoNode /\ guard = NoNode /\ built = 0 /\ built = NoNode
      /\ node = [g \in Slots |-> Nothing] /\ caller = [c \in Callers |-> Resting]
    BY DEF Init, NoNode
<1>4. /\ \A g \in Slots : node[g] = Nothing
      /\ \A c \in Callers : caller[c] = Resting
    BY <1>3
<1>5. Types
    <2>1. 0 \in 0 .. MaxNodes /\ NoNode \in 0 .. MaxNodes
        BY FacadeAssumption DEF NoNode
    <2> QED
        BY ONLY <1>1, <1>2, <1>3, <2>1 DEF Types
<1>6. NodesInv
    BY <1>1, <1>4, Zenon DEF NodesInv
<1>7. Resting.pc \notin BuildPcs \cup ClosePcs /\ Resting.pc \notin {"stop", "join", "await"}
    BY <1>2 DEF BuildPcs, ClosePcs
<1>8. \A c \in Callers : CallerInv(c)
    <2>1. Names(Resting)
        BY <1>2, <1>3 DEF Names, NoNode
    <2>2. \A n : Relies(Resting, n)
        BY ONLY <1>2, <1>7, Zenon DEF Relies
    <2> QED
        BY ONLY <1>4, <1>7, <2>1, <2>2, Zenon DEF CallerInv
<1>9. Apart /\ OneLock /\ SlotIsLive
    BY <1>1, <1>3, <1>4, <1>7, Zenon DEF Apart, OneLock, SlotIsLive
<1>10. Slot /\ Reach
    BY <1>1, <1>3, <1>4, Zenon DEF Slot, Reach
<1> QED
    BY <1>5, <1>6, <1>8, <1>9, <1>10, Zenon DEF IInv

\* The invariant holds at any time.
LEMMA Invariant == Spec => []IInv
BY InitIInv, NextIInv, PTL DEF Spec

\* The state is well formed at any time, an actor that runs has its WAL, and no
\* two nodes have the data directory's lock (WalStorage::open).
THEOREM TypeCorrect == Spec => []TypeOK
<1>1. ASSUME IInv PROVE TypeOK
    <2>1. \A c \in Callers : caller[c].g \in 0 .. MaxNodes /\ caller[c].held \in 0 .. MaxNodes
        BY <1>1, Parts, CallerIs, Zenon
    <2>2. \A g \in Slots : /\ node[g].kind \in {"none", "peerless", "member", "assembled"}
                           /\ node[g].actor \in {"none", "running", "stopped"}
                           /\ node[g].actor = "running" => node[g].wal
        BY <1>1, Parts DEF NodeType, Kinds, NodeOK
    <2>3. OneLock
        BY <1>1, Zenon DEF IInv
    <2> QED
        BY <1>1, <2>1, <2>2, <2>3, Parts, Zenon DEF TypeOK, OneLock
<1> QED
    BY <1>1, Invariant, PTL

\* However starts, shutdowns, failures and connections interleave, a call that
\* has returned left nothing behind: no lock, listener or thread after a
\* shutdown, and none after a start that failed (Arachne::shutdown,
\* start_multi_node).
THEOREM Released == Spec => []NothingIsLeaked
<1>1. ASSUME IInv PROVE NothingIsLeaked
    <2>1. ASSUME NEW c \in Callers, At(c, "idle"), caller[c].g # NoNode
          PROVE  Leaves(caller[c], Mine(c))
        BY <1>1, <2>1, Parts, Zenon DEF CallerInv, Relies, At, Mine
    <2>2. ReturnedMeansReleased
        BY <2>1 DEF ReturnedMeansReleased, Done, Leaves
    <2>3. FailedStartHoldsNothing
        BY <2>1 DEF FailedStartHoldsNothing, Done, Leaves, Faults
    <2> QED
        BY <2>2, <2>3 DEF NothingIsLeaked
<1> QED
    BY <1>1, Invariant, PTL

\* However many threads start and shut down at once, the slot names no node
\* that is torn down, and a node that holds the lock or the listener or runs is
\* in the slot or in the hands of a call (Arachne::start, Arachne::shutdown).
THEOREM SlotExact == Spec => []SlotIsExact
<1>1. ASSUME IInv PROVE SlotIsExact
    <2>1. "idle" \notin BuildPcs \cup ClosePcs
        BY DEF BuildPcs, ClosePcs
    <2>2. Reach /\ SlotIsLive
        BY <1>1, Zenon DEF IInv
    <2>3. NoOrphan
        BY ONLY <2>1, <2>2, Zenon DEF Reach, InHands, Holds, NoOrphan, At
    <2> QED
        BY <2>2, <2>3, Zenon DEF SlotIsExact
<1> QED
    BY <1>1, Invariant, PTL

=============================================================================
