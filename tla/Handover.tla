------------------------------ MODULE Handover ------------------------------
(***************************************************************************)
(* Operator commands on the members: transfer-leader and remove.  A leader  *)
(* is never removed directly, so removing it is a sequence with a           *)
(* leadership change in the middle: inside Handle::remove_member, and once  *)
(* more in the members command line, which talks to one node over HTTP.     *)
(* Answers wait for what really happened: a transfer for the leadership to  *)
(* move, a removal for the change to be applied.                            *)
(*                                                                          *)
(* Raft is external: who leads, what each node believes (leader_id, 0 when  *)
(* it knows none), the transfer it has in progress, and the change entries  *)
(* that are in flight, committed or lost with their leader.                 *)
(***************************************************************************)
EXTENDS Integers, Sequences, FiniteSets, FiniteSetsExt, SequencesExt

CONSTANTS
    Nodes, Voters0, Leader0,  \* raft ids, positive
    Commands,       \* operator -> [op, id, at, cli]: the command, its node, and
                    \* whether the command line or an embedder's handle runs it
    MAX_REDIRECTS,  \* of an embedder's handle; the HTTP surface follows no hint
    MaxElections    \* leadership changes nobody asked for, a bound of the model

NoOne == 0
AnyVoter == -1      \* TransferLeader { target: None }
Nothing == [id |-> NoOne, by |-> NoOne]

VARIABLES
    leader,    \* who leads, or NoOne
    believed,  \* node -> its leader_id
    voters,    \* the applied configuration
    transferee, \* raft's lead_transferee on the leader, or NoOne
    entries,   \* ids whose removal is proposed and not yet committed
    pending_transfer,  \* node -> [id, by]: its one pending transfer
    pending_conf,      \* node -> [id, by]: its one pending change
    cmd,       \* operator -> where its command stands
    elections

vars == <<leader, believed, voters, transferee, entries, pending_transfer,
          pending_conf, cmd, elections>>

Operators == DOMAIN Commands

(***************************************************************************)
(* A command makes one request at a time.  stage: "remove", "handover" or   *)
(* "again" inside remove_member, "transfer" for a plain transfer.           *)
(* round: how often the command line has sent the removal.                  *)
(***************************************************************************)
Order(o) == <<Commands[o].at>> \o SetToSortSeq(Nodes \ {Commands[o].at}, <)

max_redirects(o) == IF Commands[o].cli THEN 0 ELSE MAX_REDIRECTS

\* A request starts at the command's own node; led gathers who leads meanwhile.
Request(c, o, stage, id) ==
    [c EXCEPT !.pc = "ask", !.stage = stage, !.id = id, !.to = Commands[o].at,
              !.pos = 1, !.redirects = 0, !.led = {leader} \ {NoOne}]

Finished(c, verdict) == [c EXCEPT !.pc = "done", !.verdict = verdict]

\* members.rs: a removal refused because the node leads is followed by a
\* transfer to id 0 and one more removal, on the same address.
run(c, o, verdict) ==
    CASE Commands[o].cli /\ Commands[o].op = "remove" /\ c.stage # "transfer"
         /\ verdict = "requires_transfer" /\ c.round = 1
           -> [Request(c, o, "transfer", NoOne) EXCEPT !.round = 2]
      [] Commands[o].cli /\ Commands[o].op = "remove" /\ c.stage = "transfer" /\ verdict = "ok"
           -> Request(c, o, "remove", Commands[o].id)
      [] OTHER -> Finished(c, verdict)

\* The handover counts as the removal.
remove_handing_over(c, o, verdict) ==
    IF c.stage = "remove" /\ verdict = "requires_transfer"
    THEN Request(c, o, "handover", AnyVoter) ELSE run(c, o, verdict)

remove_member(c, o, verdict) ==
    CASE c.stage = "remove" /\ verdict = "requires_transfer"
           -> Request(c, o, "handover", AnyVoter)
      [] c.stage = "handover" /\ verdict = "ok"
           -> Request(c, o, "again", Commands[o].id)
      [] OTHER -> run(c, o, verdict)

\* The redirect loop on NotLeader{hint}: a single-shot handle reports it, others
\* go to the hinted node, or to the next of their order when there is no hint.
NotLeader(c, o, hint) ==
    LET pos == (c.pos % Len(Order(o))) + 1 IN
    IF max_redirects(o) = 0 THEN remove_member(c, o, "not_leader")
    ELSE IF c.redirects + 1 > max_redirects(o) THEN remove_member(c, o, "timeout")
    ELSE [c EXCEPT !.pc = "ask", !.redirects = @ + 1, !.pos = pos,
                   !.to = IF hint = NoOne THEN Order(o)[pos] ELSE hint]

(***************************************************************************)
(* The actor of the node a request reaches.                                 *)
(***************************************************************************)
choose_transferee(n) == Min(voters \ {n})

\* Raft starts a transfer only to a voter other than itself.
transfer_leader(n, id) ==
    transferee' = IF n = leader /\ id \in voters \ {n} THEN id ELSE transferee

\* Another transfer is in flight on this node.
InFlight(n) == pending_transfer[n] # Nothing

TransferLeader(o, n) ==
    LET c == cmd[o]
        id == IF c.id = AnyVoter /\ voters \ {n} # {} THEN choose_transferee(n) ELSE c.id
        answer(a) == cmd' = [cmd EXCEPT ![o] = a] /\ UNCHANGED <<transferee, pending_transfer>>
    IN
    IF believed[n] # n THEN answer(NotLeader(c, o, believed[n]))
    ELSE IF InFlight(n) THEN answer(remove_member(c, o, "pending"))
    ELSE IF id = AnyVoter THEN answer(remove_member(c, o, "requires_transfer"))
    ELSE /\ transfer_leader(n, id)
         /\ pending_transfer' = [pending_transfer EXCEPT ![n] = [id |-> id, by |-> o]]
         /\ cmd' = [cmd EXCEPT ![o].pc = "wait"]

\* Raft drops a proposal while a transfer is in progress, or when it has been
\* deposed: the actor answers NotLeader with what it believes.
ConfChange(o, n) ==
    LET c == cmd[o]
        answer(a) == cmd' = [cmd EXCEPT ![o] = a] /\ UNCHANGED <<entries, pending_conf>>
    IN
    IF believed[n] # n THEN answer(NotLeader(c, o, believed[n]))
    ELSE IF c.id = n THEN answer(remove_member(c, o, "requires_transfer"))
    ELSE IF pending_conf[n] # Nothing THEN answer(remove_member(c, o, "pending"))
    ELSE IF n # leader \/ transferee # NoOne THEN answer(NotLeader(c, o, believed[n]))
    ELSE /\ entries' = entries \cup {c.id}
         /\ pending_conf' = [pending_conf EXCEPT ![n] = [id |-> c.id, by |-> o]]
         /\ cmd' = [cmd EXCEPT ![o].pc = "wait"]

handle_command(o) ==
    /\ cmd[o].pc = "ask"
    /\ \/ /\ cmd[o].stage \in {"transfer", "handover"}
          /\ TransferLeader(o, cmd[o].to)
          /\ UNCHANGED <<entries, pending_conf>>
       \/ /\ cmd[o].stage \in {"remove", "again"}
          /\ ConfChange(o, cmd[o].to)
          /\ UNCHANGED <<transferee, pending_transfer>>
    /\ UNCHANGED <<leader, believed, voters, elections>>

\* The leadership is with the target, with a third node, or the deadline has
\* passed (0, no leader known yet, is no verdict).
Resolved(n) ==
    LET t == pending_transfer[n].id IN
    IF believed[n] = t THEN "ok"
    ELSE IF believed[n] \notin {NoOne, n} THEN "moved_elsewhere"
    ELSE "timeout"

resolve_transfers(n) ==
    /\ pending_transfer[n] # Nothing
    /\ LET o == pending_transfer[n].by
           verdict == Resolved(n)
       IN  cmd' = [cmd EXCEPT ![o] =
                      IF verdict = "moved_elsewhere" THEN NotLeader(@, o, believed[n])
                      ELSE remove_member(@, o, verdict)]
    /\ pending_transfer' = [pending_transfer EXCEPT ![n] = Nothing]
    /\ UNCHANGED <<leader, believed, voters, transferee, entries, pending_conf, elections>>

\* The change of a waiting caller has not been applied by its deadline.
overdue(n) ==
    /\ pending_conf[n] # Nothing
    /\ LET o == pending_conf[n].by
       IN  cmd' = [cmd EXCEPT ![o] = remove_member(@, o, "timeout")]
    /\ pending_conf' = [pending_conf EXCEPT ![n] = Nothing]
    /\ UNCHANGED <<leader, believed, voters, transferee, entries, pending_transfer, elections>>

(***************************************************************************)
(* Raft.                                                                    *)
(***************************************************************************)
Led(n) == [o \in Operators |-> [cmd[o] EXCEPT !.led = @ \cup {n}]]

\* The transferee campaigns and wins; the old leader hears of it later.
TransferWon ==
    /\ transferee # NoOne
    /\ leader' = transferee
    /\ believed' = [believed EXCEPT ![transferee] = transferee]
    /\ cmd' = Led(transferee)
    /\ transferee' = NoOne
    /\ \E kept \in {entries, {}} : entries' = kept
    /\ UNCHANGED <<voters, pending_transfer, pending_conf, elections>>

TransferAborted ==
    /\ transferee # NoOne
    /\ transferee' = NoOne
    /\ UNCHANGED <<leader, believed, voters, entries, pending_transfer,
                   pending_conf, cmd, elections>>

\* Leadership is lost to another voter, or to nobody for a while.
Elect ==
    /\ elections < MaxElections
    /\ elections' = elections + 1
    /\ \E n \in (voters \cup {NoOne}) \ {leader} :
          /\ leader' = n
          /\ believed' = IF n = NoOne THEN [believed EXCEPT ![leader] = NoOne]
                         ELSE [believed EXCEPT ![n] = n]
          /\ cmd' = IF n = NoOne THEN cmd ELSE Led(n)
    /\ leader # NoOne \/ leader' # NoOne
    /\ transferee' = NoOne
    /\ \E kept \in {entries, {}} : entries' = kept
    /\ UNCHANGED <<voters, pending_transfer, pending_conf>>

\* A node learns of the leader.
Learn(n) ==
    /\ leader # NoOne /\ believed[n] # leader
    /\ believed' = [believed EXCEPT ![n] = leader]
    /\ UNCHANGED <<leader, voters, transferee, entries, pending_transfer,
                   pending_conf, cmd, elections>>

\* A removal commits and is applied; reply_pendings answers the callers that
\* wait for that change.
Applied ==
    \E e \in entries :
        LET told == {n \in Nodes : pending_conf[n].id = e} IN
        /\ leader # NoOne /\ voters # {e}
        /\ entries' = entries \ {e}
        /\ voters' = voters \ {e}
        /\ pending_conf' = [n \in Nodes |-> IF n \in told THEN Nothing ELSE pending_conf[n]]
        /\ cmd' = [o \in Operators |->
                      IF \E n \in told : pending_conf[n].by = o
                      THEN remove_member(cmd[o], o, "ok") ELSE cmd[o]]
        /\ UNCHANGED <<leader, believed, transferee, pending_transfer, elections>>

Init ==
    /\ leader = Leader0 /\ transferee = NoOne
    /\ believed = [n \in Nodes |-> Leader0]
    /\ voters = Voters0 /\ entries = {}
    /\ pending_transfer = [n \in Nodes |-> Nothing]
    /\ pending_conf = [n \in Nodes |-> Nothing]
    /\ cmd = [o \in Operators |->
                 [pc |-> "ask", id |-> Commands[o].id, to |-> Commands[o].at, pos |-> 1,
                  stage |-> IF Commands[o].op = "remove" THEN "remove" ELSE "transfer",
                  redirects |-> 0, round |-> 1, verdict |-> "none", led |-> {Leader0}]]
    /\ elections = 0

Next ==
    \/ \E o \in Operators : handle_command(o)
    \/ \E n \in Nodes : resolve_transfers(n) \/ overdue(n) \/ Learn(n)
    \/ TransferWon \/ TransferAborted \/ Elect \/ Applied

Spec == Init /\ [][Next]_vars
LiveSpec == Spec /\ WF_vars(Next)

(***************************************************************************)
(* Properties.                                                              *)
(***************************************************************************)
\* Each pending entry of an actor belongs to the one command that waits on it,
\* and a waiting command is registered exactly once.
TypeOK ==
    /\ leader \in Nodes \cup {NoOne} /\ voters \subseteq Voters0
    /\ \A o \in Operators :
          cmd[o].pc = "wait" <=>
              1 = Cardinality({n \in Nodes : pending_transfer[n].by = o})
                  + Cardinality({n \in Nodes : pending_conf[n].by = o})

\* "Resolves once the leadership has actually moved" (Handle::transfer_leader):
\* a transfer reports success only if its target has led since it was asked for,
\* whatever was elected, aborted or believed in between.
TransferIsReal ==
    \A o \in Operators :
        cmd[o].pc = "done" /\ cmd[o].verdict = "ok" /\ cmd[o].stage = "transfer"
        /\ cmd[o].id \in Nodes => cmd[o].id \in cmd[o].led

\* A removal reports success only once the configuration is without the node,
\* also when it took a handover, a lost entry or a second attempt to get there.
RemovalIsReal ==
    \A o \in Operators :
        cmd[o].pc = "done" /\ cmd[o].verdict = "ok" /\ Commands[o].op = "remove"
        => Commands[o].id \notin voters

\* Every command ends, with an answer, whatever the leadership does.
EveryCommandEnds == <>(\A o \in Operators : cmd[o].pc = "done")

\* "`transfer-leader/0` means any other voter: the node picks" (members.rs run):
\* such a transfer, when it succeeds, has moved the leadership to another node.
ZeroMeansAnyVoter ==
    \A o \in Operators :
        cmd[o].verdict = "ok" /\ cmd[o].stage = "transfer" /\ cmd[o].id = NoOne
        => cmd[o].led \ {Commands[o].at} # {}

\* "performs the handover and retries against the new leader" (members.rs run):
\* removing the leader of a healthy cluster from the command line succeeds.
CliRemovesLeader ==
    \A o \in Operators :
        cmd[o].pc = "done" /\ Commands[o].op = "remove" /\ Commands[o].cli
        => cmd[o].verdict # "not_leader"
=============================================================================
