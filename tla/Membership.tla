----------------------------- MODULE Membership -----------------------------
(***************************************************************************)
(* Changing the members and handing over leadership                        *)
(* (arachne/src/runtime/mod.rs, consensus/node.rs, storage/wal.rs,         *)
(* client/handle.rs).  A change is a log entry; the leader's gates decide  *)
(* whether it is proposed, every node applies it on its actor once the     *)
(* state machine has applied everything before it, and the resulting       *)
(* configuration is stored beside the log.                                 *)
(*                                                                         *)
(* Raft is external, at the grain the configuration matters at: a leader   *)
(* commits (from its own first entry on) and a candidate wins with a       *)
(* quorum of the voters it has itself applied, a vote goes to a log at     *)
(* least as long, a node that knows of a committed change not yet handed   *)
(* out does not campaign, and the logs of all nodes are prefixes of one    *)
(* sequence (an election cuts the rest).                                   *)
(***************************************************************************)
EXTENDS Naturals, Sequences, FiniteSets

CONSTANTS
    Nodes, Voters0, Learners0, Leader0,   \* ids; the cluster at the start
    promote_lag_entries,
    Changes,      \* the changes asked for, as <<type, node>>
    Crashing,     \* the nodes that may restart
    MaxLog, MaxWrites, MaxAsked, MaxElections, MaxRestarts   \* bounds

NoNode == 0
NoChange == <<"none", NoNode>>
Data == <<"Entry", NoNode>>

VARIABLES
    leader,     \* who proposes and commits, or NoNode
    log,        \* the leader's log
    commit,     \* committed entries
    first,      \* the first entry of the leader's term
    known,      \* per node: the committed entries it has heard of
    matched,    \* per node: length of its log
    handed,     \* per node: entries its raft has handed out (raft's applied)
    applied,    \* per node: the actor's applied_index
    conf,       \* per node: the stored configuration
    confIndex,  \* per node: conf_change_index
    pendIndex,  \* per node: raft's pending_conf_index
    pending,    \* per node: pending_conf: the change a caller waits for
    replies,    \* the answers given: <<node, change, index>>
    failed,     \* nodes that have fail-stopped
    overlapped, \* history: a change was proposed before an earlier one was applied
    asked, elected, restarted

vars == <<leader, log, commit, first, known, matched, handed, applied, conf, confIndex,
          pendIndex, pending, replies, failed, overlapped, asked, elected, restarted>>

raft == <<leader, log, commit, first, known, matched>>
node == <<handed, applied, conf, confIndex>>
actor == <<pending, replies>>

NoPending == [change |-> NoChange, index |-> 0]

Quorum(voters, S) == 2 * Cardinality(S \cap voters) > Cardinality(voters)

IsConf(e) == e[1] # "Entry"

\* What raft makes of one change (ConfState after apply_conf_change).
Changed(c, e) ==
    CASE e[1] = "AddLearnerNode" -> [voters |-> c.voters \ {e[2]},
                                     learners |-> c.learners \cup {e[2]}]
      [] e[1] = "AddNode" -> [voters |-> c.voters \cup {e[2]},
                              learners |-> c.learners \ {e[2]}]
      [] e[1] = "RemoveNode" -> [voters |-> c.voters \ {e[2]},
                                 learners |-> c.learners \ {e[2]}]
      [] OTHER -> c

Conf0 == [voters |-> Voters0, learners |-> Learners0]

\* The configuration c after the entries of the log from position i up to k.
Through(c, i, k) ==
    LET after[j \in Nat] == IF j < i THEN c ELSE Changed(after[j - 1], log[j])
    IN  after[k]

ConfAt(i) == Through(Conf0, 1, i)

(***************************************************************************)
(* Command::ConfChange on the leader: the three hard constraints, then the *)
(* proposal.  Raft puts an empty entry in the place of a change while the  *)
(* last one is not handed out.                                             *)
(***************************************************************************)
Behind(n) == Len(log) - matched[n]

learner_caught_up(n) == matched[n] > 0 /\ Behind(n) <= promote_lag_entries

Promotable(n, e) ==
    e[1] = "AddNode" => e[2] \in conf[n].learners /\ learner_caught_up(e[2])

has_pending_conf(n) == pendIndex[n] > handed[n]

\* Raft drops the proposal of a leader that its configuration no longer has.
Member(n) == n \in conf[n].voters \cup conf[n].learners

conf_change(n, e) ==
    /\ leader = n /\ n \notin failed /\ asked < MaxAsked /\ Len(log) < MaxLog
    /\ e # <<"RemoveNode", n>>
    /\ Promotable(n, e)
    /\ pending[n] = NoPending /\ Member(n)
    /\ log' = Append(log, IF has_pending_conf(n) THEN Data ELSE e)
    /\ matched' = [matched EXCEPT ![n] = Len(log) + 1]
    /\ pendIndex' = IF has_pending_conf(n) THEN pendIndex
                    ELSE [pendIndex EXCEPT ![n] = Len(log) + 1]
    /\ pending' = [pending EXCEPT ![n] = [change |-> e, index |-> 0]]
    /\ asked' = asked + 1
    /\ overlapped' = (overlapped \/ \E i \in applied[n] + 1 .. Len(log) :
                          IsConf(log[i]) /\ ~has_pending_conf(n))
    /\ UNCHANGED <<leader, commit, first, known, node, replies, failed,
                   elected, restarted>>

\* A write, proposed like any other.
Propose(n) ==
    /\ leader = n /\ n \notin failed /\ Member(n) /\ Len(log) < MaxLog
    /\ Cardinality({i \in DOMAIN log : log[i] = Data}) <= MaxWrites
    /\ log' = Append(log, Data)
    /\ matched' = [matched EXCEPT ![n] = Len(log) + 1]
    /\ UNCHANGED <<leader, commit, first, known, node, pendIndex, actor, failed, overlapped, asked, elected, restarted>>

(***************************************************************************)
(* stage_committed and pump_committed: attribute a change to the caller    *)
(* that waits for it, then apply entries in log order; a change waits for  *)
(* the state machine.                                                      *)
(***************************************************************************)
conf_change_identity(e) == e

Attributed(n, k) ==
    LET hits == {i \in handed[n] + 1 .. k :
                    IsConf(log[i]) /\ conf_change_identity(log[i]) = pending[n].change}
    IN  IF pending[n].index = 0 /\ hits # {}
        THEN [pending[n] EXCEPT !.index = CHOOSE i \in hits : \A j \in hits : i <= j]
        ELSE pending[n]

\* apply_conf_change for the changes among the entries up to k: one the stored
\* configuration already reflects is skipped; raft refuses to remove the last
\* voter, which is fatal.
ConfAfter(n, k) ==
    LET from == IF applied[n] < confIndex[n] THEN confIndex[n] ELSE applied[n]
    IN  Through(conf[n], from + 1, k)

LastConf(n, k) ==
    LET cs == {i \in applied[n] + 1 .. k : IsConf(log[i]) /\ i > confIndex[n]}
    IN  IF cs = {} THEN confIndex[n]
        ELSE CHOOSE i \in cs : \A j \in cs : j <= i

ApplyTo(n, k) ==
    \E c \in {ConfAfter(n, k)} :
        IF c.voters = {}
        THEN failed' = failed \cup {n} /\ UNCHANGED <<applied, conf, confIndex>>
        ELSE /\ applied' = [applied EXCEPT ![n] = k]
             /\ conf' = [conf EXCEPT ![n] = c]
             /\ confIndex' = [confIndex EXCEPT ![n] = LastConf(n, k)]
             /\ UNCHANGED failed

\* A change goes through at once when nothing before it is with the apply task.
Pumped(n, a, h) ==
    CHOOSE k \in a .. h :
        /\ \A i \in a + 1 .. k : IsConf(log[i])
        /\ k = h \/ ~IsConf(log[k + 1])

stage_committed(n) ==
    /\ n \notin failed /\ handed[n] < known[n]
    /\ handed' = [handed EXCEPT ![n] = known[n]]
    /\ pending' = [pending EXCEPT ![n] = Attributed(n, known[n])]
    /\ ApplyTo(n, Pumped(n, applied[n], known[n]))
    /\ UNCHANGED <<raft, pendIndex, replies, overlapped, asked, elected, restarted>>

\* The apply task reports the next entry; the changes behind it go through.
absorb_progress(n) ==
    /\ n \notin failed /\ applied[n] < handed[n]
    /\ ApplyTo(n, Pumped(n, applied[n] + 1, handed[n]))
    /\ UNCHANGED <<raft, handed, pendIndex, actor, overlapped, asked, elected, restarted>>

(***************************************************************************)
(* reply_pendings: applied, or overdue.                                    *)
(***************************************************************************)
ReplyUnattributed(n) ==
    /\ n \notin failed /\ pending[n] # NoPending
    /\ IF applied[n] >= pending[n].index
       THEN replies' = replies \cup {<<n, pending[n].change, pending[n].index>>}
       ELSE UNCHANGED replies
    /\ pending' = [pending EXCEPT ![n] = NoPending]
    /\ UNCHANGED <<raft, node, pendIndex, failed, overlapped, asked, elected, restarted>>

reply_pendings(n) ==
    /\ n \notin failed /\ pending[n] # NoPending
    /\ IF pending[n].index # 0 /\ applied[n] >= pending[n].index
       THEN replies' = replies \cup {<<n, pending[n].change, pending[n].index>>}
       ELSE UNCHANGED replies   \* its deadline has passed
    /\ pending' = [pending EXCEPT ![n] = NoPending]
    /\ UNCHANGED <<raft, node, pendIndex, failed, overlapped, asked, elected, restarted>>

(***************************************************************************)
(* Raft, crashes and snapshots.                                            *)
(***************************************************************************)
Lesser(a, b) == IF a < b THEN a ELSE b

\* An append, or a heartbeat, brings the commit index along.
Replicate(n) ==
    /\ leader \notin failed \cup {NoNode}
    /\ n \in conf[leader].voters \cup conf[leader].learners
    /\ matched[n] < Len(log) \/ known[n] < commit
    /\ matched' = [matched EXCEPT ![n] = Len(log)]
    /\ known' = [known EXCEPT ![n] = commit]
    /\ UNCHANGED <<leader, log, commit, first, node, pendIndex, actor, failed,
                   overlapped, asked, elected, restarted>>

Commit ==
    /\ leader \notin failed \cup {NoNode}
    /\ \E k \in commit + 1 .. Len(log) :
          /\ k >= first
          /\ Quorum(conf[leader].voters, {n \in Nodes : matched[n] >= k})
          /\ commit' = k
          /\ known' = [known EXCEPT ![leader] = k]
    /\ UNCHANGED <<leader, log, first, matched, node, pendIndex, actor, failed,
                   overlapped, asked, elected, restarted>>

\* The new leader starts with an empty entry of its own.
Elect(n) ==
    /\ elected < MaxElections /\ elected' = elected + 1
    /\ n # leader /\ n \notin failed /\ n \in conf[n].voters
    /\ matched[n] < MaxLog
    /\ \A i \in handed[n] + 1 .. known[n] : ~IsConf(log[i])
    /\ Quorum(conf[n].voters,
              {v \in Nodes \ failed : matched[v] <= matched[n]})
    /\ leader' = n
    /\ log' = Append(SubSeq(log, 1, matched[n]), Data)
    /\ first' = matched[n] + 1
    /\ matched' = [v \in Nodes |-> IF v = n THEN matched[n] + 1
                                  ELSE Lesser(matched[v], matched[n])]
    /\ pendIndex' = [pendIndex EXCEPT ![n] = matched[n]]
    /\ UNCHANGED <<commit, known, node, actor, failed, overlapped, asked, restarted>>

RestartForgetting(n) ==
    /\ restarted < MaxRestarts /\ restarted' = restarted + 1
    /\ n \in Crashing \ failed
    /\ leader' = IF leader = n THEN NoNode ELSE leader
    /\ \E i \in 1 .. applied[n] :
          /\ handed' = [handed EXCEPT ![n] = i]
          /\ applied' = [applied EXCEPT ![n] = i]
    /\ conf' = [conf EXCEPT ![n] = Conf0]
    /\ confIndex' = [confIndex EXCEPT ![n] = 0]
    /\ pendIndex' = [pendIndex EXCEPT ![n] = 0]
    /\ pending' = [pending EXCEPT ![n] = NoPending]
    /\ UNCHANGED <<log, commit, first, known, matched, replies,
                   failed, overlapped, asked, elected>>

\* The stored configuration survives; entries after a snapshot are replayed.
Restart(n) ==
    /\ restarted < MaxRestarts /\ restarted' = restarted + 1
    /\ n \in Crashing \ failed
    /\ leader' = IF leader = n THEN NoNode ELSE leader
    /\ \E i \in 1 .. applied[n] :
          /\ handed' = [handed EXCEPT ![n] = i]
          /\ applied' = [applied EXCEPT ![n] = i]
    /\ pendIndex' = [pendIndex EXCEPT ![n] = 0]
    /\ pending' = [pending EXCEPT ![n] = NoPending]
    /\ UNCHANGED <<log, commit, first, known, matched, conf, confIndex, replies,
                   failed, overlapped, asked, elected>>

Init ==
    /\ leader = Leader0 /\ log = <<Data>> /\ commit = 1 /\ first = 1
    /\ known = [n \in Nodes |-> 1] /\ matched = [n \in Nodes |-> 1]
    /\ handed = [n \in Nodes |-> 1] /\ applied = [n \in Nodes |-> 1]
    /\ conf = [n \in Nodes |-> Conf0]
    /\ confIndex = [n \in Nodes |-> 0] /\ pendIndex = [n \in Nodes |-> 0]
    /\ pending = [n \in Nodes |-> NoPending]
    /\ replies = {} /\ failed = {} /\ overlapped = FALSE /\ asked = 0
    /\ elected = 0 /\ restarted = 0

Next ==
    \/ \E n \in Nodes :
          \/ \E e \in Changes : conf_change(n, e)
          \/ Propose(n) \/ stage_committed(n) \/ absorb_progress(n)
          \/ reply_pendings(n) \/ Replicate(n) \/ Elect(n) \/ Restart(n)
    \/ Commit

Spec == Init /\ [][Next]_vars

(***************************************************************************)
(* Properties.                                                             *)
(***************************************************************************)
\* Every index is within the log it belongs to.
TypeOK ==
    /\ leader \in Nodes \cup {NoNode} /\ Len(log) <= MaxLog
    /\ \A n \in Nodes : /\ applied[n] <= handed[n]
                        /\ conf[n].voters \cup conf[n].learners \subseteq Nodes
                        /\ conf[n].voters \cap conf[n].learners = {}

\* "At most one membership change may be outstanding" (Handle::add_learner): a
\* leader proposes a change only after it has applied every earlier one of its log.
OneChangeAtATime == ~overlapped

\* No election loses a committed entry while changes have not overlapped: the
\* quorum that elects meets the quorum that committed, although the nodes have
\* applied different configurations (Command::ConfChange, pump_committed).
CommittedIsKept == [][elected' # elected /\ ~overlapped => commit < first']_vars

\* The same, of every behaviour: an elected leader has all that was committed.
NothingCommittedIsLost == [][elected' # elected => commit < first']_vars

\* A caller is told of success only when its change is committed and applied
\* (stage_committed attributes by identity; a change that raft replaced by an
\* empty entry is never confirmed).
OkMeansCommitted ==
    \A r \in replies : r[3] \in 1 .. commit /\ log[r[3]] = r[2]

\* A change leaves a configuration that can act: nobody ends up without voters
\* (choose_transferee: "removing the only voter would leave an empty
\* configuration, which raft cannot represent").
NobodyFails == failed = {}

\* "A leader is never removed directly" (Command::ConfChange): the leader is a
\* voter of the configuration it has applied.
LeaderIsVoter == leader # NoNode => leader \in conf[leader].voters
==============================================================================
