--------------------------- MODULE KvReplication ----------------------------
(***************************************************************************)
(* Replicas that apply one committed log with the engine of                *)
(* KvStateMachine, take snapshots, install each other's snapshots, crash   *)
(* and rebuild.  The engine lives in memory only: a restart restores the   *)
(* replica's last snapshot, or starts empty, and replays the log above it. *)
(*                                                                         *)
(* Raft is external: `log` is the agreed sequence, growing at its end.     *)
(* `ref` and `answers` are history variables; no action reads them.        *)
(***************************************************************************)
EXTENDS KvStateMachine

CONSTANTS
    Replicas,   \* the nodes
    Commands,   \* the commands clients and the leader may propose
    MaxLog,     \* bound on the length of the log
    NoSnap      \* a replica that has no snapshot yet

ASSUME CommandsAssumption == Commands \subseteq Command

VARIABLES
    log,      \* committed commands, log[i] at index i
    ref,      \* ref[i + 1] is the store after the first i commands
    store,    \* store[r]: replica r's engine
    saved,    \* saved[r]: replica r's durable snapshot, or NoSnap
    answers   \* what applying an entry answered, on any replica

vars == <<log, ref, store, saved, answers>>

Init ==
    /\ log = << >>
    /\ ref = <<EmptyStore>>
    /\ store = [r \in Replicas |-> EmptyStore]
    /\ saved = [r \in Replicas |-> NoSnap]
    /\ answers = {}

(***************************************************************************)
(* A client that retries a write resends the same bytes under the same     *)
(* session, so a session never names two different commands.               *)
(***************************************************************************)
SameSession(c, d) == HasSession(c) /\ HasSession(d) /\ c.session = d.session

Commit(cmd) ==
    /\ Len(log) < MaxLog
    /\ \A i \in DOMAIN log : SameSession(log[i], cmd) => log[i] = cmd
    /\ log' = Append(log, cmd)
    /\ ref' = Append(ref, ApplyCommand(ref[Len(ref)], Len(ref), cmd).store)
    /\ UNCHANGED <<store, saved, answers>>

Apply(r) ==
    LET i   == store[r].applied + 1
        res == ApplyCommand(store[r], i, log[i])
    IN  /\ i \in DOMAIN log
        /\ store' = [store EXCEPT ![r] = res.store]
        /\ answers' = answers \cup
             {[at |-> i, outcome |-> res.outcome, effective |-> res.effective]}
        /\ UNCHANGED <<log, ref, saved>>

TakeSnapshot(r) ==
    /\ saved' = [saved EXCEPT ![r] = Encode(store[r])]
    /\ UNCHANGED <<log, ref, store, answers>>

\* Raft only hands over a snapshot that is ahead of the follower.
InstallSnapshot(r, from) ==
    /\ saved[from] # NoSnap
    /\ saved[from].applied > store[r].applied
    /\ saved' = [saved EXCEPT ![r] = saved[from]]
    /\ store' = [store EXCEPT ![r] = Decode(saved[from])]
    /\ UNCHANGED <<log, ref, answers>>

Crash(r) ==
    /\ store' = [store EXCEPT ![r] =
                    IF saved[r] = NoSnap THEN EmptyStore ELSE Decode(saved[r])]
    /\ UNCHANGED <<log, ref, saved, answers>>

Next ==
    \/ \E cmd \in Commands : Commit(cmd)
    \/ \E r \in Replicas : Apply(r) \/ TakeSnapshot(r) \/ Crash(r)
    \/ \E r, from \in Replicas : InstallSnapshot(r, from)

Spec == Init /\ [][Next]_vars

-----------------------------------------------------------------------------

Answer == [at : Nat \ {0}, outcome : Outcome, effective : Nat \ {0}]

\* Every variable has the type the code gives it: the log holds commands,
\* every engine is a well-formed Store, every answer is an outcome with an
\* index a write API may expose (never 0).
TypeOK ==
    /\ log \in Seq(Commands)
    /\ ref \in Seq(Store)
    /\ store \in [Replicas -> Store]
    /\ \A r \in Replicas : saved[r] = NoSnap \/ Decode(saved[r]) \in Store
    /\ answers \subseteq Answer

\* State-machine safety (INV3): two replicas that have applied the same
\* number of entries hold the same keys, origin indexes and sessions,
\* whatever mix of replays, snapshots and restarts brought them there.
ReplicasAgree ==
    \A r, q \in Replicas :
        store[r].applied = store[q].applied => store[r] = store[q]

\* No session-GC entry names session s strictly between entries i and j.
NoGcBetween(s, i, j) ==
    \A g \in DOMAIN log :
        (i < g /\ g < j /\ log[g].op = "session_gc") => s \notin log[g].sessions

\* Exactly once (apply_with_events_and_index, "at most one outcome"): every
\* application of a session's command, on every replica, first or replayed,
\* before or after a snapshot and a restart, answers the same outcome and
\* the same effective index, until a session GC names the session.
OneOutcomePerSession ==
    \A a, b \in answers :
        (/\ a.at <= b.at
         /\ SameSession(log[a.at], log[b.at])
         /\ NoGcBetween(log[a.at].session, a.at, b.at))
        => a.outcome = b.outcome /\ a.effective = b.effective

\* The value command c gives key k when it takes effect, NoVal if it does not
\* put k.
PutsValue(c, k) ==
    CASE c.op = "put" -> IF c.key = k THEN c.val ELSE NoVal
      [] c.op = "multi_put" ->
            IF Occurrences(c.entries, k) # {} THEN LastValue(c.entries, k)
            ELSE NoVal
      [] c.op = "cas" ->
            IF c.key = k /\ c.success.kind = "put" THEN c.success.val
            ELSE NoVal
      [] OTHER -> NoVal

\* Origin indexes are honest: a present key holds the value its origin entry
\* wrote, that entry is applied, and the session of that entry has not been
\* re-applied under a later index unless a GC forgot it.
OriginIndexSound ==
    \A r \in Replicas, k \in Keys :
        LET e == store[r].kv[k]
        IN  e # NoEntry =>
                /\ e.index \in 1 .. store[r].applied
                /\ PutsValue(log[e.index], k) = e.val
                /\ \A i \in 1 .. e.index - 1 :
                     SameSession(log[i], log[e.index]) =>
                        ~NoGcBetween(log[i].session, i, e.index)

=============================================================================
